-------------------------- MODULE Benchmark_proofs --------------------------
(* The benchmark, for any cases file, results and way of comparing them. *)
EXTENDS Benchmark, FiniteSetTheorems, TLAPS

(***************************************************************************)
(* results and sessions are sequences that only grow: of what, is left     *)
(* open.                                                                   *)
(***************************************************************************)
IsList(s) == \E S : s \in Seq(S)

LEMMA EmptyIsList == IsList(<< >>)
  BY << >> \in Seq({}) DEF IsList

LEMMA Appended ==
    ASSUME NEW s, NEW x, IsList(s)
    PROVE  /\ IsList(Append(s, x)) /\ Len(s) \in Nat
           /\ DOMAIN s = 1..Len(s) /\ DOMAIN Append(s, x) = 1..(Len(s) + 1)
           /\ Len(Append(s, x)) = Len(s) + 1
           /\ Append(s, x)[Len(s) + 1] = x
           /\ \A i \in 1..Len(s) : Append(s, x)[i] = s[i]
<1>1. PICK S : s \in Seq(S)
  BY DEF IsList
<1> DEFINE T == S \cup {x}
<1>2. s \in Seq(T)
  BY <1>1
<1>3. x \in T
  OBVIOUS
<1> HIDE DEF T
<1>4. Append(s, x) \in Seq(T)
  BY <1>2, <1>3
<1>5. IsList(Append(s, x))
  BY <1>4 DEF IsList
<1>6. QED  BY <1>2, <1>3, <1>5

LEMMA ListLength == ASSUME NEW s, IsList(s) PROVE Len(s) \in Nat /\ DOMAIN s = 1..Len(s)
  BY Appended

Hits(pairs) == {p[1] : p \in pairs}
Picks(pairs) == {p[2] : p \in pairs}

Plus(pairs, e, r) == pairs \cup {<<e, r>>}

LEMMA PairsGrow ==
    ASSUME NEW pairs, NEW e, NEW r
    PROVE  /\ Hits(Plus(pairs, e, r)) = Hits(pairs) \cup {e}
           /\ Picks(Plus(pairs, e, r)) = Picks(pairs) \cup {r}
<1>1. Hits(Plus(pairs, e, r)) = Hits(pairs) \cup {<<e, r>>[1]}
  BY DEF Hits, Plus
<1>2. Picks(Plus(pairs, e, r)) = Picks(pairs) \cup {<<e, r>>[2]}
  BY DEF Picks, Plus
<1>3. QED  BY <1>1, <1>2

LEMMA StillOneToOne ==
    ASSUME NEW pairs, NEW e, NEW r, e \notin Hits(pairs), r \notin Picks(pairs), OneToOne(pairs)
    PROVE  OneToOne(Plus(pairs, e, r))
<1>1. ASSUME NEW p \in Plus(pairs, e, r), NEW q \in Plus(pairs, e, r),
             p[1] = q[1] \/ p[2] = q[2]
      PROVE  p = q
  <2>1. CASE p \in pairs /\ q \in pairs
    BY <1>1, <2>1 DEF OneToOne
  <2>2. ASSUME NEW u \in pairs PROVE u[1] # e /\ u[2] # r
    BY DEF Hits, Picks
  <2>3. CASE p = <<e, r>> \/ q = <<e, r>>
    BY <1>1, <2>2, <2>3 DEF Plus
  <2>4. QED  BY <2>1, <2>3 DEF Plus
<1>2. QED  BY <1>1 DEF OneToOne

-----------------------------------------------------------------------------
(***************************************************************************)
(* The invariant: what each line of the table says of its case, and what   *)
(* the loop of compute_score has established so far.                       *)
(***************************************************************************)
NoneLeft(expected, found, miss, spurious) ==
    \A e \in miss, r \in spurious : ~Matches(expected[e], found[r])

Counted(result, session, expected) ==
    /\ result.error = session.error
    /\ result.error => result.missed = {} /\ result.ratios = ScoreOfFailure
    /\ ~result.error => /\ OneToOne(result.matched) /\ IsFiniteSet(result.matched)
                        /\ Hits(result.matched) \cap result.missed = {}
                        /\ Hits(result.matched) \cup result.missed = DOMAIN expected
                        /\ Picks(result.matched) \cap result.spurious = {}
                        /\ Picks(result.matched) \cup result.spurious = DOMAIN session.findings
                        /\ NoneLeft(expected, session.findings, result.missed, result.spurious)
                        /\ IsFiniteSet(DOMAIN expected) /\ IsFiniteSet(DOMAIN session.findings)
                        /\ result.ratios = Score(Cardinality(result.matched),
                                                 Cardinality(DOMAIN expected),
                                                 Cardinality(DOMAIN session.findings))

Tally(expected, n, pairs, miss, taken, found) ==
    /\ n \in Nat /\ DOMAIN expected \in SUBSET Nat
    /\ OneToOne(pairs) /\ IsFiniteSet(pairs)
    /\ Hits(pairs) \cap miss = {}
    /\ Hits(pairs) \cup miss = {e \in DOMAIN expected : e < n}
    /\ taken = Picks(pairs) /\ taken \in SUBSET (DOMAIN found)
    /\ NoneLeft(expected, found, miss, DOMAIN found \ taken)

Results ==
    /\ IsList(results) /\ IsList(sessions)
    /\ Len(results) <= Len(sessions)
    /\ \A i \in 1..Len(results) : Counted(results[i], sessions[i], Expected(file[i]))

Progress ==
    /\ pc \in {"load", "case", "score", "exited", "failed"}
    /\ pc \in {"case", "score"} => IsList(file) /\ file \in Seq(RawCase) /\ report = Absent
    /\ pc = "load" => report = Absent
    /\ pc # "failed" => Len(sessions) = Len(results) + (IF pc = "score" THEN 1 ELSE 0)
    /\ pc = "exited" => Len(results) = Len(file) /\ (report # Absent => report = results)

Loop ==
    pc = "score" =>
        /\ sessions[Len(results) + 1] = [error |-> FALSE, ascii |-> TRUE, findings |-> reported]
        /\ Len(results) + 1 \in 1..Len(file)
        /\ IsList(reported)
        /\ Tally(Expected(Current), next, matched, missed, used, reported)

IInv == file \in CaseFiles /\ Results /\ Progress /\ Loop

-----------------------------------------------------------------------------
LEMMA ExpectedPositions ==
    ASSUME file \in Seq(RawCase), NEW i \in 1..Len(file)
    PROVE  DOMAIN Expected(file[i]) \in SUBSET Nat /\ IsFiniteSet(DOMAIN Expected(file[i]))
<1> DEFINE raw == file[i].expected_findings
<1>1. file[i] \in RawCase
  OBVIOUS
<1>2. Len(raw) \in Nat /\ DOMAIN raw = 1..Len(raw)
  BY <1>1 DEF RawCase
<1>3. DOMAIN Expected(file[i]) \in SUBSET (DOMAIN raw)
  BY DEF Expected
<1>4. IsFiniteSet(1..Len(raw))
  <2> HIDE DEF raw
  <2>1. 1 \in Int /\ Len(raw) \in Int
    BY <1>2
  <2>2. QED  BY <2>1, FS_Interval, Zenon
<1>5. QED  BY <1>2, <1>3, <1>4, FS_Subset

\* The lines that are there do not change when one is added for a session.
LEMMA LineAdded ==
    ASSUME Results, NEW result, NEW grown, IsList(grown), Len(results) + 1 <= Len(grown),
           \A i \in 1..Len(results) : grown[i] = sessions[i],
           Counted(result, grown[Len(results) + 1], Expected(file[Len(results) + 1]))
    PROVE  LET more == Append(results, result)
           IN  /\ IsList(more) /\ Len(more) = Len(results) + 1 /\ Len(more) <= Len(grown)
               /\ \A i \in 1..Len(more) : Counted(more[i], grown[i], Expected(file[i]))
<1> DEFINE more == Append(results, result)
           n == Len(results)
<1>1. /\ IsList(more) /\ n \in Nat /\ Len(more) = n + 1 /\ more[n + 1] = result
      /\ \A i \in 1..n : more[i] = results[i]
  BY Appended DEF Results
<1>2. \A i \in 1..n : Counted(results[i], sessions[i], Expected(file[i]))
  BY DEF Results
<1>3. Counted(more[n + 1], grown[n + 1], Expected(file[n + 1]))
  BY <1>1
<1> HIDE DEF more, n
<1>4. ASSUME NEW i \in 1..(n + 1) PROVE Counted(more[i], grown[i], Expected(file[i]))
  <2>1. CASE i = n + 1
    BY <1>3, <2>1
  <2>2. CASE i # n + 1
    <3>1. i \in 1..n
      BY <1>1, <2>2
    <3>2. more[i] = results[i] /\ grown[i] = sessions[i]
      BY <1>1, <3>1 DEF n
    <3>3. QED  BY <1>2, <3>1, <3>2
  <2>3. QED  BY <2>1, <2>2
<1>5. QED  BY <1>1, <1>4 DEF more, n

LEMMA IInvInit == Init => IInv
<1> SUFFICES ASSUME Init PROVE IInv
  OBVIOUS
<1>1. results = << >> /\ sessions = << >> /\ pc = "load" /\ report = Absent /\ file \in CaseFiles
  BY DEF Init
<1>2. IsList(results) /\ IsList(sessions) /\ Len(results) = 0 /\ Len(sessions) = 0
  BY <1>1, EmptyIsList
<1>3. Results
  BY <1>2 DEF Results
<1>4. QED  BY <1>1, <1>2, <1>3 DEF IInv, Progress, Loop

LEMMA LoadKeeps == IInv /\ Load => IInv'
<1> SUFFICES ASSUME IInv, Load PROVE IInv'
  OBVIOUS
<1>1. UNCHANGED <<file, results, sessions, report>> /\ pc = "load" /\ pc' \in {"case", "failed"}
      /\ (pc' = "case" => file # Unparsable)
  BY DEF Load
<1>2. Results'
  BY <1>1 DEF IInv, Results
<1>3. pc' = "case" => file' \in Seq(RawCase) /\ IsList(file')
  BY <1>1, BenchmarkAssumption DEF IInv, IsList
<1>4. Progress'
  BY <1>1, <1>3 DEF IInv, Progress
<1>5. QED  BY <1>1, <1>2, <1>4 DEF IInv, Loop

LEMMA CaseRunsKeeps == IInv /\ CaseRuns => IInv'
<1> SUFFICES ASSUME IInv, CaseRuns PROVE IInv'
  OBVIOUS
<1> DEFINE session == [error |-> FALSE, ascii |-> TRUE, findings |-> reported']
<1>1. /\ UNCHANGED <<file, results, report>> /\ pc = "case" /\ pc' = "score"
      /\ sessions' = Append(sessions, session) /\ Len(results) < Len(file)
      /\ next' = 1 /\ matched' = {} /\ missed' = {} /\ used' = {}
  BY DEF CaseRuns, SessionEnds
<1>2. IsList(reported')
  <2>1. PICK n \in 0..MaxFindings : reported' \in [1..n -> Found]
    BY DEF CaseRuns
  <2>2. reported' \in Seq(Found)
    BY <2>1
  <2>3. QED  BY <2>2 DEF IsList
<1>3. /\ IsList(sessions) /\ IsList(results) /\ Len(sessions) = Len(results)
      /\ IsList(file) /\ file \in Seq(RawCase) /\ report = Absent
  BY <1>1 DEF IInv, Results, Progress
<1>4. Len(results) \in Nat /\ Len(file) \in Nat
  BY <1>3, ListLength
<1> HIDE DEF session
<1>5. /\ IsList(sessions') /\ Len(sessions') = Len(results) + 1
      /\ sessions'[Len(results) + 1] = session
      /\ \A i \in 1..Len(results) : sessions'[i] = sessions[i]
  BY <1>1, <1>3, Appended
<1>6. Results'
  <2>1. ASSUME NEW i \in 1..Len(results)
        PROVE  Counted(results[i], sessions'[i], Expected(file[i]))
    BY <1>5 DEF IInv, Results
  <2>2. QED  BY <1>1, <1>3, <1>4, <1>5, <2>1 DEF Results
<1>7. Progress'
  BY <1>1, <1>3, <1>5 DEF Progress
<1>8. Len(results) + 1 \in 1..Len(file)
  BY <1>1, <1>4
<1>9. Tally(Expected(file[Len(results) + 1]), 1, {}, {}, {}, reported')
  <2>1. DOMAIN Expected(file[Len(results) + 1]) \in SUBSET Nat
    BY <1>3, <1>8, ExpectedPositions
  <2>2. \A e \in DOMAIN Expected(file[Len(results) + 1]) : ~(e < 1)
    <3>1. DOMAIN Expected(file[Len(results) + 1])
             \subseteq DOMAIN file[Len(results) + 1].expected_findings
      BY DEF Expected
    <3>2. file[Len(results) + 1] \in RawCase
      BY <1>3, <1>8
    <3>3. file[Len(results) + 1].expected_findings
              \in Seq([object: BOOLEAN, key_fields: KeyFields \cup {NotADict}])
      BY <3>2 DEF RawCase
    <3>4. \A e \in DOMAIN file[Len(results) + 1].expected_findings : e \in Nat /\ 1 <= e
      BY <3>3
    <3>5. QED  BY <3>1, <3>4
  <2>3. OneToOne({}) /\ IsFiniteSet({}) /\ Hits({}) = {} /\ Picks({}) = {}
    BY FS_EmptySet DEF OneToOne, Hits, Picks
  <2>4. QED  BY <2>1, <2>2, <2>3 DEF Tally, NoneLeft
<1>10. Loop'
  BY <1>1, <1>2, <1>5, <1>8, <1>9 DEF Loop, Current, session
<1>11. QED  BY <1>1, <1>6, <1>7, <1>10 DEF IInv

LEMMA CaseFailsKeeps == IInv /\ CaseFails => IInv'
<1> SUFFICES ASSUME IInv, CaseFails PROVE IInv'
  OBVIOUS
<1> DEFINE result == ResultOf(ScoreOfFailure, TRUE, {}, {}, {})
<1>1. /\ UNCHANGED <<file, report>> /\ pc = "case" /\ pc' = "case"
      /\ results' = Append(results, result)
  BY DEF CaseFails
<1>2. PICK ascii \in BOOLEAN :
         sessions' = Append(sessions, [error |-> TRUE, ascii |-> ascii, findings |-> << >>])
  BY DEF CaseFails, SessionEnds
<1> DEFINE session == [error |-> TRUE, ascii |-> ascii, findings |-> << >>]
<1>3. /\ IsList(sessions) /\ IsList(results) /\ Len(sessions) = Len(results)
      /\ IsList(file) /\ file \in Seq(RawCase) /\ report = Absent
  BY <1>1 DEF IInv, Results, Progress
<1>4. Counted(result, session, Expected(file[Len(results) + 1]))
  BY DEF Counted, ResultOf
<1>5. sessions' = Append(sessions, session)
  BY <1>2
<1> HIDE DEF result, session
<1>6. /\ IsList(sessions') /\ Len(sessions') = Len(results) + 1 /\ Len(results) \in Nat
      /\ sessions'[Len(results) + 1] = session
      /\ \A i \in 1..Len(results) : sessions'[i] = sessions[i]
  BY <1>3, <1>5, Appended
<1>7. /\ IsList(results') /\ Len(results') = Len(results) + 1 /\ Len(results') <= Len(sessions')
      /\ \A i \in 1..Len(results') : Counted(results'[i], sessions'[i], Expected(file[i]))
  <2>1. Results
    BY DEF IInv
  <2>2. Len(results) + 1 <= Len(sessions')
    BY <1>6
  <2>3. Counted(result, sessions'[Len(results) + 1], Expected(file[Len(results) + 1]))
    BY <1>4, <1>6
  <2>4. QED  BY <1>1, <1>6, <2>1, <2>2, <2>3, LineAdded
<1>8. Results'
  BY <1>1, <1>6, <1>7 DEF Results
<1>9. Progress'
  BY <1>1, <1>3, <1>6, <1>7 DEF Progress
<1>10. QED  BY <1>1, <1>8, <1>9 DEF IInv, Loop

LEMMA AbortKeeps == IInv /\ (CaseAborts \/ ScoreOverflows) => IInv'
<1> SUFFICES ASSUME IInv, CaseAborts \/ ScoreOverflows PROVE IInv'
  OBVIOUS
<1>1. UNCHANGED <<file, sessions, report>> /\ pc' = "failed" /\ results' = << >>
  BY DEF CaseAborts, ScoreOverflows
<1>2. IsList(results') /\ Len(results') = 0 /\ IsList(sessions) /\ Len(sessions) \in Nat
  BY <1>1, EmptyIsList, ListLength DEF IInv, Results
<1>3. Results'
  BY <1>1, <1>2 DEF Results
<1>4. QED  BY <1>1, <1>3 DEF IInv, Progress, Loop

-----------------------------------------------------------------------------
\* The next expected finding is looked at: it gets a result ...
LEMMA TallyHit ==
    ASSUME NEW expected, NEW n, NEW pairs, NEW miss, NEW taken, NEW found,
           Tally(expected, n, pairs, miss, taken, found),
           NEW e \in DOMAIN expected, n <= e, \A d \in DOMAIN expected : n <= d => e <= d,
           NEW r \in DOMAIN found \ taken
    PROVE  Tally(expected, e + 1, pairs \cup {<<e, r>>}, miss, taken \cup {r}, found)
<1>1. e \in Nat /\ n \in Nat /\ DOMAIN expected \in SUBSET Nat
  BY DEF Tally
<1>2. {d \in DOMAIN expected : d < e + 1} = {d \in DOMAIN expected : d < n} \cup {e}
  BY <1>1
<1>3. e \notin Hits(pairs) /\ e \notin miss /\ r \notin Picks(pairs) /\ OneToOne(pairs)
  BY <1>1 DEF Tally
<1> DEFINE more == Plus(pairs, e, r)
<1>4. OneToOne(more) /\ Hits(more) = Hits(pairs) \cup {e} /\ Picks(more) = Picks(pairs) \cup {r}
  BY <1>3, PairsGrow, StillOneToOne
<1>11. IsFiniteSet(more)
  BY FS_AddElement DEF Tally, Plus
<1> HIDE DEF more
<1>5. NoneLeft(expected, found, miss, DOMAIN found \ (taken \cup {r}))
  BY DEF Tally, NoneLeft
<1>6. Hits(more) \cap miss = {}
  BY <1>3, <1>4 DEF Tally
<1>7. Hits(more) \cup miss = {d \in DOMAIN expected : d < e + 1}
  BY <1>2, <1>4 DEF Tally
<1>8. taken \cup {r} = Picks(more) /\ taken \cup {r} \in SUBSET (DOMAIN found)
  BY <1>4 DEF Tally
<1>9. e + 1 \in Nat
  BY <1>1
<1>10. QED  BY <1>1, <1>4, <1>5, <1>6, <1>7, <1>8, <1>9, <1>11 DEF Tally, more, Plus

\* ... or is missed, with nothing left that it matches.
LEMMA TallyMiss ==
    ASSUME NEW expected, NEW n, NEW pairs, NEW miss, NEW taken, NEW found,
           Tally(expected, n, pairs, miss, taken, found),
           NEW e \in DOMAIN expected, n <= e, \A d \in DOMAIN expected : n <= d => e <= d,
           \A r \in DOMAIN found \ taken : ~Matches(expected[e], found[r])
    PROVE  Tally(expected, e + 1, pairs, miss \cup {e}, taken, found)
<1>1. e \in Nat /\ n \in Nat /\ DOMAIN expected \in SUBSET Nat
  BY DEF Tally
<1>2. {d \in DOMAIN expected : d < e + 1} = {d \in DOMAIN expected : d < n} \cup {e}
  BY <1>1
<1>3. e \notin Hits(pairs)
  BY <1>1 DEF Tally
<1>4. NoneLeft(expected, found, miss \cup {e}, DOMAIN found \ taken)
  BY DEF Tally, NoneLeft
<1>5. Hits(pairs) \cap (miss \cup {e}) = {}
  BY <1>3 DEF Tally
<1>6. Hits(pairs) \cup (miss \cup {e}) = {d \in DOMAIN expected : d < e + 1}
  BY <1>2 DEF Tally
<1>7. e + 1 \in Nat
  BY <1>1
<1>8. QED  BY <1>1, <1>4, <1>5, <1>6, <1>7 DEF Tally

LEMMA MatchFirstKeeps == IInv /\ MatchFirst => IInv'
<1> SUFFICES ASSUME IInv, MatchFirst PROVE IInv'
  OBVIOUS
<1>1. UNCHANGED <<pc, file, reported, missed, results, report, sessions>> /\ pc = "score"
  BY DEF MatchFirst
<1>2. PICK e \in Ahead, r \in DOMAIN reported :
         /\ LooksAt(e) /\ r \in Candidates(e)
         /\ matched' = matched \cup {<<e, r>>} /\ used' = used \cup {r}
  BY DEF MatchFirst, Candidates
<1> DEFINE expected == Expected(Current)
<1>3. Tally(expected, next, matched, missed, used, reported)
  BY <1>1 DEF IInv, Loop
<1>4. /\ e \in DOMAIN expected /\ next <= e /\ next' = e + 1
      /\ \A d \in DOMAIN expected : next <= d => e <= d
  BY <1>2 DEF Ahead, LooksAt
<1>5. r \in DOMAIN reported \ used
  BY <1>2 DEF Candidates
<1> HIDE DEF expected
<1>6. Tally(expected, next', matched', missed, used', reported)
  BY <1>2, <1>3, <1>4, <1>5, TallyHit
<1>7. Loop'
  BY <1>1, <1>6 DEF IInv, Loop, Current, expected
<1>8. Results' /\ Progress'
  BY <1>1 DEF IInv, Results, Progress
<1>9. QED  BY <1>1, <1>7, <1>8 DEF IInv

LEMMA MissKeeps == IInv /\ Miss => IInv'
<1> SUFFICES ASSUME IInv, Miss PROVE IInv'
  OBVIOUS
<1>1. UNCHANGED <<pc, file, reported, matched, used, results, report, sessions>> /\ pc = "score"
  BY DEF Miss
<1>2. PICK e \in Ahead : LooksAt(e) /\ Candidates(e) = {} /\ missed' = missed \cup {e}
  BY DEF Miss
<1> DEFINE expected == Expected(Current)
<1>3. Tally(expected, next, matched, missed, used, reported)
  BY <1>1 DEF IInv, Loop
<1>4. /\ e \in DOMAIN expected /\ next <= e /\ next' = e + 1
      /\ \A d \in DOMAIN expected : next <= d => e <= d
  BY <1>2 DEF Ahead, LooksAt
<1>5. \A r \in DOMAIN reported \ used : ~Matches(expected[e], reported[r])
  BY <1>2 DEF Candidates
<1> HIDE DEF expected
<1>6. Tally(expected, next', matched, missed', used, reported)
  BY <1>2, <1>3, <1>4, <1>5, TallyMiss
<1>7. Loop'
  BY <1>1, <1>6 DEF IInv, Loop, Current, expected
<1>8. Results' /\ Progress'
  BY <1>1 DEF IInv, Results, Progress
<1>9. QED  BY <1>1, <1>7, <1>8 DEF IInv

LEMMA ScoredKeeps == IInv /\ Scored => IInv'
<1> SUFFICES ASSUME IInv, Scored PROVE IInv'
  OBVIOUS
<1> DEFINE expected == Expected(Current)
           lost == IF reported = << >> THEN DOMAIN expected ELSE missed
           ratios == Score(Cardinality(matched), Cardinality(DOMAIN expected), Len(reported))
           result == ResultOf(ratios, FALSE, matched, lost, DOMAIN reported \ used)
           session == [error |-> FALSE, ascii |-> TRUE, findings |-> reported]
<1>1. /\ UNCHANGED <<file, sessions, report>> /\ pc = "score" /\ pc' = "case" /\ Ahead = {}
      /\ results' = Append(results, result)
  BY DEF Scored
<1>2. /\ Tally(expected, next, matched, missed, used, reported)
      /\ sessions[Len(results) + 1] = session /\ IsList(reported)
  BY <1>1 DEF IInv, Loop
<1>3. reported # << >> => \A e \in DOMAIN expected : e < next
  <2>1. \A e \in DOMAIN expected : e \in Nat /\ next \in Nat
    BY <1>2 DEF Tally
  <2>2. QED  BY <1>1, <2>1 DEF Ahead
<1> HIDE DEF expected, ratios
<1>11. IsFiniteSet(DOMAIN reported) /\ Cardinality(DOMAIN reported) = Len(reported)
  <2>1. Len(reported) \in Nat /\ DOMAIN reported = 1..Len(reported)
    BY <1>2, ListLength
  <2>2. /\ IsFiniteSet(1..Len(reported))
        /\ Cardinality(1..Len(reported))
             = IF 1 > Len(reported) THEN 0 ELSE Len(reported) - 1 + 1
    <3>1. 1 \in Int /\ Len(reported) \in Int
      BY <2>1
    <3>2. QED  BY <3>1, FS_Interval
  <2>3. QED  BY <2>1, <2>2
<1>12. IsFiniteSet(DOMAIN expected)
  <2>1. file \in Seq(RawCase) /\ Len(results) + 1 \in 1..Len(file)
    BY <1>1 DEF IInv, Progress, Loop
  <2>2. QED  BY <2>1, ExpectedPositions DEF expected, Current
<1>13. ratios = Score(Cardinality(matched), Cardinality(DOMAIN expected),
                      Cardinality(DOMAIN reported))
  BY <1>11 DEF ratios
<1>4. Counted(result, session, expected)
  <2>1. /\ OneToOne(matched) /\ IsFiniteSet(matched)
        /\ Picks(matched) = used /\ used \in SUBSET (DOMAIN reported)
    BY <1>2 DEF Tally
  <2>2. CASE reported = << >>
    <3>1. DOMAIN reported = {} /\ used = {}
      BY <2>1, <2>2
    <3>2. Hits(matched) = {}
      BY <2>1, <3>1 DEF Hits, Picks
    <3>3. NoneLeft(expected, reported, lost, DOMAIN reported \ used)
      BY <3>1 DEF NoneLeft
    <3>4. QED  BY <1>11, <1>12, <1>13, <2>1, <2>2, <3>1, <3>2, <3>3 DEF Counted, ResultOf
  <2>3. CASE reported # << >>
    <3>1. Hits(matched) \cap missed = {} /\ Hits(matched) \cup missed = DOMAIN expected
      BY <1>2, <1>3, <2>3 DEF Tally
    <3>2. NoneLeft(expected, reported, missed, DOMAIN reported \ used)
      BY <1>2 DEF Tally
    <3>3. QED  BY <1>11, <1>12, <1>13, <2>1, <2>3, <3>1, <3>2 DEF Counted, ResultOf
  <2>4. QED  BY <2>2, <2>3
<1> HIDE DEF result, session
<1>5. /\ IsList(sessions) /\ Len(results) \in Nat /\ Len(sessions) = Len(results) + 1
      /\ IsList(file) /\ file \in Seq(RawCase) /\ report = Absent
  BY <1>1, ListLength DEF IInv, Results, Progress
<1>6. /\ IsList(results') /\ Len(results') = Len(results) + 1 /\ Len(results') <= Len(sessions)
      /\ \A i \in 1..Len(results') : Counted(results'[i], sessions[i], Expected(file[i]))
  <2>1. Results
    BY DEF IInv
  <2>2. Counted(result, sessions[Len(results) + 1], Expected(file[Len(results) + 1]))
    BY <1>2, <1>4 DEF expected, Current
  <2>3. QED  BY <1>1, <1>5, <2>1, <2>2, LineAdded
<1>7. Results'
  BY <1>1, <1>5, <1>6 DEF Results
<1>8. Progress'
  BY <1>1, <1>5, <1>6 DEF Progress
<1>9. QED  BY <1>1, <1>7, <1>8 DEF IInv, Loop

LEMMA ReportKeeps == IInv /\ (PrintReport \/ WriteReport) => IInv'
<1> SUFFICES ASSUME IInv, PrintReport \/ WriteReport PROVE IInv'
  OBVIOUS
<1>1. /\ UNCHANGED <<file, results, sessions>> /\ pc = "case" /\ pc' \in {"exited", "failed"}
      /\ Len(results) = Len(file)
      /\ pc' = "exited" => report' = results \/ report' = report
  BY DEF PrintReport, WriteReport
<1>2. report = Absent /\ Len(sessions) = Len(results) + 0
  BY <1>1 DEF IInv, Progress
<1>3. Results'
  BY <1>1 DEF IInv, Results
<1>4. Progress'
  BY <1>1, <1>2 DEF Progress
<1>5. QED  BY <1>1, <1>3, <1>4 DEF IInv, Loop

LEMMA IInvStep == IInv /\ [Next]_vars => IInv'
<1> SUFFICES ASSUME IInv, [Next]_vars PROVE IInv'
  OBVIOUS
<1>1. CASE UNCHANGED vars
  BY <1>1 DEF IInv, Results, Progress, Loop, Current, vars, scoreVars
<1>2. QED
  BY <1>1, LoadKeeps, CaseRunsKeeps, CaseFailsKeeps, AbortKeeps, MatchFirstKeeps,
     MissKeeps, ScoredKeeps, ReportKeeps
  DEF Next

LEMMA BenchmarkInvariant == Spec => []IInv
  BY IInvInit, IInvStep, PTL DEF Spec

-----------------------------------------------------------------------------
\* For every cases file and whatever the sessions report, the table adds up: each case
\* has one line, in which no finding and no result is counted twice or left out
\* (compute_score, run_benchmark).
THEOREM TableAddsUp == Spec => []EveryFindingCountedOnce
<1>1. ASSUME IInv PROVE EveryFindingCountedOnce
  <2>1. /\ IsList(results) /\ Len(results) \in Nat /\ DOMAIN results = 1..Len(results)
        /\ IsList(sessions) /\ Len(sessions) \in Nat
    BY <1>1, ListLength DEF IInv, Results
  <2>2. Len(results) = Len(sessions) - (IF pc = "score" THEN 1 ELSE 0) \/ pc = "failed"
    BY <1>1, <2>1 DEF IInv, Progress
  <2>3. \A i \in DOMAIN results : Counted(results[i], sessions[i], Expected(file[i]))
    BY <1>1, <2>1 DEF IInv, Results
  <2>4. QED
    BY <2>2, <2>3 DEF EveryFindingCountedOnce, Counted, Hits, Picks, Wanted, Reported
<1>2. QED  BY <1>1, BenchmarkInvariant, PTL

\* Whatever it means to match, no missed finding matches a spurious result of its case
\* (the inner loop of compute_score tries all results that are left).
THEOREM SearchIsExhaustive == Spec => []NothingMatchableLeft
<1>1. ASSUME IInv PROVE NothingMatchableLeft
  <2>1. DOMAIN results = 1..Len(results)
    BY <1>1, ListLength DEF IInv, Results
  <2>2. ASSUME NEW i \in DOMAIN results
        PROVE  NoneLeft(Expected(file[i]), sessions[i].findings,
                        results[i].missed, results[i].spurious)
    <3>1. Counted(results[i], sessions[i], Expected(file[i]))
      BY <1>1, <2>1 DEF IInv, Results
    <3>2. CASE results[i].missed = {}
      BY <3>2 DEF NoneLeft
    <3>3. CASE results[i].missed # {}
      BY <3>1, <3>3 DEF Counted
    <3>4. QED  BY <3>2, <3>3
  <2>3. QED  BY <2>2 DEF NothingMatchableLeft, NoneLeft
<1>2. QED  BY <1>1, BenchmarkInvariant, PTL

\* The command exits with 0 only when every case has its line, in the file it was asked
\* to write if there is one (_run_benchmark_cmd).
THEOREM ExitZeroReported == Spec => []ExitZeroMeansReported
<1>1. ASSUME IInv PROVE ExitZeroMeansReported
  <2>1. IsList(sessions) /\ Len(results) \in Nat
    BY <1>1, ListLength DEF IInv, Results
  <2>2. QED  BY <1>1, <2>1 DEF IInv, Progress, ExitZeroMeansReported
<1>2. QED  BY <1>1, BenchmarkInvariant, PTL

-----------------------------------------------------------------------------
\* Pairs of which each shares a side with one of m: no more than two share with the same.
LEMMA AtMostTwice ==
    ASSUME NEW m, IsFiniteSet(m), NEW pairs, OneToOne(pairs),
           \A p \in pairs : (\E q \in m : q[1] = p[1]) \/ (\E q \in m : q[2] = p[2])
    PROVE  Cardinality(pairs) <= 2 * Cardinality(m)
<1> DEFINE Side(i) == {p \in pairs : \E q \in m : q[i] = p[i]}
<1>1. ASSUME NEW i \in {1, 2} PROVE IsFiniteSet(Side(i)) /\ Cardinality(Side(i)) <= Cardinality(m)
  <2> DEFINE f == [p \in Side(i) |-> CHOOSE q \in m : q[i] = p[i]]
  <2>1. ASSUME NEW p \in Side(i) PROVE f[p] \in m /\ f[p][i] = p[i]
    OBVIOUS
  <2>2. ASSUME NEW p \in Side(i), NEW q \in Side(i), f[p] = f[q] PROVE p = q
    <3>1. p[i] = q[i]
      BY <2>1, <2>2
    <3>2. QED  BY <1>1, <3>1 DEF OneToOne
  <2>3. f \in [Side(i) -> m] /\ DOMAIN f = Side(i)
    BY <2>1
  <2> HIDE DEF f, Side
  <2>4. f \in Injection(Side(i), m)
    BY <2>2, <2>3 DEF Injection, IsInjective
  <2>5. QED  BY <2>4, FS_Injection
<1>2. pairs = Side(1) \cup Side(2)
  OBVIOUS
<1> HIDE DEF Side
<1>3. /\ IsFiniteSet(Side(1)) /\ Cardinality(Side(1)) <= Cardinality(m)
      /\ IsFiniteSet(Side(2)) /\ Cardinality(Side(2)) <= Cardinality(m)
  BY <1>1
<1>4. Cardinality(pairs) = Cardinality(Side(1)) + Cardinality(Side(2))
                           - Cardinality(Side(1) \cap Side(2))
  BY <1>2, <1>3, FS_Union
<1>5. IsFiniteSet(Side(1) \cap Side(2))
  BY <1>3, FS_Subset
<1>6. /\ Cardinality(m) \in Nat /\ Cardinality(Side(1)) \in Nat /\ Cardinality(Side(2)) \in Nat
      /\ Cardinality(Side(1) \cap Side(2)) \in Nat
  BY <1>3, <1>5, FS_CardinalityType
<1>7. QED  BY <1>3, <1>4, <1>6

\* The greedy search finds at least half of the matches the best assignment has, whatever
\* it means to match (compute_score).  A pair of that assignment with neither side in a
\* match would be a missed finding that matches a spurious result.
THEOREM HalfOfBest == Spec => []AtLeastHalfOfBest
<1>1. ASSUME IInv PROVE AtLeastHalfOfBest
  <2>1. DOMAIN results = 1..Len(results)
    BY <1>1, ListLength DEF IInv, Results
  <2>2. ASSUME NEW i \in DOMAIN results, ~results[i].error, NEW pairs \in Matchings(i)
        PROVE  Cardinality(pairs) <= 2 * Cardinality(results[i].matched)
    <3> DEFINE m == results[i].matched
    <3>1. Counted(results[i], sessions[i], Expected(file[i]))
      BY <1>1, <2>1 DEF IInv, Results
    <3>2. /\ IsFiniteSet(m)
          /\ Hits(m) \cup results[i].missed = Wanted(i)
          /\ Picks(m) \cup results[i].spurious = Reported(i)
          /\ NoneLeft(Expected(file[i]), sessions[i].findings,
                      results[i].missed, results[i].spurious)
      BY <2>2, <3>1 DEF Counted, Wanted, Reported
    <3>3. OneToOne(pairs)
      BY <2>2 DEF Matchings
    <3>4. ASSUME NEW p \in pairs
          PROVE  (\E q \in m : q[1] = p[1]) \/ (\E q \in m : q[2] = p[2])
      <4>1. p \in Wanted(i) \X Reported(i)
            /\ Matches(Expected(file[i])[p[1]], sessions[i].findings[p[2]])
        BY <2>2 DEF Matchings
      <4>2. p[1] \in Wanted(i) /\ p[2] \in Reported(i)
        BY <4>1
      <4>3. p[1] \notin results[i].missed \/ p[2] \notin results[i].spurious
        BY <3>2, <4>1 DEF NoneLeft
      <4>4. p[1] \in Hits(m) \/ p[2] \in Picks(m)
        BY <3>2, <4>2, <4>3
      <4>5. QED  BY <4>4 DEF Hits, Picks
    <3> HIDE DEF m
    <3>5. Cardinality(pairs) <= 2 * Cardinality(m)
      BY <3>2, <3>3, <3>4, AtMostTwice
    <3>6. QED  BY <3>5 DEF m
  <2>3. QED  BY <2>2 DEF AtLeastHalfOfBest
<1>2. QED  BY <1>1, BenchmarkInvariant, PTL

-----------------------------------------------------------------------------
\* What the four cases of compute_score make of the counts is one and the same ratio.
LEMMA RatiosOfCounts ==
    ASSUME NEW tp \in Nat, NEW e \in Nat, NEW r \in Nat, tp <= e, tp <= r
    PROVE  LET f1 == Score(tp, e, r).f1
           IN  /\ f1[2] > 0 /\ f1[1] <= f1[2]
               /\ e + r > 0 => f1[1] * (e + r) = 2 * tp * f1[2]
<1> DEFINE f1 == Score(tp, e, r).f1
<1>1. CASE e = 0 /\ r = 0
  <2>1. f1 = <<1, 1>>
    BY <1>1 DEF Score, Ratios
  <2>2. QED  BY <1>1, <2>1
<1>2. CASE (e = 0) # (r = 0)
  <2>1. f1 = <<0, 1>> /\ tp = 0
    BY <1>2 DEF Score, Ratios
  <2>2. QED  BY <2>1
<1>3. CASE e > 0 /\ r > 0
  <2>1. f1 = HarmonicMean(<<tp, r>>, <<tp, e>>)
    BY <1>3 DEF Score, Ratios
  <2>2. CASE tp = 0
    <3>1. f1 = <<0, 1>>
      BY <2>1, <2>2 DEF HarmonicMean
    <3>2. QED  BY <2>2, <3>1
  <2>3. CASE tp > 0
    <3>1. tp * e > 0 /\ tp * r > 0 /\ tp * e \in Nat /\ tp * r \in Nat
      BY <1>3, <2>3
    <3>2. f1 = <<2 * tp * tp, tp * e + tp * r>>
      BY <2>1, <3>1 DEF HarmonicMean
    <3>3. tp * tp <= tp * e /\ tp * tp <= tp * r
      OBVIOUS
    <3>4. (2 * tp * tp) * (e + r) = 2 * tp * (tp * e + tp * r)
      OBVIOUS
    <3>5. 2 * tp * tp <= tp * e + tp * r
      BY <3>1, <3>3
    <3> HIDE DEF f1
    <3>6. f1[1] = 2 * tp * tp /\ f1[2] = tp * e + tp * r
      BY <3>2
    <3>7. f1[2] > 0 /\ f1[1] <= f1[2]
      BY <3>1, <3>5, <3>6
    <3>8. f1[1] * (e + r) = 2 * tp * f1[2]
      BY <3>4, <3>6
    <3>9. QED  BY <3>7, <3>8 DEF f1
  <2>4. QED  BY <2>2, <2>3
<1>4. QED  BY <1>1, <1>2, <1>3

\* One-to-one pairs are no more than what either side has.
LEMMA NoMoreThanSides ==
    ASSUME NEW pairs, OneToOne(pairs), NEW i \in {1, 2}, NEW S, IsFiniteSet(S),
           \A p \in pairs : p[i] \in S
    PROVE  Cardinality(pairs) <= Cardinality(S)
<1> DEFINE f == [p \in pairs |-> p[i]]
<1>1. f \in Injection(pairs, S)
  BY DEF Injection, IsInjective, OneToOne
<1> HIDE DEF f
<1>2. QED  BY <1>1, FS_Injection

\* F1 is 2 tp / (expected + reported) in every line of every table: the number of matches
\* is no more than that of the findings or of the results, and the four cases of
\* compute_score agree.  None divides by zero.
THEOREM F1IsOfTheCounts == Spec => []F1OfTheCounts
<1>1. ASSUME IInv PROVE F1OfTheCounts
  <2>1. DOMAIN results = 1..Len(results)
    BY <1>1, ListLength DEF IInv, Results
  <2>2. ASSUME NEW i \in DOMAIN results
        PROVE  LET f1 == results[i].ratios.f1
                   all == Cardinality(Wanted(i)) + Cardinality(Reported(i))
               IN  /\ f1[2] > 0 /\ f1[1] <= f1[2]
                   /\ (~results[i].error /\ all > 0) =>
                          f1[1] * all = 2 * Cardinality(results[i].matched) * f1[2]
    <3> DEFINE m == results[i].matched
               f1 == results[i].ratios.f1
    <3>1. Counted(results[i], sessions[i], Expected(file[i]))
      BY <1>1, <2>1 DEF IInv, Results
    <3>2. CASE results[i].error
      <4>1. f1 = <<0, 1>>
        BY <3>1, <3>2 DEF Counted, ScoreOfFailure, Ratios
      <4>2. QED  BY <3>2, <4>1
    <3>3. CASE ~results[i].error
      <4>1. /\ OneToOne(m) /\ IsFiniteSet(m)
            /\ IsFiniteSet(Wanted(i)) /\ IsFiniteSet(Reported(i))
            /\ Hits(m) \subseteq Wanted(i) /\ Picks(m) \subseteq Reported(i)
            /\ results[i].ratios = Score(Cardinality(m), Cardinality(Wanted(i)),
                                         Cardinality(Reported(i)))
        BY <3>1, <3>3 DEF Counted, Wanted, Reported
      <4>2. \A p \in m : p[1] \in Wanted(i) /\ p[2] \in Reported(i)
        BY <4>1 DEF Hits, Picks
      <4> HIDE DEF m
      <4>3. /\ Cardinality(m) \in Nat
            /\ Cardinality(Wanted(i)) \in Nat /\ Cardinality(Reported(i)) \in Nat
        BY <4>1, FS_CardinalityType
      <4>4. Cardinality(m) <= Cardinality(Wanted(i))
        BY <4>1, <4>2, NoMoreThanSides
      <4>5. Cardinality(m) <= Cardinality(Reported(i))
        BY <4>1, <4>2, NoMoreThanSides
      <4>6. QED  BY <4>1, <4>3, <4>4, <4>5, RatiosOfCounts DEF m
    <3>4. QED  BY <3>2, <3>3
  <2>3. QED  BY <2>2 DEF F1OfTheCounts
<1>2. QED  BY <1>1, BenchmarkInvariant, PTL
=============================================================================
