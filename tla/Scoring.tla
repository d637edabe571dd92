------------------------------ MODULE Scoring ------------------------------
(***************************************************************************)
(* How src/sentinel/benchmark/scoring.py compares an expected finding with *)
(* a result, and makes precision, recall and F1 of the counts.             *)
(*                                                                         *)
(* An expected finding is its key_fields, a function from keys to texts.   *)
(* A result is the set of the JSON objects in its payload, however deeply  *)
(* nested: the search looks at each of them.  A ratio is a pair.           *)
(***************************************************************************)
EXTENDS Naturals

CONSTANTS
    Within(_, _)  \* Within(a, b): the text a occurs in the text b

\* A number is named by its text, as is a value whose str() is searched.
Value(kind, text) == [kind |-> kind, text |-> text]

\* _field_value_matches, for an actual value other than None.  A "huge" number matches
\* nothing: float(actual) raises, unless float(expected_val) did before.
FieldMatches(expected, actual) ==
    CASE actual.kind = "number" -> expected = actual.text
      [] actual.kind = "huge"   -> FALSE
      [] OTHER                  -> Within(expected, actual.text)

\* _record_matches
RecordMatches(key_fields, record) ==
    \A key \in DOMAIN key_fields :
        /\ key \in DOMAIN record /\ record[key].kind # "None"
        /\ FieldMatches(key_fields[key], record[key])

\* _matches and _deep_record_matches: all fields in one and the same object.
\* Without key fields anything matches, even a result without a payload.
Matches(key_fields, records) ==
    DOMAIN key_fields = {} \/ \E record \in records : RecordMatches(key_fields, record)

\* The search can come to a number that is too big for a float.
MeetsHuge(key_fields, records) ==
    \E record \in records : \E key \in DOMAIN key_fields \cap DOMAIN record :
        record[key].kind = "huge"

\* Variant: nothing found is not a case of its own.
HarmonicMeanUnguarded(p, q) == <<2 * p[1] * q[1], p[1] * q[2] + q[1] * p[2]>>

\* 2pq / (p + q)
HarmonicMean(p, q) ==
    LET denom == p[1] * q[2] + q[1] * p[2]
    IN  IF denom > 0 THEN <<2 * p[1] * q[1], denom>> ELSE <<0, 1>>

Ratios(p, r, f) == [precision |-> p, recall |-> r, f1 |-> f]

\* What compute_score makes of tp matches between so many expected and reported.
Score(tp, expected, reported) ==
    CASE expected = 0 /\ reported = 0 -> Ratios(<<1, 1>>, <<1, 1>>, <<1, 1>>)
      [] expected = 0 /\ reported > 0 -> Ratios(<<0, 1>>, <<1, 1>>, <<0, 1>>)
      [] expected > 0 /\ reported = 0 -> Ratios(<<1, 1>>, <<0, 1>>, <<0, 1>>)
      [] OTHER -> Ratios(<<tp, reported>>, <<tp, expected>>,
                         HarmonicMean(<<tp, reported>>, <<tp, expected>>))

ScoreOfFailure == Ratios(<<0, 1>>, <<0, 1>>, <<0, 1>>)
=============================================================================
