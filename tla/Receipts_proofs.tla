--------------------------- MODULE Receipts_proofs ---------------------------
(* What ReceiptChain.verify accepts, for chains of every length. *)
EXTENDS Receipts, Integers, WellFoundedInduction, TLAPS

\* append extends a chain that verifies to a chain that verifies, whatever the
\* clock reads and whatever the call was.
THEOREM AppendVerifies ==
    ASSUME NEW R, NEW chain \in Seq(R), NEW session, NEW secret, NEW now,
           NEW tool, NEW input, NEW output,
           Verifies(session, secret, chain)
    PROVE  Verifies(session, secret,
                    Append(chain, NewReceipt(session, secret, chain, now, tool, input, output)))
<1> DEFINE r == NewReceipt(session, secret, chain, now, tool, input, output)
           longer == Append(chain, r)
<1>1. /\ Len(longer) = Len(chain) + 1
      /\ longer[Len(chain) + 1] = r
      /\ \A i \in 1..Len(chain) : longer[i] = chain[i]
  OBVIOUS
<1>2. SUFFICES ASSUME NEW i \in 1..Len(longer)
               PROVE  LinkVerifies(session, secret, longer, i)
  BY DEF Verifies
<1>3. CASE i \in 1..Len(chain)
  <2>1. longer[i] = chain[i] /\ PrevDigest(longer, i) = PrevDigest(chain, i)
    BY <1>1, <1>3 DEF PrevDigest
  <2>2. LinkVerifies(session, secret, chain, i)
    BY <1>3 DEF Verifies
  <2>3. QED  BY <2>1, <2>2 DEF LinkVerifies
<1>4. CASE i = Len(chain) + 1
  <2>1. PrevDigest(longer, i) = LastDigest(chain)
    BY <1>1, <1>4 DEF PrevDigest, LastDigest
  <2>2. /\ r.sequence = Len(chain) /\ r.prev_digest = LastDigest(chain)
        /\ r.digest = CanonicalBody(session, r)
        /\ r.signature = Hmac(secret, CanonicalBody(session, r))
    BY DEF NewReceipt, CanonicalBody
  <2>3. QED  BY <1>1, <1>4, <2>1, <2>2 DEF LinkVerifies
<1>5. QED  BY <1>1, <1>3, <1>4

\* What verify cannot see: a chain whose tail is missing still verifies.
THEOREM PrefixVerifies ==
    ASSUME NEW R, NEW chain \in Seq(R), NEW session, NEW secret,
           Verifies(session, secret, chain), NEW n \in 0..Len(chain)
    PROVE  Verifies(session, secret, SubSeq(chain, 1, n))
<1> DEFINE cut == SubSeq(chain, 1, n)
<1>1. Len(cut) = n /\ \A i \in 1..n : cut[i] = chain[i]
  OBVIOUS
<1>2. SUFFICES ASSUME NEW i \in 1..n PROVE LinkVerifies(session, secret, cut, i)
  BY <1>1 DEF Verifies
<1>3. cut[i] = chain[i] /\ PrevDigest(cut, i) = PrevDigest(chain, i)
  BY <1>1, <1>2 DEF PrevDigest
<1>4. LinkVerifies(session, secret, chain, i)
  BY DEF Verifies
<1>5. QED  BY <1>3, <1>4 DEF LinkVerifies

\* A body determines the session and the receipt fields it covers.
LEMMA BodyDetermines ==
    ASSUME NEW S, NEW K, NEW N, NEW I, NEW O, NEW session, NEW other,
           NEW r \in Receipt(S, K, N, I, O), NEW q \in Receipt(S, K, N, I, O),
           CanonicalBody(session, r) = CanonicalBody(other, q)
    PROVE  /\ session = other
           /\ r.sequence = q.sequence /\ r.timestamp_ns = q.timestamp_ns
           /\ r.tool_name = q.tool_name
           /\ r.input_sha256 = q.input_sha256 /\ r.output_sha256 = q.output_sha256
           /\ r.prev_digest = q.prev_digest
<1> DEFINE E == Entry(S, N, I, O)
           e(s, x) == [session_id |-> s, sequence |-> x.sequence,
                       timestamp_ns |-> x.timestamp_ns, tool_name |-> x.tool_name,
                       input_sha256 |-> x.input_sha256, output_sha256 |-> x.output_sha256]
           T == E \cup {e(session, r), e(other, q)}
<1>1. /\ r.prev_digest \in Seq(T) /\ q.prev_digest \in Seq(T)
      /\ e(session, r) \in T /\ e(other, q) \in T
  BY DEF Receipt
<1>2. Append(r.prev_digest, e(session, r)) = Append(q.prev_digest, e(other, q))
  BY DEF CanonicalBody
<1> HIDE DEF e, T
<1>3. e(session, r) = e(other, q) /\ r.prev_digest = q.prev_digest
  BY <1>1, <1>2
<1>4. QED  BY <1>3 DEF e

LEMMA HmacDetermines ==
    ASSUME NEW secret, NEW key, NEW body, NEW other, Hmac(secret, body) = Hmac(key, other)
    PROVE  secret = key /\ body = other
<1>1. /\ Hmac(secret, body).body = body /\ Hmac(key, other).body = other
      /\ Hmac(secret, body).key = secret /\ Hmac(key, other).key = key
  BY DEF Hmac
<1>2. QED  BY <1>1

\* Two receipts with the same fields are the same receipt.
LEMMA ReceiptsEqual ==
    ASSUME NEW S, NEW K, NEW N, NEW I, NEW O,
           NEW r \in Receipt(S, K, N, I, O), NEW q \in Receipt(S, K, N, I, O),
           r.sequence = q.sequence, r.timestamp_ns = q.timestamp_ns,
           r.tool_name = q.tool_name,
           r.input_sha256 = q.input_sha256, r.output_sha256 = q.output_sha256,
           r.prev_digest = q.prev_digest, r.digest = q.digest, r.signature = q.signature
    PROVE  r = q
<1>1. \A x \in Receipt(S, K, N, I, O) :
         x = [sequence |-> x.sequence, timestamp_ns |-> x.timestamp_ns,
              tool_name |-> x.tool_name, input_sha256 |-> x.input_sha256,
              output_sha256 |-> x.output_sha256, prev_digest |-> x.prev_digest,
              digest |-> x.digest, signature |-> x.signature]
  BY DEF Receipt
<1>2. QED  BY <1>1, Zenon

\* A digest a receipt and a receipt of a chain share makes them the same receipt, at
\* the same place, if both pass verify.
LEMMA SameLink ==
    ASSUME NEW S, NEW K, NEW N, NEW I, NEW O,
           NEW session, NEW secret, NEW own, NEW key,
           NEW found \in Seq(Receipt(S, K, N, I, O)), NEW i \in 1..Len(found),
           NEW chain \in Seq(Receipt(S, K, N, I, O)), NEW j \in 1..Len(chain),
           Verifies(session, secret, found), Verifies(own, key, chain),
           secret = key, found[i].digest = chain[j].digest
    PROVE  /\ session = own /\ i = j /\ found[i] = chain[j]
           /\ PrevDigest(found, i) = PrevDigest(chain, j)
<1> DEFINE r == found[i]
           q == chain[j]
<1>1. r \in Receipt(S, K, N, I, O) /\ q \in Receipt(S, K, N, I, O)
  OBVIOUS
<1>2. /\ r.sequence = i - 1 /\ r.digest = CanonicalBody(session, r)
      /\ r.signature = Hmac(secret, CanonicalBody(session, r))
      /\ r.prev_digest = PrevDigest(found, i)
  BY DEF Verifies, LinkVerifies
<1>3. /\ q.sequence = j - 1 /\ q.digest = CanonicalBody(own, q)
      /\ q.signature = Hmac(secret, CanonicalBody(own, q))
      /\ q.prev_digest = PrevDigest(chain, j)
  BY DEF Verifies, LinkVerifies
<1>4. r.digest = q.digest
  OBVIOUS
<1> HIDE DEF r, q
<1>5. CanonicalBody(session, r) = CanonicalBody(own, q)
  BY <1>2, <1>3, <1>4
<1>6. /\ session = own
      /\ r.sequence = q.sequence /\ r.timestamp_ns = q.timestamp_ns
      /\ r.tool_name = q.tool_name
      /\ r.input_sha256 = q.input_sha256 /\ r.output_sha256 = q.output_sha256
      /\ r.prev_digest = q.prev_digest
  BY <1>1, <1>5, BodyDetermines
<1>7. r.signature = q.signature
  BY <1>2, <1>3, <1>5
<1>8. r = q
  BY <1>1, <1>4, <1>6, <1>7, ReceiptsEqual
<1>9. i = j
  BY <1>2, <1>3, <1>6
<1>10. QED  BY <1>2, <1>3, <1>6, <1>8, <1>9 DEF r, q

\* A set of natural numbers has a least one.
LEMMA Least ==
    ASSUME NEW T \in SUBSET Nat, T # {}
    PROVE  \E x \in T : \A y \in T : x <= y
<1> DEFINE R == OpToRel(<, Nat)
<1>1. IsWellFoundedOn(R, Nat)
  BY NatLessThanWellFounded
<1>2. \A a, b \in Nat : a < b => <<a, b>> \in R
  BY DEF OpToRel
<1> HIDE DEF R
<1>3. PICK x \in T : \A y \in T : ~(<<y, x>> \in R)
  BY <1>1, WFMin
<1>4. ASSUME NEW y \in T PROVE x <= y
  <2>1. x \in Nat /\ y \in Nat /\ ~(<<y, x>> \in R)
    BY <1>3
  <2>2. y < x => <<y, x>> \in R
    BY <1>2, <2>1
  <2>3. QED  BY <2>1, <2>2
<1>5. QED  BY <1>4

\* What verify does see: a chain whose last signature is one of a session's verifies
\* only if it is a prefix of that session's chain, under its id and its secret.  Lines
\* lost from the middle, repeated, exchanged or altered, and receipts of another session
\* among them, are all found; only a missing tail is not.
THEOREM VerifiedIsPrefix ==
    ASSUME NEW S, NEW K, NEW N, NEW I, NEW O,
           NEW session, NEW secret, NEW own, NEW key,
           NEW chain \in Seq(Receipt(S, K, N, I, O)),
           NEW found \in Seq(Receipt(S, K, N, I, O)), found # << >>,
           Verifies(own, key, chain), Verifies(session, secret, found),
           NEW j \in 1..Len(chain), found[Len(found)].signature = chain[j].signature
    PROVE  /\ session = own /\ secret = key
           /\ Len(found) <= Len(chain) /\ found = SubSeq(chain, 1, Len(found))
<1> DEFINE n == Len(found)
<1>1. n \in Nat /\ n >= 1
  OBVIOUS
<1>2. secret = key /\ found[n].digest = chain[j].digest
  <2>1. /\ found[n].digest = CanonicalBody(session, found[n])
        /\ found[n].signature = Hmac(secret, CanonicalBody(session, found[n]))
    BY <1>1 DEF Verifies, LinkVerifies
  <2>2. /\ chain[j].digest = CanonicalBody(own, chain[j])
        /\ chain[j].signature = Hmac(key, CanonicalBody(own, chain[j]))
    BY DEF Verifies, LinkVerifies
  <2> DEFINE b == CanonicalBody(session, found[n])
             c == CanonicalBody(own, chain[j])
  <2>3. Hmac(secret, b) = Hmac(key, c)
    BY <2>1, <2>2
  <2> HIDE DEF b, c
  <2>4. secret = key /\ b = c
    BY <2>3, HmacDetermines
  <2>5. QED  BY <2>1, <2>2, <2>4 DEF b, c
<1>3. session = own /\ n = j /\ found[n] = chain[n]
  BY <1>1, <1>2, SameLink
<1>4. ASSUME NEW i \in 1..(n - 1), found[i + 1] = chain[i + 1]
      PROVE  found[i] = chain[i]
  <2>1. PrevDigest(found, i + 1) = PrevDigest(chain, i + 1)
    BY <1>1, <1>2, <1>3, <1>4, SameLink
  <2>2. found[i].digest = chain[i].digest
    BY <1>1, <2>1 DEF PrevDigest
  <2>3. QED  BY <1>1, <1>2, <1>3, <2>2, SameLink
<1>5. \A i \in 1..n : found[i] = chain[i]
  <2> DEFINE T == {k \in Nat : k < n /\ found[n - k] # chain[n - k]}
  <2>1. SUFFICES T = {}
    <3>1. ASSUME NEW i \in 1..n, found[i] # chain[i] PROVE n - i \in T
      <4>1. n - i \in Nat /\ n - i < n /\ n - (n - i) = i
        BY <1>1
      <4>2. QED  BY <3>1, <4>1
    <3>2. QED  BY <2>1, <3>1
  <2>2. SUFFICES ASSUME T # {} PROVE FALSE
    OBVIOUS
  <2>3. PICK k \in T : \A y \in T : k <= y
    BY <2>2, Least
  <2>4. k \in Nat /\ k < n /\ found[n - k] # chain[n - k]
    BY <2>3
  <2>5. k # 0
    BY <1>1, <1>3, <2>4
  <2>6. k - 1 \in Nat /\ k - 1 < n /\ ~(k <= k - 1)
    BY <1>1, <2>4, <2>5
  <2>7. found[n - (k - 1)] = chain[n - (k - 1)]
    BY <2>3, <2>6
  <2>8. n - k \in 1..(n - 1) /\ (n - k) + 1 = n - (k - 1)
    BY <1>1, <2>4, <2>5
  <2>9. found[n - k] = chain[n - k]
    BY <1>4, <2>7, <2>8
  <2>10. QED  BY <2>4, <2>9
<1>6. QED  BY <1>1, <1>2, <1>3, <1>5
=============================================================================
