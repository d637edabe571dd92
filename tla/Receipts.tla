------------------------------ MODULE Receipts ------------------------------
(***************************************************************************)
(* The HMAC receipt chain of src/sentinel/audit/receipts.py, as operators  *)
(* on values: a chain is the sequence kept in ReceiptChain._receipts, and  *)
(* the secret and the session id of the object are arguments.              *)
(*                                                                         *)
(* Hashes are free terms (two hashes are equal exactly when what was       *)
(* hashed is equal).  The SHA-256 of a canonical body is represented by    *)
(* the list of every entry that body commits to: the list its prev_digest  *)
(* stands for, followed by the body's own fields.  The genesis digest      *)
(* commits to nothing and is the empty list.                               *)
(***************************************************************************)
EXTENDS Naturals, Sequences

GENESIS_PREV_DIGEST == << >>

\* hashlib.sha256 over a tool's input or output bytes.
Sha256(bytes) == [sha256 |-> bytes]

\* The fields of a body other than prev_digest.
Entry(sessions, names, inputs, outputs) ==
    [session_id: sessions, sequence: Nat, timestamp_ns: Nat, tool_name: names,
     input_sha256: [sha256: inputs], output_sha256: [sha256: outputs]]

\* Every receipt an `append` can produce, and every well-typed line that
\* from_jsonl can load.
Receipt(sessions, secrets, names, inputs, outputs) ==
    LET Digests == Seq(Entry(sessions, names, inputs, outputs))
    IN  [sequence: Nat, timestamp_ns: Nat, tool_name: names,
         input_sha256: [sha256: inputs], output_sha256: [sha256: outputs],
         prev_digest: Digests, digest: Digests,
         signature: [key: secrets, body: Digests]]

\* Variant: the output digest is left out of the body.
CanonicalBodyNoOutput(session, r) ==
    Append(r.prev_digest,
           [session_id |-> session, sequence |-> r.sequence,
            timestamp_ns |-> r.timestamp_ns, tool_name |-> r.tool_name,
            input_sha256 |-> r.input_sha256])

\* _canonical_body: what the digest and the signature of a receipt cover.  The
\* fields are joined by "|" unescaped: the text determines them for any tool name,
\* if no session id contains a "|".
CanonicalBody(session, r) ==
    Append(r.prev_digest,
           [session_id |-> session, sequence |-> r.sequence,
            timestamp_ns |-> r.timestamp_ns, tool_name |-> r.tool_name,
            input_sha256 |-> r.input_sha256, output_sha256 |-> r.output_sha256])

Hmac(secret, body) == [key |-> secret, body |-> body]

\* Variant: the first receipt's digest instead of the last one's.
FirstDigest(chain) ==
    IF chain = << >> THEN GENESIS_PREV_DIGEST ELSE chain[1].digest

LastDigest(chain) ==
    IF chain = << >> THEN GENESIS_PREV_DIGEST ELSE chain[Len(chain)].digest

\* The receipt ReceiptChain.append adds.  The caller sees a ValueError, and no
\* receipt, when tool_name is empty; that guard is where the module is used.
NewReceipt(session, secret, chain, now, tool, input, output) ==
    LET unsigned == [sequence |-> Len(chain), timestamp_ns |-> now,
                     tool_name |-> tool, input_sha256 |-> Sha256(input),
                     output_sha256 |-> Sha256(output),
                     prev_digest |-> LastDigest(chain)]
        body == CanonicalBody(session, unsigned)
    IN  [sequence |-> unsigned.sequence, timestamp_ns |-> now, tool_name |-> tool,
         input_sha256 |-> unsigned.input_sha256,
         output_sha256 |-> unsigned.output_sha256,
         prev_digest |-> unsigned.prev_digest,
         digest |-> body, signature |-> Hmac(secret, body)]

\* verify's running prev_digest when it comes to position i.
PrevDigest(chain, i) ==
    IF i = 1 THEN GENESIS_PREV_DIGEST ELSE chain[i - 1].digest

\* Variant: each receipt is verified by itself.
LinkVerifiesAlone(session, secret, chain, i) ==
    LET r == chain[i]
        body == CanonicalBody(session, r)
    IN  r.sequence = i - 1 /\ r.digest = body /\ r.signature = Hmac(secret, body)

\* One turn of the loop of ReceiptChain.verify: the receipt at position i has
\* its number, points at its predecessor, and its digest and signature are
\* those of its body.
LinkVerifies(session, secret, chain, i) ==
    LET r == chain[i]
        body == CanonicalBody(session, r)
    IN  /\ r.sequence = i - 1
        /\ r.prev_digest = PrevDigest(chain, i)
        /\ r.digest = body
        /\ r.signature = Hmac(secret, body)

\* ReceiptChain.verify returns without raising.
Verifies(session, secret, chain) ==
    \A i \in 1..Len(chain) : LinkVerifies(session, secret, chain, i)

-----------------------------------------------------------------------------
(* The JSON Lines form.  A line is a header, a receipt, or torn (not the     *)
(* text of a JSON object: a cut line, or bytes never written).  Blank lines  *)
(* are left out, as from_jsonl leaves them out before anything else.         *)

Header(session) == [kind |-> "header", session_id |-> session]
ReceiptLine(r) == [kind |-> "receipt", receipt |-> r]
TornLine == [kind |-> "torn"]

\* Variant: the last receipt is left out.
ToJsonlButLast(session, chain) ==
    << Header(session) >> \o
        SubSeq([i \in 1..Len(chain) |-> ReceiptLine(chain[i])], 1, Len(chain) - 1)

\* Variant: the header is the last line.
ToJsonlHeaderLast(session, chain) ==
    [i \in 1..Len(chain) |-> ReceiptLine(chain[i])] \o << Header(session) >>

\* ReceiptChain.to_jsonl
ToJsonl(session, chain) ==
    << Header(session) >> \o [i \in 1..Len(chain) |-> ReceiptLine(chain[i])]

\* ReceiptChain.from_jsonl raises: no line, a first line that is no header, or
\* a later line that is not a receipt (json.loads or obj["sequence"] fails).
LoadFails(lines) ==
    \/ lines = << >>
    \/ lines[1].kind # "header"
    \/ \E i \in 2..Len(lines) : lines[i].kind # "receipt"

\* The session id and the chain from_jsonl loads otherwise.
LoadedSession(lines) == lines[1].session_id
LoadedChain(lines) == [i \in 1..(Len(lines) - 1) |-> lines[i + 1].receipt]
=============================================================================
