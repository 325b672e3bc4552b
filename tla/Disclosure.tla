------------------------------- MODULE Disclosure -------------------------------
(***************************************************************************)
(* Showing a part of a document: a redaction that commits to the digest of *)
(* the whole (privacy.py), and fields with inclusion proofs under the root *)
(* of a Merkle tree (merkle.py).  The owner discloses documents field by   *)
(* field; whoever holds what was disclosed may put it together anew.       *)
(*                                                                         *)
(* A document is a function from its fields to values.  A digest is the    *)
(* thing it was made of, so that equal digests are of equal things.        *)
(***************************************************************************)
EXTENDS Integers, Sequences, FiniteSets

CONSTANTS
    FieldOrder,    \* all fields, sorted
    Values,
    Documents,     \* documents that may be disclosed
    MaxShown       \* bound on the disclosures

ASSUME DisclosureAssumption ==
    /\ MaxShown \in Nat
    /\ Len(FieldOrder) \in Nat /\ DOMAIN FieldOrder = 1 .. Len(FieldOrder)
    /\ \A i, j \in DOMAIN FieldOrder : FieldOrder[i] = FieldOrder[j] => i = j
    /\ \A doc \in Documents :
          DOMAIN doc \subseteq {FieldOrder[i] : i \in DOMAIN FieldOrder} /\ DOMAIN doc # {}

VARIABLES
    shown,      \* history: the Merkle redactions disclosed
    redacted    \* history: the digest redactions disclosed

disclosureVars == <<shown, redacted>>

Fields == {FieldOrder[i] : i \in DOMAIN FieldOrder}
Hidden == "hidden"  \* null in place of a value

-----------------------------------------------------------------------------
(* The tree *)

Leaf(field, value) == [field |-> field, value |-> value]
Node(left, right) == [left |-> left, right |-> right]
Pad == [pad |-> TRUE]

(* The place of a field in sorted(document), from 0.                       *)
Rank(field) == CHOOSE i \in DOMAIN FieldOrder : FieldOrder[i] = field
Place(doc, field) == Cardinality({f \in DOMAIN doc : Rank(f) < Rank(field)})

(* _pad_to_power_of_two: the sizes that it tries, and the first that holds *)
(* n leaves, by the height of a tree of that size.                         *)
Sizes(n) ==
    LET power[h \in 0 .. n] == IF h = 0 THEN 1 ELSE 2 * power[h - 1] IN power

Height(n) == CHOOSE h \in 0 .. n : Sizes(n)[h] >= n /\ \A k \in 0 .. h - 1 : Sizes(n)[k] < n

DocHeight(doc) == Height(Cardinality(DOMAIN doc))

LeafAt(doc, i) ==
    LET there == {f \in DOMAIN doc : Place(doc, f) = i} IN
    IF there = {} THEN Pad ELSE LET f == CHOOSE f \in there : TRUE IN Leaf(f, doc[f])

(* _build_tree: the layers from the leaves up, each half the one below. *)
Layers(doc) ==
    LET size == Sizes(Cardinality(DOMAIN doc))
        layer[k \in 0 .. DocHeight(doc)] ==
            [i \in 0 .. size[DocHeight(doc) - k] - 1 |->
                IF k = 0 THEN LeafAt(doc, i)
                         ELSE Node(layer[k - 1][2 * i], layer[k - 1][2 * i + 1])] IN
    layer

Root(doc) == Layers(doc)[DocHeight(doc)][0]

(* merkle_proofs: the sibling on each layer below the root. *)
Positions(doc, field) ==
    LET position[k \in 0 .. DocHeight(doc)] ==
            IF k = 0 THEN Place(doc, field) ELSE position[k - 1] \div 2 IN
    position

Proof(doc, field) ==
    LET step(layer, position) ==
            LET sibling == IF position % 2 = 0 THEN position + 1 ELSE position - 1 IN
            [hash |-> layer[sibling], left |-> sibling < position] IN
    [k \in 1 .. DocHeight(doc) |-> step(Layers(doc)[k - 1], Positions(doc, field)[k - 1])]

(* A verifier that takes the sides for granted. *)
VerifyUnordered(root, field, value, proof) ==
    LET digest[k \in 0 .. Len(proof)] ==
            IF k = 0 THEN Leaf(field, value) ELSE Node(digest[k - 1], proof[k].hash) IN
    digest[Len(proof)] = root

(* verify_field *)
VerifyField(root, field, value, proof) ==
    LET digest[k \in 0 .. Len(proof)] ==
            IF k = 0 THEN Leaf(field, value)
            ELSE IF proof[k].left THEN Node(proof[k].hash, digest[k - 1])
                                  ELSE Node(digest[k - 1], proof[k].hash) IN
    digest[Len(proof)] = root

(* merkle_redact and verify_merkle_redaction; nothing visible is refused. *)
MerkleRedact(doc, visible) ==
    [root |-> Root(doc),
     visible |-> {[field |-> f, value |-> doc[f], proof |-> Proof(doc, f)] : f \in visible}]

VerifyMerkle(redaction) ==
    /\ redaction.visible # {}
    /\ \A entry \in redaction.visible :
          VerifyField(redaction.root, entry.field, entry.value, entry.proof)

-----------------------------------------------------------------------------
(* redact and verify_redaction *)

Redact(doc, keep) ==
    [visible |-> keep, hidden |-> DOMAIN doc \ keep, full |-> doc,
     redacted |-> [f \in DOMAIN doc |-> IF f \in keep THEN doc[f] ELSE Hidden]]

VerifyRedaction(redaction, doc) ==
    /\ redaction.full = doc
    /\ DOMAIN redaction.redacted = DOMAIN doc
    /\ redaction.visible \cup redaction.hidden = DOMAIN doc
    /\ redaction.visible \cap redaction.hidden = {}
    /\ \A f \in redaction.visible : redaction.redacted[f] = doc[f]
    /\ \A f \in redaction.hidden : redaction.redacted[f] = Hidden

-----------------------------------------------------------------------------

DisclosureInit == shown = {} /\ redacted = {}

Disclosed == Cardinality(shown) + Cardinality(redacted)

Show(doc, visible) ==
    /\ Disclosed < MaxShown
    /\ shown' = shown \cup {MerkleRedact(doc, visible)}
    /\ UNCHANGED redacted

ShowRedacted(doc, keep) ==
    /\ Disclosed < MaxShown
    /\ redacted' = redacted \cup {Redact(doc, keep)}
    /\ UNCHANGED shown

DisclosureNext ==
    \E doc \in Documents :
        \/ \E visible \in (SUBSET DOMAIN doc) \ {{}} : Show(doc, visible)
        \/ \E keep \in SUBSET DOMAIN doc : ShowRedacted(doc, keep)

DisclosureSpec == DisclosureInit /\ [][DisclosureNext]_disclosureVars

-----------------------------------------------------------------------------
(* Properties *)

(* The proofs that were disclosed, and all parts of them. *)
Parts(proof) == {SubSeq(proof, from, to) : from \in 1 .. Len(proof) + 1, to \in 0 .. Len(proof)}

Proofs == UNION {Parts(entry.proof) : entry \in UNION {r.visible : r \in shown}}

(* A disclosure proves what it shows and nothing else.  Every disclosure   *)
(* of the owner verifies.  Any field and value with any proof or part of   *)
(* one that was disclosed, also for another field or another document,     *)
(* verifies under a document's root only if the document has that value in *)
(* that field.  And visible fields taken from one redaction and the rest   *)
(* from another verify against a document only if they show its values.    *)
DisclosuresProve ==
    /\ \A r \in shown : VerifyMerkle(r)
    /\ \A doc \in Documents : \A field \in Fields, value \in Values, proof \in Proofs :
          VerifyField(Root(doc), field, value, proof) =>
              field \in DOMAIN doc /\ doc[field] = value
    /\ \A r \in redacted : VerifyRedaction(r, r.full)
    /\ \A r, s \in redacted : \A doc \in Documents :
          VerifyRedaction([r EXCEPT !.redacted = s.redacted, !.full = s.full], doc) =>
              \A f \in r.visible : f \in DOMAIN doc /\ s.redacted[f] = doc[f]
=============================================================================
