--------------------------- MODULE GroupEnvelope ----------------------------
(***************************************************************************)
(* crypto/src/{kdf,tags,aead,sealed}.rs: members of servers who derive     *)
(* keys from master viewing keys, seal fields of events, rotate the keys   *)
(* and learn the new ones, and an indexer that fans events out by          *)
(* match_tag and keeps the roster by member_tag.  Members and indexer are  *)
(* external: they link the crate.  A master key may serve several servers  *)
(* or epochs, and two members who have not heard of each other may rotate  *)
(* to the same epoch.                                                      *)
(*                                                                         *)
(* HKDF, HMAC and AES-GCM are free constructors over the bytes the code    *)
(* feeds them; an id, a label or a master key is one value in those bytes. *)
(***************************************************************************)
EXTENDS CborHead, FiniteSets

CONSTANTS
  Servers, Channels, Members,
  Lobby,            \* the channel id that membership events are tagged with
  Mvks,             \* master viewing keys
  Admitted,         \* member -> the keys it starts with
  Bodies,           \* plaintexts, as sequences; one is empty
  NonceLen, TagLen, \* scaled down from 12 and 16
  BindsEvent,       \* TRUE if members put the event's number in AadContext.extra
  MaxEpoch,         \* bound: the last key epoch
  MaxEvents,        \* bound: events on chain
  MaxFaulty         \* bound: how many of them have a field that is not theirs

Keys == [server : Servers, epoch : 0 .. MaxEpoch, mvk : Mvks]

ASSUME EnvelopeAssumption ==
  /\ Lobby \in Channels
  /\ Admitted \in [Members -> SUBSET Keys]
  /\ \A b \in Bodies : b \in Seq({b[i] : i \in DOMAIN b})
  /\ NonceLen \in Nat \ {0} /\ TagLen \in Nat \ {0}
  /\ BindsEvent \in BOOLEAN

VARIABLES
  ring,     \* member -> the keys it holds
  chain,    \* events, in order
  sealings, \* what was sealed, and for what (history)
  roster,   \* the indexer's: member tags of joins without a leave
  present   \* [member, key] of joins without a leave (history)

vars == <<ring, chain, sealings, roster, present>>

---------------------------------------------------------------------------
(* Keys: kdf.rs.                                                           *)

\* u64::to_be_bytes: the eight bytes stand as one, which is the number.
U64Bytes(n) == <<n>>

Hkdf32(mvk, domain, binding) == [ikm |-> mvk, info |-> <<domain, 0>> \o binding]

ServerBinding(k) == <<k.server>> \o U64Bytes(k.epoch)

DeriveChannelDek_NoChannel(k, c) ==                                   \* mutation
  Hkdf32(k.mvk, "channel-dek", ServerBinding(k))
DeriveChannelDek(k, c) ==
  Hkdf32(k.mvk, "channel-dek", <<k.server, c>> \o U64Bytes(k.epoch))

DeriveMatchTagKey(k) == Hkdf32(k.mvk, "match-tag-key", ServerBinding(k))
DeriveMemberTagKey(k) == Hkdf32(k.mvk, "member-tag-key", ServerBinding(k))
DeriveMemberSealedKey(k) == Hkdf32(k.mvk, "member-sealed-key", ServerBinding(k))

---------------------------------------------------------------------------
(* Tags: tags.rs.                                                          *)

TagOf(key, input) == [key |-> key, input |-> input]

ComputeMatchTag_NoChannel(key, c, epoch) ==                           \* mutation
  TagOf(key, <<"match-tag">> \o U64Bytes(epoch))
ComputeMatchTag(key, c, epoch) ==
  TagOf(key, <<"match-tag", c>> \o U64Bytes(epoch))

ComputeMemberTag_NoMember(key, m, epoch) ==                           \* mutation
  TagOf(key, <<"member-tag">> \o U64Bytes(epoch))
ComputeMemberTag(key, m, epoch) ==
  TagOf(key, <<"member-tag", m>> \o U64Bytes(epoch))

MatchTag(k, c) == ComputeMatchTag(DeriveMatchTagKey(k), c, k.epoch)
MemberTag(k, m) == ComputeMemberTag(DeriveMemberTagKey(k), m, k.epoch)

---------------------------------------------------------------------------
(* Fields: aead.rs and sealed.rs.                                          *)

AadContext(cborKey, server, epoch, extra) ==
  <<"aead", 1, cborKey, 32, server, 8>> \o U64Bytes(epoch)
    \o BeBytes(Len(extra), 2) \o extra

\* As many bytes as the plaintext, then the tag; each depends on everything.
AesGcm(key, nonce, aad, text) ==
  [i \in 1 .. Len(text) + TagLen |->
     [key |-> key, nonce |-> nonce, aad |-> aad, text |-> text, at |-> i]]

SealField(key, aad, nonce, text) ==
  LET ct == AesGcm(key, nonce, aad, text) IN
  [nonce |-> nonce, ciphertext |-> SubSeq(ct, 1, Len(text)),
   aead_tag |-> SubSeq(ct, Len(text) + 1, Len(ct))]

\* {the plaintext}, or {} for AeadError::Tag.
OpenField(key, aad, sealed) ==
  LET combined == sealed.ciphertext \o sealed.aead_tag IN
  {text \in {combined[1].text} : combined = AesGcm(key, sealed.nonce, aad, text)}

ToWire(sealed) == sealed.nonce \o sealed.ciphertext \o sealed.aead_tag

\* {the field}, or {} for SealedFieldError::TooShort.
FromWire_LongerThanMin(bytes) ==                                      \* mutation
  {[nonce |-> SubSeq(bytes, 1, NonceLen),
    ciphertext |-> SubSeq(bytes, NonceLen + 1, n - TagLen),
    aead_tag |-> SubSeq(bytes, n - TagLen + 1, n)]
     : n \in {Len(bytes)} \ 0 .. NonceLen + TagLen}
FromWire(bytes) ==
  {[nonce |-> SubSeq(bytes, 1, NonceLen),
    ciphertext |-> SubSeq(bytes, NonceLen + 1, n - TagLen),
    aead_tag |-> SubSeq(bytes, n - TagLen + 1, n)]
     : n \in {Len(bytes)} \ 0 .. NonceLen + TagLen - 1}

---------------------------------------------------------------------------
(* What the programs that link the crate do with them.  A field is found   *)
(* under its CBOR key.                                                     *)

MemberSealed == 22
EncCid == 24
EncBodyRef == 25

FieldKey(k, c, cborKey) ==
  IF cborKey = MemberSealed THEN DeriveMemberSealedKey(k) ELSE DeriveChannelDek(k, c)

Extra(n) == IF BindsEvent THEN U64Bytes(n) ELSE <<>>

\* Nonces from the system's generator do not repeat: a number and a CBOR key
\* are used once.
Nonce(n, cborKey) == [i \in 1 .. NonceLen |-> [draw |-> n, cborKey |-> cborKey, at |-> i]]

Wire(k, c, n, cborKey, text) ==
  ToWire(SealField(FieldKey(k, c, cborKey),
                   AadContext(cborKey, k.server, k.epoch, Extra(n)),
                   Nonce(n, cborKey), text))

\* What a member reads with key k in a field of event e, taken for channel c's.
Reads(k, c, e, cborKey) ==
  UNION {OpenField(FieldKey(k, c, cborKey),
                   AadContext(cborKey, k.server, k.epoch, Extra(e.n)), sealed)
           : sealed \in FromWire(e.fields[cborKey])}

Init ==
  /\ ring = Admitted
  /\ chain = <<>>
  /\ sealings = {}
  /\ roster = {}
  /\ present = {}

\* A member publishes an event of type t under key k, with these plaintexts.
Publish(t, k, c, texts) ==
  LET n == Len(chain) + 1
      fields == [f \in DOMAIN texts |-> Wire(k, c, n, f, texts[f])]
  IN
  /\ n <= MaxEvents
  /\ chain' = Append(chain,
       [t |-> t, n |-> n, match_tag |-> MatchTag(k, c), key_epoch |-> k.epoch,
        fields |-> fields, key |-> k, channel |-> c, texts |-> texts, faulty |-> FALSE])
  /\ sealings' = sealings \cup
       {[wire |-> fields[f], key |-> k, channel |-> c, cborKey |-> f,
         extra |-> Extra(n), text |-> texts[f]] : f \in DOMAIN texts}

Post(m) ==
  /\ \E k \in ring[m], c \in Channels, body \in Bodies :
       Publish("MessagePost", k, c,
               [f \in {EncCid, EncBodyRef} |-> IF f = EncCid THEN <<c>> ELSE body])
  /\ UNCHANGED <<ring, roster, present>>

\* KEY_ROTATE: the next epoch's master key, drawn anew or not, sealed for those
\* who hold this epoch's.
Rotate(m) ==
  /\ \E k \in ring[m], v \in Mvks :
       /\ k.epoch < MaxEpoch
       /\ Publish("KeyRotate", k, Lobby, [f \in {MemberSealed} |-> <<v>>])
       /\ ring' = [ring EXCEPT ![m] = @ \cup {[k EXCEPT !.epoch = @ + 1, !.mvk = v]}]
  /\ UNCHANGED <<roster, present>>

\* A member comes across a KEY_ROTATE tagged for a key it holds.
Learn(m) ==
  /\ \E i \in DOMAIN chain, k \in ring[m] :
       /\ chain[i].t = "KeyRotate" /\ chain[i].key_epoch = k.epoch
       /\ chain[i].match_tag = MatchTag(k, Lobby)
       /\ \E text \in Reads(k, Lobby, chain[i], MemberSealed) :
            LET next == [k EXCEPT !.epoch = @ + 1, !.mvk = text[1]] IN
            /\ next \notin ring[m]
            /\ ring' = [ring EXCEPT ![m] = @ \cup {next}]
  /\ UNCHANGED <<chain, sealings, roster, present>>

\* SEALED_MEMBER_JOIN and SEALED_MEMBER_LEAVE, projected by the indexer in
\* chain order.  A leave carries nothing but the tag and a signature.
Join(m) ==
  /\ \E k \in ring[m] :
       /\ Publish("SealedMemberJoin", k, Lobby, [f \in {MemberSealed} |-> <<m>>])
       /\ roster' = roster \cup {MemberTag(k, m)}
       /\ present' = present \cup {[member |-> m, key |-> k]}
  /\ UNCHANGED ring

Leave(m) ==
  /\ \E k \in ring[m] :
       /\ roster' = roster \ {MemberTag(k, m)}
       /\ present' = present \ {[member |-> m, key |-> k]}
  /\ UNCHANGED <<ring, chain, sealings>>

Faulty == {i \in DOMAIN chain : chain[i].faulty}

\* A program builds an event with a field that is not its own: one of another
\* event or another CBOR key, or one that lost its last byte.
PublishFaulty ==
  /\ Len(chain) < MaxEvents
  /\ \E i, j \in DOMAIN chain \ Faulty :
       \E f \in DOMAIN chain[i].fields, g \in DOMAIN chain[j].fields :
         LET taken == chain[j].fields[g] IN
         \E wire \in {taken, SubSeq(taken, 1, Len(taken) - 1)} \ {chain[i].fields[f]} :
           chain' = Append(chain, [chain[i] EXCEPT !.fields[f] = wire, !.faulty = TRUE])
  /\ UNCHANGED <<ring, sealings, roster, present>>

Next ==
  \/ \E m \in Members : Post(m) \/ Rotate(m) \/ Learn(m) \/ Join(m) \/ Leave(m)
  \/ Cardinality(Faulty) < MaxFaulty /\ PublishFaulty

Spec == Init /\ [][Next]_vars

---------------------------------------------------------------------------
(* Properties.                                                             *)

\* An event reaches those who watch its server, channel and key epoch with its
\* master key, and nobody else: a tag a member computes is the event's only
\* then (compute_match_tag, derive_match_tag_key), even if a master key serves
\* several servers or epochs, or an epoch was rotated to twice.
FanOutExact ==
  \A i \in DOMAIN chain, k \in Keys, c \in Channels :
    MatchTag(k, c) = chain[i].match_tag <=> k = chain[i].key /\ c = chain[i].channel

\* A field that opens says what was sealed, for the very server, channel, epoch,
\* CBOR key and, where members bind it, event it is read for; in the wrong place
\* it does not open (AadContext::encode, the bindings of derive_*, open_field).
\* A member-sealed field belongs to no channel.
ReadsRight ==
  \A i \in DOMAIN chain, k \in Keys, c \in Channels :
    \A f \in DOMAIN chain[i].fields :
      \A text \in Reads(k, c, chain[i], f) :
        \E s \in sealings :
          /\ s.wire = chain[i].fields[f] /\ s.key = k /\ s.text = text
          /\ s.cborKey = f /\ s.extra = Extra(chain[i].n)
          /\ f = MemberSealed \/ s.channel = c

\* Whoever holds the key, from the start or by following rotations, reads every
\* field of an event as it was written, the empty one too (seal_field, to_wire,
\* from_wire, open_field).
HoldersRead ==
  \A m \in Members, i \in DOMAIN chain \ Faulty :
    chain[i].key \in ring[m] =>
      \A f \in DOMAIN chain[i].fields :
        Reads(chain[i].key, chain[i].channel, chain[i], f) = {chain[i].texts[f]}

\* The roster the indexer keeps by tags alone is the members who joined and did
\* not leave, each under the key it joined with: a leave ends its own member's
\* join and no other (compute_member_tag, derive_member_tag_key).
RosterExact ==
  \A m \in Members, k \in Keys :
    MemberTag(k, m) \in roster <=> [member |-> m, key |-> k] \in present
=============================================================================
