---------------------------- MODULE KommsPayload ----------------------------
(***************************************************************************)
(* The KOMMS wire codec (protocol/src/lib.rs, encode.rs, canonical.rs,     *)
(* verify.rs) as operators.                                                *)
(*                                                                         *)
(* A CBOR map is a function from the names of its keys to values, so an    *)
(* `Option` field that is None is a key outside the DOMAIN.  The parsed    *)
(* event (struct ParsedKommsEvent) has the same shape: what tells the two  *)
(* apart is what parsing adds (a synthesised enc_scheme), clamps (role)    *)
(* and refuses, and what encoding drops.  A payload is the bytes of a      *)
(* transaction: prefix, form of the encoding, and the map they spell; two  *)
(* payloads are the same bytes iff the records are equal.                  *)
(***************************************************************************)
EXTENDS Integers

CONSTANT ExtensionKeys      \* names of the map keys 33..255 in use

---------------------------------------------------------------------------
(* Values: the CBOR major type and what the code looks at.                 *)

Uint(i) == [n |-> i, major |-> "uint"]
Bool(b) == [major |-> "bool", b |-> b]
Text(l, ascii, c) == [c |-> c, major |-> "text", len |-> l, ascii |-> ascii]
\* A byte string: its length, its first byte, whether the rest is UTF-8.
Bytes(l, head, utf8, c) ==
  [c |-> c, major |-> "bytes", len |-> l, head |-> head, utf8 |-> utf8]
Null == [major |-> "null"]
Undefined == [major |-> "undefined"]
Garbled == [major |-> "garbled"]              \* text that is not UTF-8
\* An array or map inside an extension field, how deep it nests, and what it
\* holds: "undefined", "garbled", "disorder" (a map with its keys out of order)
\* or "plain".
Nested(h, holds) == [major |-> "nested", height |-> h, holds |-> holds]

---------------------------------------------------------------------------
(* Map keys, by the type ParsedKommsEvent gives the field.                 *)

UintKeys == {"v", "t", "ts", "n", "enc_scheme", "kind", "ref_type",
             "sig_scheme", "key_epoch", "role"}
Bytes32Keys == {"sid", "cid", "did", "pid", "mid", "parent_mid", "device_pk"}
Bytes16Keys == {"member_tag", "match_tag"}
BytesKeys == {"ref", "reaction_key", "payment_hint", "member_sealed", "enc_sid",
              "enc_cid", "enc_body_ref", "enc_parent_mid", "enc_t",
              "sealed_signer", "target"}
CoreKeys == UintKeys \cup Bytes32Keys \cup Bytes16Keys \cup BytesKeys
              \cup {"enc", "sig", "mime"}

ASSUME ExtensionKeysAssumption == ExtensionKeys \cap CoreKeys = {}

MaxKnownVersion == 1
RoleMax == 4
U8Max == 255
MaxNestingDepth == 8

Has(ev, k) == k \in DOMAIN ev
HasAny(ev, S) == S \cap DOMAIN ev # {}
HasAll(ev, S) == S \subseteq DOMAIN ev
Without(ev, k) == [x \in DOMAIN ev \ {k} |-> ev[x]]

---------------------------------------------------------------------------
(* Event types: from_u8 numbers them 0..20 and 23..26 in declaration order; *)
(* the ones a rule singles out are named.                                  *)

MessagePost == 4
MessageDelete == 6
DmMessagePost == 7
RoleAssign == 12
RoleRevoke == 13
ModerationAction == 14
DeviceRegister == 15
SealedMemberJoin == 23
SealedMemberLeave == 24
KeyRotate == 25
SealedEvent == 26

KnownTypes == 0 .. 20 \cup 23 .. 26      \* is_known: not Reserved(_)
EphemeralTypes == {21, 22}
SealedTypes == {SealedMemberJoin, SealedMemberLeave, KeyRotate}

---------------------------------------------------------------------------
(* canonical.rs: what the walker accepts.  `form` stands for everything    *)
(* about the spelling (key order, duplicates, shortest lengths, definite   *)
(* lengths, no trailing bytes) but for what an extension value holds;      *)
(* floats, tags and depth are in the values.                               *)

CanonicalValue(x) ==
  /\ x.major \notin {"float", "tag"}
  /\ x.major = "nested" => x.height <= MaxNestingDepth /\ x.holds # "disorder"

ValidateCanonical(p) ==
  /\ p.form = "canonical"
  /\ \A k \in DOMAIN p.map : CanonicalValue(p.map[k])

---------------------------------------------------------------------------
(* parse_cbor_map                                                          *)

IsUint(x) == x.major = "uint"
IsBytes(x) == x.major = "bytes"
IsBytesOf(x, l) == IsBytes(x) /\ x.len = l

\* What ciborium makes of a value: text has to be UTF-8, and CBOR's undefined
\* becomes its null.
Decodes(x) == x.major # "garbled" /\ (x.major = "nested" => x.holds # "garbled")
HoldsUndefined(x) ==
  \/ x.major = "undefined"
  \/ x.major = "nested" /\ x.holds = "undefined"
ReadValue(x) ==
  IF ~ HoldsUndefined(x) THEN x
  ELSE IF x.major = "nested" THEN Nested(x.height, "plain") ELSE Null

\* Every value decodes, every key is known or an extension, every field has its
\* type, and the three mandatory ones are there.
WellTyped(m) ==
  /\ m = [k \in DOMAIN m |-> m[k]]
  /\ DOMAIN m \subseteq CoreKeys \cup ExtensionKeys
  /\ \A k \in DOMAIN m : Decodes(m[k])
  /\ HasAll(m, {"v", "t", "enc"})
  /\ \A k \in DOMAIN m :
       /\ k \in UintKeys => IsUint(m[k]) /\ m[k].n \in Nat
       /\ k \in Bytes32Keys => IsBytesOf(m[k], 32)
       /\ k \in Bytes16Keys => IsBytesOf(m[k], 16)
       /\ k \in BytesKeys => IsBytes(m[k])
       /\ k = "sig" => IsBytesOf(m[k], 64)
       /\ k = "enc" => m[k].major = "bool" /\ m[k].b \in BOOLEAN
       /\ k = "mime" => m[k].major = "text"
  /\ m["t"].n <= U8Max

\* A v0 map has no enc_scheme: it is read off `enc`.
SynthScheme(m) == Uint(IF m["enc"].b THEN 1 ELSE 0)
ClampRole_RoleMax(x) == IF x.n > RoleMax THEN Uint(RoleMax) ELSE x     \* mutation
ClampRole(x) == IF x.n > U8Max THEN Uint(U8Max) ELSE x

ParseCborMap(m) ==
  [k \in DOMAIN m \cup (IF m["v"].n = 0 THEN {"enc_scheme"} ELSE {}) |->
     IF k \notin DOMAIN m THEN SynthScheme(m)
     ELSE IF k = "role" THEN ClampRole(m[k]) ELSE ReadValue(m[k])]

\* The values a ParsedKommsEvent can hold: Rust's types, a role byte, and
\* ciborium's values, which know no undefined.
IsEvent(ev) ==
  /\ WellTyped(ev)
  /\ Has(ev, "role") => ev["role"].n <= U8Max
  /\ \A k \in DOMAIN ev : ~ HoldsUndefined(ev[k])

---------------------------------------------------------------------------
(* validate_event: the checks every event passes before its type's arm.    *)

Scheme(ev) == IF Has(ev, "enc_scheme") THEN ev["enc_scheme"].n ELSE -1
GroupEncrypted(ev) == Scheme(ev) = 4

ValidateRef(r) ==
  \/ r.len > 1 /\ r.head = 1 /\ r.utf8
  \/ r.len = 33 /\ r.head = 2

RefChecks(ev) ==
  Has(ev, "ref") =>
    /\ ValidateRef(ev["ref"])
    /\ Has(ev, "ref_type") => ev["ref_type"].n = ev["ref"].head

LengthChecks(ev) ==
  /\ Has(ev, "mime") => ev["mime"].len \in 1 .. 64 /\ ev["mime"].ascii
  /\ Has(ev, "reaction_key") => ev["reaction_key"].len \in 1 .. 32

V1Checks(ev) ==
  /\ Has(ev, "enc_scheme")
  /\ (Scheme(ev) # 0) = ev["enc"].b
  /\ Scheme(ev) \in {0, 1, 3, 4}
  /\ HasAll(ev, {"ts", "n"})

SealedSender(ev) ==
  \/ Has(ev, "sig_scheme") /\ ev["sig_scheme"].n = 1
  \/ Has(ev, "sealed_signer")

GroupChecks(ev) ==
  /\ HasAll(ev, {"match_tag", "key_epoch"})
  /\ \/ HasAny(ev, {"enc_sid", "enc_cid", "enc_body_ref", "enc_parent_mid", "enc_t"})
     \/ ev["t"].n \in SealedTypes

CommonChecks(ev) ==
  /\ ev["v"].n <= MaxKnownVersion
  /\ ev["t"].n \notin EphemeralTypes
  /\ RefChecks(ev)
  /\ LengthChecks(ev)
  /\ ev["v"].n >= 1 => V1Checks(ev)
  /\ ~ SealedSender(ev)
  /\ GroupEncrypted(ev) => GroupChecks(ev)

---------------------------------------------------------------------------
(* validate_event: the arm of each type.                                   *)

\* Effective presence: under enc_scheme 4 the encrypted counterpart counts.
HasOrEnc(ev, k, ek) == Has(ev, k) \/ (GroupEncrypted(ev) /\ Has(ev, ek))
HasSid(ev) == HasOrEnc(ev, "sid", "enc_sid")
HasCid(ev) == HasOrEnc(ev, "cid", "enc_cid")
HasRef(ev) == HasOrEnc(ev, "ref", "enc_body_ref")
PlaintextEncMisuse(ev) == ev["enc"].b /\ ~ GroupEncrypted(ev)
Lacks(ev, S) == ~ HasAny(ev, S)

ServerArm(ev) == HasSid(ev) /\ Lacks(ev, {"cid", "enc_cid", "did"})
ChannelArm(ev) == HasSid(ev) /\ HasCid(ev) /\ Lacks(ev, {"did"})
MessageArm(ev) ==
  /\ HasSid(ev) /\ HasCid(ev)
  /\ ev["t"].n # MessagePost => Has(ev, "mid")
  /\ ev["t"].n # MessageDelete => HasRef(ev)
DmArm(ev) ==
  /\ HasAll(ev, {"did", "ref"}) /\ ev["enc"].b
  /\ Lacks(ev, {"sid", "enc_sid", "cid", "enc_cid"})
ReactionArm(ev) ==
  HasSid(ev) /\ HasCid(ev) /\ Has(ev, "mid") /\ HasAny(ev, {"reaction_key", "ref"})
MemberArm(ev) == HasAll(ev, {"sid", "pid"}) /\ Lacks(ev, {"cid", "did"})
RoleArm(ev) ==
  /\ HasSid(ev) /\ Has(ev, "target") /\ ev["target"].len >= 2
  /\ ev["t"].n = RoleAssign => Has(ev, "role")
  /\ Has(ev, "role") => ev["role"].n <= RoleMax
DeviceArm(ev) ==
  /\ HasAll(ev, {"device_pk", "sig"})
  /\ ev["t"].n = DeviceRegister => Has(ev, "sig_scheme")
PinArm(ev) == HasSid(ev) /\ HasCid(ev) /\ Has(ev, "mid")
SealedArm(ev) ==
  LET t == ev["t"].n IN
  /\ t # SealedMemberLeave => GroupEncrypted(ev)
  /\ t = SealedMemberJoin =>
       HasAll(ev, {"member_tag", "member_sealed", "match_tag", "key_epoch"})
  /\ t = SealedMemberLeave => HasAll(ev, {"member_tag", "sig"})
  /\ t = KeyRotate => HasAll(ev, {"member_sealed", "match_tag", "key_epoch"})
  /\ t = SealedEvent => Has(ev, "enc_t")
  /\ Lacks(ev, {"sid", "cid"})
  /\ t # KeyRotate => Lacks(ev, {"did", "pid"})

TypeArm(ev) ==
  LET t == ev["t"].n IN
  /\ t \in 0 .. 1 => ServerArm(ev)         \* ServerCreate, ServerUpdate
  /\ t \in 2 .. 3 => ChannelArm(ev)        \* ChannelCreate, ChannelUpdate
  /\ t \in 4 .. 6 => MessageArm(ev)        \* MessagePost, Edit, Delete
  /\ t = DmMessagePost => DmArm(ev)
  /\ t \in 8 .. 9 => ReactionArm(ev)       \* ReactionAdd, ReactionRemove
  /\ t \in 10 .. 11 => MemberArm(ev)       \* MemberJoin, MemberLeave
  /\ t \in 12 .. 13 => RoleArm(ev)         \* RoleAssign, RoleRevoke
  /\ t = ModerationAction => HasSid(ev)
  /\ t \in 15 .. 16 => DeviceArm(ev)       \* DeviceRegister, DeviceRevoke
  /\ t \in 17 .. 18 => PinArm(ev)          \* PinMessage, UnpinMessage
  /\ t \in 19 .. 20 => Has(ev, "mid")      \* BookmarkAdd, BookmarkRemove
  /\ t \in 23 .. 26 => SealedArm(ev)
  /\ t \notin {DmMessagePost} \cup 23 .. 26 => ~ PlaintextEncMisuse(ev)

\* "ok", "opaque" (ValidationError::OpaqueEventType) or "invalid" (any other
\* ValidationError), in the order the code tests them.
ValidateEvent(ev) ==
  IF ~ CommonChecks(ev) THEN "invalid"
  ELSE IF ev["t"].n \notin KnownTypes THEN "opaque"
  ELSE IF TypeArm(ev) THEN "ok" ELSE "invalid"

---------------------------------------------------------------------------
(* encode.rs                                                               *)

EncodeFields_KeepScheme(ev) == ev                                     \* mutation
EncodeFields_WrongVersion(ev) ==                                      \* mutation
  IF ev["v"].n = 0 THEN ev ELSE Without(ev, "enc_scheme")
\* The map spelled out field by field; a v0 event never carries enc_scheme.
EncodeFields(ev) == IF ev["v"].n = 0 THEN Without(ev, "enc_scheme") ELSE ev

EncodeOk(ev) == ValidateEvent(ev) = "ok"
EncodeCborMap(ev) == EncodeFields(ev)
EncodeKommsPayload(ev) ==
  [prefix |-> TRUE, form |-> "canonical", map |-> EncodeCborMap(ev)]

\* signing_payload_cbor encodes a clone without `sig`, validation included.
SigningPayloadOk(ev) == EncodeOk(Without(ev, "sig"))
SigningPayload_NoTs(ev) == EncodeCborMap(Without(Without(ev, "sig"), "ts"))  \* mutation
SigningPayload(ev) == EncodeCborMap(Without(ev, "sig"))

---------------------------------------------------------------------------
(* parse_komms_payload and parse_komms_payload_with_future                 *)

Readable(p) == p.prefix /\ ValidateCanonical(p) /\ WellTyped(p.map)

ParseOk(p) == Readable(p) /\ ValidateEvent(ParseCborMap(p.map)) = "ok"
ParseKommsPayload(p) == ParseCborMap(p.map)

\* ParsedPayload's variant, or "error".
ParseWithFuture(p) ==
  IF ~ Readable(p) THEN "error"
  ELSE LET ev == ParseCborMap(p.map) verdict == ValidateEvent(ev) IN
       IF ev["v"].n > MaxKnownVersion THEN "Future"
       ELSE IF verdict = "ok" THEN "Known"
       ELSE IF verdict = "opaque" THEN "Opaque" ELSE "error"

---------------------------------------------------------------------------
(* verify.rs: an Ed25519 signature is the pair of key and signed map.      *)

SigOver_Short(pk, m) == Bytes(63, 0, FALSE, <<pk, m>>)                \* mutation
SigOver(pk, m) == Bytes(64, 0, FALSE, <<pk, m>>)

InBand(ev) == Has(ev, "device_pk")

VerifyEvent(ev, pk) ==
  IF ~ Has(ev, "sig") THEN "SignatureMissing"
  ELSE IF ~ SigningPayloadOk(ev) THEN "Encode"
  ELSE IF ev["sig"] = SigOver(pk, SigningPayload(ev)) THEN "Ok"
  ELSE "SignatureInvalid"
=============================================================================
