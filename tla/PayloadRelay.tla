---------------------------- MODULE PayloadRelay ----------------------------
(***************************************************************************)
(* The life of a KOMMS payload through the programs that link the protocol *)
(* crate.  A client fills in a ParsedKommsEvent, may sign it, and encodes  *)
(* it; gateways and komms-miner-submit parse the bytes and encode them     *)
(* again before they broadcast them; an indexer classifies what the chain  *)
(* carries and checks signatures.  Other implementations of the codec put  *)
(* their own canonical bytes on the same wire.                             *)
(*                                                                         *)
(* The crate's functions are the operators of KommsPayload; the programs   *)
(* around them live in other repositories and are modelled from what the   *)
(* crate's documentation says they call.  The wire is a set that only      *)
(* grows, so a message may be delayed, reordered, delivered again or never *)
(* delivered.                                                              *)
(***************************************************************************)
EXTENDS KommsPayload, FiniteSets

CONSTANTS
  Drafts,             \* the events the client may start from
  Overlays,           \* what one edit assigns: fields and their values
  Clearable,          \* the fields an edit may set back to None
  ForeignPayloads,    \* what other implementations put on the wire
  MaxEdits,           \* bound: edits of the draft
  MaxPosts            \* bound: payloads put on the wire, foreign ones included

ASSUME DraftsAssumption == \A ev \in Drafts : IsEvent(ev)
ASSUME OverlaysAssumption ==
  /\ MaxEdits \in Nat /\ MaxPosts \in Nat
  /\ Clearable \cap {"v", "t", "enc"} = {}
  /\ \A o \in Overlays :
       /\ o = [k \in DOMAIN o |-> o[k]]
       /\ DOMAIN o \subseteq CoreKeys \cup ExtensionKeys
ASSUME ForeignAssumption ==
  \A p \in ForeignPayloads : p.map = [k \in DOMAIN p.map |-> p.map[k]]
\* Ed25519 is unforgeable: bytes the client did not get from signing in-crate
\* are no signature over an event's map.
ASSUME SignatureAssumption ==
  \A x \in Drafts \cup Overlays :
    Has(x, "sig") => ~ HasAll(x["sig"].c[2], {"v", "t", "enc"})

VARIABLES
  draft,      \* the client's ParsedKommsEvent
  edits,      \* how many times it was edited
  fresh,      \* TRUE iff signed in-crate since the last edit
  signed,     \* every <<key, map>> the client's device keys have signed
  posted,     \* what the client encoded: event, payload, fresh
  wire,       \* payloads in flight: origin, whether re-encoded, bytes
  chain,      \* payloads of transactions on chain: origin, bytes
  rows        \* what the indexer stored

vars == <<draft, edits, fresh, signed, posted, wire, chain, rows>>

Client == "client"
Foreign == "foreign"

Assign(ev, o) ==
  [k \in DOMAIN ev \cup DOMAIN o |-> IF k \in DOMAIN o THEN o[k] ELSE ev[k]]

\* What a gateway makes of the bytes it is given.
Relayed(p) == EncodeKommsPayload(ParseKommsPayload(p))
RelayAccepts(p) == ParseOk(p) /\ EncodeOk(ParseKommsPayload(p))

\* What verification says of a known event: in-band keys only.
Authenticity(ev) ==
  IF ~ InBand(ev) THEN "unverified"
  ELSE IF VerifyEvent(ev, ev["device_pk"]) = "Ok" THEN "verified" ELSE "refused"

NumPosted == {w \in wire : ~ w.relayed}

Init ==
  /\ draft \in Drafts
  /\ edits = 0
  /\ fresh = FALSE
  /\ signed = {}
  /\ posted = {}
  /\ wire = {}
  /\ chain = {}
  /\ rows = {}

\* The client assigns fields of its event.
Edit(o) ==
  /\ edits < MaxEdits
  /\ IsEvent(Assign(draft, o))
  /\ draft' = Assign(draft, o)
  /\ edits' = edits + 1
  /\ fresh' = FALSE
  /\ UNCHANGED <<signed, posted, wire, chain, rows>>

\* The client sets a field to None.
Clear(k) ==
  /\ edits < MaxEdits
  /\ Has(draft, k)
  /\ draft' = Without(draft, k)
  /\ edits' = edits + 1
  /\ fresh' = FALSE
  /\ UNCHANGED <<signed, posted, wire, chain, rows>>

\* The client signs signing_payload_cbor with the key it names in device_pk.
Sign ==
  LET pk == draft["device_pk"] IN
  /\ InBand(draft)
  /\ SigningPayloadOk(draft)
  /\ draft' = Assign(draft, [sig |-> SigOver(pk, SigningPayload(draft))])
  /\ signed' = signed \cup {<<pk, SigningPayload(draft)>>}
  /\ fresh' = TRUE
  /\ UNCHANGED <<edits, posted, wire, chain, rows>>

\* The client encodes its event and hands the bytes over.
Post ==
  /\ EncodeOk(draft)
  /\ Cardinality(NumPosted) < MaxPosts
  /\ posted' = posted \cup
       {[ev |-> draft, payload |-> EncodeKommsPayload(draft), fresh |-> fresh]}
  /\ wire' = wire \cup
       {[from |-> Client, relayed |-> FALSE, payload |-> EncodeKommsPayload(draft)]}
  /\ UNCHANGED <<draft, edits, fresh, signed, chain, rows>>

\* Another implementation hands its bytes over.
ForeignPost(p) ==
  /\ Cardinality(NumPosted) < MaxPosts
  /\ wire' = wire \cup {[from |-> Foreign, relayed |-> FALSE, payload |-> p]}
  /\ UNCHANGED <<draft, edits, fresh, signed, posted, chain, rows>>

\* A gateway parses a payload and encodes what it parsed.
Relay(w) ==
  /\ RelayAccepts(w.payload)
  /\ wire' = wire \cup
       {[from |-> w.from, relayed |-> TRUE, payload |-> Relayed(w.payload)]}
  /\ UNCHANGED <<draft, edits, fresh, signed, posted, chain, rows>>

\* A transaction carrying the bytes reaches the chain.
Publish(w) ==
  /\ chain' = chain \cup {[from |-> w.from, payload |-> w.payload]}
  /\ UNCHANGED <<draft, edits, fresh, signed, posted, wire, rows>>

\* The indexer reads a payload of the chain with parse_komms_payload_with_future.
Index(c) ==
  LET class == ParseWithFuture(c.payload)
      ev == ParseKommsPayload(c.payload)
  IN
  /\ class # "error"
  /\ rows' = rows \cup
       {[from |-> c.from, raw |-> c.payload.map, class |-> class,
         auth |-> IF class = "Known" THEN Authenticity(ev) ELSE "unverified"]}
  /\ UNCHANGED <<draft, edits, fresh, signed, posted, wire, chain>>

Next ==
  \/ \E o \in Overlays : Edit(o)
  \/ \E k \in Clearable : Clear(k)
  \/ Sign
  \/ Post
  \/ \E p \in ForeignPayloads : ForeignPost(p)
  \/ \E w \in wire : Relay(w)
  \/ \E w \in wire : Publish(w)
  \/ \E c \in chain : Index(c)

Spec == Init /\ [][Next]_vars

---------------------------------------------------------------------------
(* What the crate promises of these programs.                              *)

Origins == {Client, Foreign}
Classes == {"Known", "Opaque", "Future"}
Verdicts == {"verified", "refused", "unverified"}

DraftOK == IsEvent(draft) /\ edits \in 0 .. MaxEdits /\ fresh \in BOOLEAN
PostedOK ==
  \A p \in posted :
    /\ IsEvent(p.ev) /\ EncodeOk(p.ev) /\ p.fresh \in BOOLEAN
    /\ p.payload = EncodeKommsPayload(p.ev)
CopiesOK ==
  /\ \A w \in wire : w.from \in Origins /\ w.relayed \in BOOLEAN
  /\ \A c \in chain : c.from \in Origins
RowsOK ==
  \A r \in rows : r.class \in Classes /\ r.auth \in Verdicts /\ r.from \in Origins

\* Types: the draft stays a value Rust's ParsedKommsEvent can hold, and what was
\* posted are valid events of that type with the bytes that spell them.
TypeOK == DraftOK /\ PostedOK /\ CopiesOK /\ RowsOK

\* The bytes a client handed over are the bytes every gateway passes on and
\* the chain carries, however often they were parsed and encoded on the way
\* (the integrity guard of the comment at encode.rs:144-158).
RelayIntegrity ==
  \A x \in wire \cup chain :
    x.from = Client => \E p \in posted : p.payload = x.payload

\* What a relay may lose, and no more: key 13 of a v0 map, a role beyond a byte
\* (255 takes its place) of an event other than RoleAssign and RoleRevoke, and
\* undefined in an extension (null takes its place).  The next relay accepts
\* what this one made and changes nothing, whoever wrote the bytes first, except
\* that without key 13 a v0 map is no longer taken for a group envelope
\* (parse_cbor_map, lib.rs:588-617; encode_cbor_map, encode.rs:144-163).  By the
\* comments at lib.rs:85, 92, 371 and 609-612 no role above ROLE_MAX is accepted;
\* the code looks at it in the arms of those two types only (1043, 1057).
RelayStable ==
  \A w \in wire :
    LET p == w.payload  q == Relayed(p)  m == p.map  r == q.map IN
    RelayAccepts(p) =>
      /\ DOMAIN r = DOMAIN m \ (IF m["v"].n = 0 THEN {"enc_scheme"} ELSE {})
      /\ \A k \in DOMAIN r :
           \/ r[k] = m[k]
           \/ /\ k = "role" /\ m["t"].n \notin {RoleAssign, RoleRevoke}
              /\ m[k].n > U8Max /\ r[k] = Uint(U8Max)
           \/ k \in ExtensionKeys /\ HoldsUndefined(m[k])
      /\ Relayed(q) = q
      /\ RelayAccepts(q) \/ (m["v"].n = 0 /\ GroupEncrypted(m))

\* An event a v0 or v1 map can represent: enc_scheme says what `enc` says when
\* the version does not carry it, and no extension value is outside the profile.
Representable(ev) ==
  /\ ev["v"].n = 0 /\ Has(ev, "enc_scheme") => ev["enc_scheme"] = SynthScheme(ev)
  /\ \A k \in DOMAIN ev : CanonicalValue(ev[k])

WithScheme(ev) ==
  IF ev["v"].n = 0 THEN Assign(ev, [enc_scheme |-> SynthScheme(ev)]) ELSE ev

\* Whatever representable event the encoder accepts, strict parsing gives back,
\* field for field (encode_cbor_map's promise, encode.rs:94-95).
RoundTrip ==
  \A p \in posted :
    Representable(p.ev) =>
      /\ ParseOk(p.payload)
      /\ ParseKommsPayload(p.payload) = WithScheme(p.ev)

\* An event signed in-crate and not edited since verifies at the indexer under
\* the key it carries, after any number of gateways (verify_event).
FreshVerifies ==
  \A r \in rows :
    /\ r.from = Client /\ r.class = "Known"
    /\ \E p \in posted : p.fresh /\ p.payload.map = r.raw
    => r.auth = "verified"

\* A client's row verifies only if the very map the row keeps, less key 11, was
\* signed with the key the row names: no field escapes the signature
\* (signing_payload_cbor, encode.rs:248-256).
OnlySignedVerifies ==
  \A r \in rows :
    r.from = Client /\ r.auth = "verified" =>
      <<r.raw["device_pk"], Without(r.raw, "sig")>> \in signed

---------------------------------------------------------------------------
(* What the crate's documentation says and its code does not do.           *)

\* "it is impossible to emit a payload that this crate would later refuse to
\* parse" (encode.rs:94-95).
EncodedIsParseable == \A p \in posted : ParseOk(p.payload)

\* "In-band pubkey present -> verify now; reject on failure" (verify.rs:74):
\* a known event signed over its map less key 11 by the key it carries verifies.
SignedVerifies ==
  \A r \in rows :
    /\ r.class = "Known" /\ HasAll(r.raw, {"device_pk", "sig"})
    /\ r.raw["sig"] = SigOver(r.raw["device_pk"], Without(r.raw, "sig"))
    => r.auth = "verified"
=============================================================================
