------------------------- MODULE PayloadRelayProofs -------------------------
(***************************************************************************)
(* Proofs about PayloadRelay, for every set of drafts, edits and foreign   *)
(* payloads and any number of posts.                                       *)
(***************************************************************************)
EXTENDS PayloadRelay, TLAPS

---------------------------------------------------------------------------
(* Lemmas about the codec.                                                 *)

\* What encoding leaves of an event: the mandatory keys and every value it
\* keeps are the event's own.
LEMMA EncodeKeeps ==
  ASSUME NEW ev, IsEvent(ev)
  PROVE  LET m == EncodeFields(ev) IN
         /\ m = [k \in DOMAIN m |-> m[k]]
         /\ DOMAIN m \subseteq DOMAIN ev
         /\ HasAll(m, {"v", "t", "enc"})
         /\ \A k \in DOMAIN m : m[k] = ev[k]
         /\ ev["v"].n = 0 => "enc_scheme" \notin DOMAIN m
         /\ ev["v"].n # 0 => m = ev
  BY DEF IsEvent, WellTyped, EncodeFields, Without, HasAll

\* A role byte is in range, so clamping does nothing to it.
LEMMA ClampIdle ==
  ASSUME NEW x, x.n \in Nat, x.n <= U8Max
  PROVE  ClampRole(x) = x
  BY DEF ClampRole, U8Max

\* Parsing what was encoded only adds the enc_scheme of a v0 event.
LEMMA ParseEncoded ==
  ASSUME NEW ev, IsEvent(ev)
  PROVE  LET m == EncodeFields(ev)
             q == ParseCborMap(m)
         IN  /\ q = [k \in DOMAIN q |-> q[k]]
             /\ DOMAIN q = DOMAIN m \cup (IF ev["v"].n = 0 THEN {"enc_scheme"} ELSE {})
             /\ \A k \in DOMAIN m : q[k] = m[k]
             /\ q["v"] = ev["v"]
  <1> DEFINE m == EncodeFields(ev)
             q == ParseCborMap(m)
  <1>1. /\ m["v"] = ev["v"]
        /\ "v" \in DOMAIN m
    BY EncodeKeeps DEF HasAll
  <1>2. "role" \in DOMAIN m => ClampRole(m["role"]) = m["role"]
    <2>1. "role" \in DOMAIN m => ev["role"].n \in Nat /\ ev["role"].n <= U8Max
      BY EncodeKeeps DEF IsEvent, WellTyped, Has, UintKeys
    <2> QED
      BY <2>1, EncodeKeeps, ClampIdle
  <1>3. /\ DOMAIN q = DOMAIN m \cup (IF ev["v"].n = 0 THEN {"enc_scheme"} ELSE {})
        /\ q = [k \in DOMAIN q |-> q[k]]
    BY <1>1 DEF ParseCborMap
  <1>4. ASSUME NEW k \in DOMAIN m
        PROVE  q[k] = m[k]
    <2>1. ~ HoldsUndefined(m[k])
      BY EncodeKeeps DEF IsEvent
    <2>2. ReadValue(m[k]) = m[k]
      BY <2>1 DEF ReadValue
    <2> QED
      BY <1>2, <2>2 DEF ParseCborMap
  <1> QED
    BY <1>1, <1>3, <1>4

\* Encoding, parsing and encoding again gives the same map.
LEMMA EncodeParseEncode ==
  ASSUME NEW ev, IsEvent(ev)
  PROVE  EncodeFields(ParseCborMap(EncodeFields(ev))) = EncodeFields(ev)
  <1> DEFINE m == EncodeFields(ev)
             q == ParseCborMap(m)
  <1>1. CASE ev["v"].n = 0
    <2>1. EncodeFields(q) = [x \in DOMAIN q \ {"enc_scheme"} |-> q[x]]
      BY <1>1, ParseEncoded DEF EncodeFields, Without
    <2>2. DOMAIN q \ {"enc_scheme"} = DOMAIN m
      <3>1. DOMAIN q = DOMAIN m \cup {"enc_scheme"}
        BY <1>1, ParseEncoded
      <3>2. "enc_scheme" \notin DOMAIN m
        BY <1>1, EncodeKeeps
      <3> QED
        BY <3>1, <3>2
    <2>3. [x \in DOMAIN m |-> q[x]] = m
      <3>1. m = [x \in DOMAIN m |-> m[x]]
        BY EncodeKeeps
      <3>2. \A x \in DOMAIN m : q[x] = m[x]
        BY ParseEncoded
      <3> HIDE DEF m, q
      <3> QED
        BY <3>1, <3>2
    <2> QED
      BY <2>1, <2>2, <2>3
  <1>2. CASE ev["v"].n # 0
    <2>1. EncodeFields(q) = q
      BY <1>2, ParseEncoded DEF EncodeFields
    <2>2. q = m
      BY <1>2, ParseEncoded, EncodeKeeps
    <2> QED
      BY <2>1, <2>2
  <1> QED
    BY <1>1, <1>2

---------------------------------------------------------------------------
(* Typing.                                                                 *)

LEMMA ClearKeepsEvent ==
  ASSUME NEW ev, IsEvent(ev), NEW k, k \notin {"v", "t", "enc"}
  PROVE  IsEvent(Without(ev, k))
  <1> DEFINE f == Without(ev, k)
  <1>1. /\ f = [x \in DOMAIN f |-> f[x]]
        /\ DOMAIN f \subseteq DOMAIN ev
        /\ \A x \in DOMAIN f : f[x] = ev[x]
        /\ HasAll(f, {"v", "t", "enc"})
    BY DEF IsEvent, WellTyped, Without, HasAll
  <1>2. f["t"] = ev["t"]
    BY <1>1 DEF HasAll
  <1> QED
    BY <1>1, <1>2 DEF IsEvent, WellTyped, Has

\* Signing in-crate yields an event again.
LEMMA SignKeepsEvent ==
  ASSUME NEW ev, IsEvent(ev), NEW pk, NEW m
  PROVE  IsEvent(Assign(ev, [sig |-> SigOver(pk, m)]))
  <1> DEFINE o == [sig |-> SigOver(pk, m)]
             f == Assign(ev, o)
  <1>1. /\ DOMAIN o = {"sig"}
        /\ o["sig"] = SigOver(pk, m)
    OBVIOUS
  <1> HIDE DEF o
  <1>2. /\ f = [x \in DOMAIN f |-> f[x]]
        /\ DOMAIN f = DOMAIN ev \cup {"sig"}
        /\ f["sig"] = SigOver(pk, m)
        /\ \A x \in DOMAIN ev : x # "sig" => f[x] = ev[x]
    BY <1>1 DEF Assign
  <1> HIDE DEF f
  <1>3. IsBytesOf(f["sig"], 64) /\ Decodes(f["sig"]) /\ ~ HoldsUndefined(f["sig"])
    BY <1>2 DEF SigOver, Bytes, IsBytesOf, IsBytes, Decodes, HoldsUndefined
  <1>4. /\ "sig" \in CoreKeys
        /\ "sig" \notin UintKeys \cup Bytes32Keys \cup Bytes16Keys \cup BytesKeys
    BY DEF CoreKeys, UintKeys, Bytes32Keys, Bytes16Keys, BytesKeys
  <1>5. HasAll(f, {"v", "t", "enc"}) /\ f["t"] = ev["t"]
    BY <1>2 DEF IsEvent, WellTyped, HasAll
  <1>6. DOMAIN f \subseteq CoreKeys \cup ExtensionKeys
    BY <1>2, <1>4 DEF IsEvent, WellTyped
  <1>7. ASSUME NEW k \in DOMAIN f
        PROVE  /\ Decodes(f[k]) /\ ~ HoldsUndefined(f[k])
               /\ k \in UintKeys => IsUint(f[k]) /\ f[k].n \in Nat
               /\ k \in Bytes32Keys => IsBytesOf(f[k], 32)
               /\ k \in Bytes16Keys => IsBytesOf(f[k], 16)
               /\ k \in BytesKeys => IsBytes(f[k])
               /\ k = "sig" => IsBytesOf(f[k], 64)
               /\ k = "enc" => f[k].major = "bool" /\ f[k].b \in BOOLEAN
               /\ k = "mime" => f[k].major = "text"
    <2>1. CASE k = "sig"
      BY <2>1, <1>3, <1>4
    <2>2. CASE k # "sig"
      BY <2>2, <1>2 DEF IsEvent, WellTyped
    <2> QED
      BY <2>1, <2>2
  <1>8. f["t"].n <= U8Max
    BY <1>5 DEF IsEvent, WellTyped
  <1>9. WellTyped(f)
    BY <1>2, <1>5, <1>6, <1>7, <1>8 DEF WellTyped
  <1>10. Has(f, "role") => f["role"].n <= U8Max
    BY <1>2 DEF Has, IsEvent
  <1>11. IsEvent(f)
    BY <1>7, <1>9, <1>10 DEF IsEvent
  <1> QED
    BY <1>11 DEF f, o

LEMMA ClassRange ==
  ASSUME NEW p, ParseWithFuture(p) # "error"
  PROVE  ParseWithFuture(p) \in Classes
  BY DEF ParseWithFuture, Classes

\* The type invariant holds in every reachable state.
THEOREM TypeCorrect == Spec => []TypeOK
  <1>1. Init => TypeOK
    <2> SUFFICES ASSUME Init PROVE TypeOK
      OBVIOUS
    <2>1. DraftOK
      <3>1. IsEvent(draft) /\ edits \in 0 .. MaxEdits
        BY DraftsAssumption, OverlaysAssumption DEF Init
      <3>2. fresh \in BOOLEAN
        BY DEF Init
      <3> QED
        BY <3>1, <3>2 DEF DraftOK
    <2>2. PostedOK /\ CopiesOK /\ RowsOK
      BY DEF Init, PostedOK, CopiesOK, RowsOK
    <2> QED
      BY <2>1, <2>2 DEF TypeOK
  <1>2. TypeOK /\ [Next]_vars => TypeOK'
    <2> SUFFICES ASSUME TypeOK, [Next]_vars
                 PROVE  TypeOK'
      OBVIOUS
    <2> USE DEF TypeOK
    <2>1. ASSUME NEW o \in Overlays, Edit(o)
          PROVE  TypeOK'
      <3>1. DraftOK'
        <4>1. (IsEvent(draft) /\ edits \in 0 .. MaxEdits)'
          BY <2>1, OverlaysAssumption DEF DraftOK, Edit
        <4>2. fresh' \in BOOLEAN
          BY <2>1 DEF Edit
        <4> QED
          BY <4>1, <4>2 DEF DraftOK
      <3>2. (PostedOK /\ CopiesOK /\ RowsOK)'
        BY <2>1 DEF Edit, PostedOK, CopiesOK, RowsOK
      <3> QED
        BY <3>1, <3>2
    <2>2. ASSUME NEW k \in Clearable, Clear(k)
          PROVE  TypeOK'
      <3>1. IsEvent(Without(draft, k))
        BY OverlaysAssumption, ClearKeepsEvent DEF DraftOK
      <3>2. DraftOK'
        <4>1. (IsEvent(draft) /\ edits \in 0 .. MaxEdits)'
          BY <2>2, <3>1, OverlaysAssumption DEF DraftOK, Clear
        <4>2. fresh' \in BOOLEAN
          BY <2>2 DEF Clear
        <4> QED
          BY <4>1, <4>2 DEF DraftOK
      <3>3. (PostedOK /\ CopiesOK /\ RowsOK)'
        BY <2>2 DEF Clear, PostedOK, CopiesOK, RowsOK
      <3> QED
        BY <3>2, <3>3
    <2>3. CASE Sign
      <3>1. draft' = Assign(draft, [sig |-> SigOver(draft["device_pk"], SigningPayload(draft))])
        BY <2>3 DEF Sign
      <3>2. IsEvent(draft')
        BY <3>1, SignKeepsEvent DEF DraftOK
      <3>3. DraftOK'
        BY <2>3, <3>2 DEF DraftOK, Sign
      <3>4. (PostedOK /\ CopiesOK /\ RowsOK)'
        BY <2>3 DEF Sign, PostedOK, CopiesOK, RowsOK
      <3> QED
        BY <3>3, <3>4
    <2>4. CASE Post
      <3> DEFINE new == [ev |-> draft, payload |-> EncodeKommsPayload(draft),
                         fresh |-> fresh]
                 copy == [from |-> Client, relayed |-> FALSE,
                          payload |-> EncodeKommsPayload(draft)]
      <3>1. /\ new.ev = draft /\ new.fresh = fresh
            /\ new.payload = EncodeKommsPayload(draft)
            /\ copy.from = Client /\ copy.relayed = FALSE
        OBVIOUS
      <3>2. posted' = posted \cup {new} /\ wire' = wire \cup {copy}
        BY <2>4 DEF Post
      <3> HIDE DEF new, copy
      <3>3. PostedOK'
        BY <2>4, <3>1, <3>2 DEF Post, PostedOK, DraftOK
      <3>4. CopiesOK'
        BY <2>4, <3>1, <3>2 DEF Post, CopiesOK, Origins
      <3>5. (DraftOK /\ RowsOK)'
        BY <2>4 DEF Post, DraftOK, RowsOK
      <3> QED
        BY <3>3, <3>4, <3>5
    <2>5. ASSUME NEW p \in ForeignPayloads, ForeignPost(p)
          PROVE  TypeOK'
      <3> DEFINE copy == [from |-> Foreign, relayed |-> FALSE, payload |-> p]
      <3>0. copy.from \in Origins /\ copy.relayed \in BOOLEAN
        BY DEF Origins
      <3>1. CopiesOK'
        <4>1. wire' = wire \cup {copy} /\ chain' = chain
          BY <2>5 DEF ForeignPost
        <4> HIDE DEF copy
        <4> QED
          BY <3>0, <4>1 DEF CopiesOK
      <3>2. (DraftOK /\ PostedOK /\ RowsOK)'
        BY <2>5 DEF ForeignPost, DraftOK, PostedOK, RowsOK
      <3> QED
        BY <3>1, <3>2
    <2>6. ASSUME NEW w \in wire, Relay(w)
          PROVE  TypeOK'
      <3> DEFINE copy == [from |-> w.from, relayed |-> TRUE,
                          payload |-> Relayed(w.payload)]
      <3>0. copy.from \in Origins /\ copy.relayed \in BOOLEAN
        BY DEF CopiesOK
      <3>1. CopiesOK'
        <4>1. wire' = wire \cup {copy} /\ chain' = chain
          BY <2>6 DEF Relay
        <4> HIDE DEF copy
        <4> QED
          BY <3>0, <4>1 DEF CopiesOK
      <3>2. (DraftOK /\ PostedOK /\ RowsOK)'
        BY <2>6 DEF Relay, DraftOK, PostedOK, RowsOK
      <3> QED
        BY <3>1, <3>2
    <2>7. ASSUME NEW w \in wire, Publish(w)
          PROVE  TypeOK'
      <3>1. CopiesOK'
        BY <2>7 DEF Publish, CopiesOK
      <3>2. (DraftOK /\ PostedOK /\ RowsOK)'
        BY <2>7 DEF Publish, DraftOK, PostedOK, RowsOK
      <3> QED
        BY <3>1, <3>2
    <2>8. ASSUME NEW c \in chain, Index(c)
          PROVE  TypeOK'
      <3> DEFINE auth == IF ParseWithFuture(c.payload) = "Known"
                         THEN Authenticity(ParseKommsPayload(c.payload))
                         ELSE "unverified"
                 row == [from |-> c.from, raw |-> c.payload.map,
                         class |-> ParseWithFuture(c.payload), auth |-> auth]
      <3>1. auth \in Verdicts
        BY DEF Verdicts, Authenticity
      <3>2. ParseWithFuture(c.payload) \in Classes
        BY <2>8, ClassRange DEF Index
      <3>3. c.from \in Origins
        BY DEF CopiesOK
      <3>4. row.class \in Classes /\ row.auth \in Verdicts /\ row.from \in Origins
        BY <3>1, <3>2, <3>3
      <3>5. rows' = rows \cup {row}
        BY <2>8 DEF Index
      <3> HIDE DEF row
      <3>6. RowsOK'
        BY <3>4, <3>5 DEF RowsOK
      <3>7. (DraftOK /\ PostedOK /\ CopiesOK)'
        BY <2>8 DEF Index, DraftOK, PostedOK, CopiesOK
      <3> QED
        BY <3>6, <3>7
    <2>9. CASE UNCHANGED vars
      BY <2>9 DEF DraftOK, PostedOK, CopiesOK, RowsOK, vars
    <2> QED
      BY <2>1, <2>2, <2>3, <2>4, <2>5, <2>6, <2>7, <2>8, <2>9 DEF Next
  <1> QED
    BY <1>1, <1>2, PTL DEF Spec

---------------------------------------------------------------------------
(* The bytes survive the gateways.                                         *)

LEMMA RelayedSame ==
  ASSUME NEW ev, IsEvent(ev)
  PROVE  Relayed(EncodeKommsPayload(ev)) = EncodeKommsPayload(ev)
  BY EncodeParseEncode DEF Relayed, EncodeKommsPayload, ParseKommsPayload, EncodeCborMap

\* Whatever the client posts, gateways and the chain carry its very bytes.
THEOREM RelayIntegrityHolds == Spec => []RelayIntegrity
  <1>1. Init => RelayIntegrity
    BY DEF Init, RelayIntegrity
  <1>2. TypeOK /\ RelayIntegrity /\ [Next]_vars => RelayIntegrity'
    <2> SUFFICES ASSUME TypeOK, RelayIntegrity, [Next]_vars
                 PROVE  RelayIntegrity'
      OBVIOUS
    <2>1. ASSUME NEW o \in Overlays, Edit(o)
          PROVE  RelayIntegrity'
      BY <2>1 DEF RelayIntegrity, Edit
    <2>2. ASSUME NEW k \in Clearable, Clear(k)
          PROVE  RelayIntegrity'
      BY <2>2 DEF RelayIntegrity, Clear
    <2>3. CASE Sign
      BY <2>3 DEF RelayIntegrity, Sign
    <2>4. CASE Post
      <3> DEFINE pay == EncodeKommsPayload(draft)
                 new == [ev |-> draft, payload |-> pay, fresh |-> fresh]
                 copy == [from |-> Client, relayed |-> FALSE, payload |-> pay]
      <3>1. new.payload = copy.payload
        OBVIOUS
      <3>2. /\ posted' = posted \cup {new} /\ wire' = wire \cup {copy}
            /\ chain' = chain
        BY <2>4 DEF Post
      <3> HIDE DEF new, copy
      <3> QED
        BY <3>1, <3>2 DEF RelayIntegrity
    <2>5. ASSUME NEW p \in ForeignPayloads, ForeignPost(p)
          PROVE  RelayIntegrity'
      BY <2>5 DEF RelayIntegrity, ForeignPost, Client, Foreign
    <2>6. ASSUME NEW w \in wire, Relay(w)
          PROVE  RelayIntegrity'
      <3>1. w.from = Client => Relayed(w.payload) = w.payload
        BY RelayedSame DEF RelayIntegrity, TypeOK, PostedOK
      <3> QED
        BY <2>6, <3>1 DEF RelayIntegrity, Relay
    <2>7. ASSUME NEW w \in wire, Publish(w)
          PROVE  RelayIntegrity'
      BY <2>7 DEF RelayIntegrity, Publish
    <2>8. ASSUME NEW c \in chain, Index(c)
          PROVE  RelayIntegrity'
      BY <2>8 DEF RelayIntegrity, Index
    <2>9. CASE UNCHANGED vars
      BY <2>9 DEF RelayIntegrity, vars
    <2> QED
      BY <2>1, <2>2, <2>3, <2>4, <2>5, <2>6, <2>7, <2>8, <2>9 DEF Next
  <1> QED
    BY <1>1, <1>2, TypeCorrect, PTL DEF Spec

---------------------------------------------------------------------------
(* What the encoder accepts, the parser gives back.                        *)

\* A representable event differs from what parsing its encoding yields only in
\* an enc_scheme that says what `enc` says.
LEMMA ParseGivesBack ==
  ASSUME NEW ev, IsEvent(ev), Representable(ev)
  PROVE  ParseCborMap(EncodeFields(ev)) = WithScheme(ev)
  <1> DEFINE m == EncodeFields(ev)
             q == ParseCborMap(m)
  <1>1. CASE ev["v"].n # 0
    <2>1. q = m /\ m = ev
      BY <1>1, ParseEncoded, EncodeKeeps
    <2> QED
      BY <1>1, <2>1 DEF WithScheme
  <1>2. CASE ev["v"].n = 0
    <2> DEFINE f == WithScheme(ev)
               o == [enc_scheme |-> SynthScheme(ev)]
    <2>1. DOMAIN o = {"enc_scheme"} /\ o["enc_scheme"] = SynthScheme(ev)
      OBVIOUS
    <2>2. f = Assign(ev, o)
      BY <1>2 DEF WithScheme
    <2> HIDE DEF o
    <2>3. /\ f = [k \in DOMAIN ev \cup {"enc_scheme"} |-> f[k]]
          /\ f["enc_scheme"] = SynthScheme(ev)
          /\ \A k \in DOMAIN ev : k # "enc_scheme" => f[k] = ev[k]
      BY <2>1, <2>2 DEF Assign
    <2> HIDE DEF f
    <2>4. m = [k \in DOMAIN ev \ {"enc_scheme"} |-> ev[k]]
      BY <1>2 DEF EncodeFields, Without
    <2>5. DOMAIN q = DOMAIN ev \cup {"enc_scheme"}
      <3>1. DOMAIN q = DOMAIN m \cup {"enc_scheme"}
        BY <1>2, ParseEncoded
      <3> QED
        BY <2>4, <3>1
    <2>6. q["enc_scheme"] = SynthScheme(ev)
      <3>1. m["v"] = ev["v"] /\ m["enc"] = ev["enc"]
        BY EncodeKeeps DEF HasAll
      <3>2. q["enc_scheme"] = SynthScheme(m)
        BY <1>2, <2>4, <3>1 DEF ParseCborMap
      <3> QED
        BY <3>1, <3>2 DEF SynthScheme
    <2>7. \A k \in DOMAIN ev : k # "enc_scheme" => q[k] = ev[k]
      <3>1. \A k \in DOMAIN m : q[k] = m[k]
        BY ParseEncoded
      <3>2. \A k \in DOMAIN ev : k # "enc_scheme" => k \in DOMAIN m /\ m[k] = ev[k]
        BY <2>4
      <3> HIDE DEF m, q
      <3> QED
        BY <3>1, <3>2
    <2>8. q = [k \in DOMAIN q |-> q[k]]
      BY ParseEncoded
    <2>9. \A k \in DOMAIN q : q[k] = f[k]
      BY <2>3, <2>5, <2>6, <2>7
    <2>10. q = f
      BY <2>3, <2>5, <2>8, <2>9
    <2> QED
      BY <2>10 DEF f
  <1> QED
    BY <1>1, <1>2

\* Validation does not look at the enc_scheme of a v0 event beyond its being 4.
LEMMA SchemeUnseen ==
  ASSUME NEW ev, NEW f,
         \A k : k # "enc_scheme" => (k \in DOMAIN f <=> k \in DOMAIN ev),
         \A k \in DOMAIN ev : k # "enc_scheme" => f[k] = ev[k],
         HasAll(ev, {"v", "t", "enc"}), ev["v"].n = 0, ~ GroupEncrypted(ev), ~ GroupEncrypted(f),
         ValidateEvent(ev) = "ok"
  PROVE  ValidateEvent(f) = "ok"
  <1>1. /\ f["v"] = ev["v"] /\ f["t"] = ev["t"] /\ f["enc"] = ev["enc"]
    BY DEF HasAll
  <1>2. CommonChecks(ev) /\ TypeArm(ev) /\ ev["t"].n \in KnownTypes
    BY DEF ValidateEvent
  <1>3. CommonChecks(f)
    <2>1. RefChecks(f)
      BY <1>2 DEF CommonChecks, RefChecks, Has
    <2>2. LengthChecks(f)
      BY <1>2 DEF CommonChecks, LengthChecks, Has
    <2>3. ~ SealedSender(f)
      BY <1>2 DEF CommonChecks, SealedSender, Has
    <2> QED
      BY <1>1, <1>2, <2>1, <2>2, <2>3 DEF CommonChecks
  <1>4. /\ HasSid(f) <=> HasSid(ev)
        /\ HasCid(f) <=> HasCid(ev)
        /\ HasRef(f) <=> HasRef(ev)
    BY DEF HasSid, HasCid, HasRef, HasOrEnc, Has
  <1>5. ASSUME NEW S, "enc_scheme" \notin S
        PROVE  /\ HasAll(f, S) <=> HasAll(ev, S)
               /\ HasAny(f, S) <=> HasAny(ev, S)
               /\ Lacks(f, S) <=> Lacks(ev, S)
    BY <1>5 DEF HasAll, HasAny, Lacks
  <1>6. TypeArm(f)
    <2>1. PlaintextEncMisuse(f) <=> PlaintextEncMisuse(ev)
      BY <1>1 DEF PlaintextEncMisuse
    <2>2. (ServerArm(ev) => ServerArm(f)) /\ (ChannelArm(ev) => ChannelArm(f))
      BY <1>4, <1>5 DEF ServerArm, ChannelArm
    <2>3. MessageArm(ev) => MessageArm(f)
      BY <1>1, <1>4 DEF MessageArm, Has
    <2>4. DmArm(ev) => DmArm(f)
      BY <1>1, <1>5 DEF DmArm
    <2>5. ReactionArm(ev) => ReactionArm(f)
      BY <1>4, <1>5 DEF ReactionArm, Has
    <2>6. MemberArm(ev) => MemberArm(f)
      BY <1>5 DEF MemberArm
    <2>7. RoleArm(ev) => RoleArm(f)
      BY <1>1, <1>4 DEF RoleArm, Has
    <2>8. DeviceArm(ev) => DeviceArm(f)
      BY <1>1, <1>5 DEF DeviceArm, Has
    <2>9. PinArm(ev) => PinArm(f)
      BY <1>4 DEF PinArm, Has
    <2>10. SealedArm(ev) => SealedArm(f)
      BY <1>1, <1>5 DEF SealedArm, Has
    <2>11. Has(f, "mid") <=> Has(ev, "mid")
      BY DEF Has
    <2> QED
      BY <1>1, <1>2, <1>4, <2>1, <2>2, <2>3, <2>4, <2>5, <2>6, <2>7, <2>8, <2>9,
         <2>10, <2>11 DEF TypeArm
  <1> QED
    BY <1>1, <1>2, <1>3, <1>6 DEF ValidateEvent

LEMMA WithSchemeValid ==
  ASSUME NEW ev, IsEvent(ev), Representable(ev), EncodeOk(ev)
  PROVE  EncodeOk(WithScheme(ev))
  <1>1. CASE ev["v"].n # 0
    BY <1>1 DEF WithScheme
  <1>2. CASE ev["v"].n = 0
    <2> DEFINE f == WithScheme(ev)
               o == [enc_scheme |-> SynthScheme(ev)]
    <2>1. DOMAIN o = {"enc_scheme"} /\ o["enc_scheme"] = SynthScheme(ev)
      OBVIOUS
    <2>2. f = Assign(ev, o)
      BY <1>2 DEF WithScheme
    <2> HIDE DEF o
    <2>3. /\ DOMAIN f = DOMAIN ev \cup {"enc_scheme"}
          /\ f["enc_scheme"] = SynthScheme(ev)
          /\ \A k \in DOMAIN ev : k # "enc_scheme" => f[k] = ev[k]
      BY <2>1, <2>2 DEF Assign
    <2> HIDE DEF f
    <2>4. SynthScheme(ev).n \in {0, 1}
      BY DEF SynthScheme, Uint
    <2>5. ~ GroupEncrypted(ev)
      BY <1>2, <2>4 DEF GroupEncrypted, Scheme, Representable
    <2>6. ~ GroupEncrypted(f)
      BY <2>3, <2>4 DEF GroupEncrypted, Scheme, Has
    <2>7. HasAll(ev, {"v", "t", "enc"})
      BY DEF IsEvent, WellTyped
    <2>8. ValidateEvent(f) = "ok"
      BY <2>7, <1>2, <2>3, <2>5, <2>6, SchemeUnseen DEF EncodeOk
    <2> QED
      BY <2>8 DEF EncodeOk, f
  <1> QED
    BY <1>1, <1>2

LEMMA EncodedReadable ==
  ASSUME NEW ev, IsEvent(ev), \A k \in DOMAIN ev : CanonicalValue(ev[k])
  PROVE  Readable(EncodeKommsPayload(ev))
  <1> DEFINE m == EncodeFields(ev)
             p == EncodeKommsPayload(ev)
  <1>1. WellTyped(m)
    BY ClearKeepsEvent DEF EncodeFields, IsEvent
  <1>2. \A k \in DOMAIN m : CanonicalValue(m[k])
    BY EncodeKeeps
  <1>3. p.prefix = TRUE /\ p.form = "canonical" /\ p.map = m
    BY DEF EncodeKommsPayload, EncodeCborMap
  <1> HIDE DEF p
  <1>4. Readable(p)
    BY <1>1, <1>2, <1>3 DEF Readable, ValidateCanonical
  <1> QED
    BY <1>4 DEF p

\* Strict parsing gives back every representable event the client encoded.
THEOREM RoundTripHolds == Spec => []RoundTrip
  <1>1. TypeOK => RoundTrip
    <2> SUFFICES ASSUME TypeOK, NEW p \in posted, Representable(p.ev)
                 PROVE  /\ ParseOk(p.payload)
                        /\ ParseKommsPayload(p.payload) = WithScheme(p.ev)
      BY DEF RoundTrip
    <2>1. IsEvent(p.ev) /\ EncodeOk(p.ev) /\ p.payload = EncodeKommsPayload(p.ev)
      BY DEF TypeOK, PostedOK
    <2>2. p.payload.map = EncodeFields(p.ev)
      BY <2>1 DEF EncodeKommsPayload, EncodeCborMap
    <2>3. ParseCborMap(p.payload.map) = WithScheme(p.ev)
      BY <2>1, <2>2, ParseGivesBack
    <2>4. ValidateEvent(WithScheme(p.ev)) = "ok"
      BY <2>1, WithSchemeValid DEF EncodeOk
    <2>5. Readable(p.payload)
      BY <2>1, EncodedReadable DEF Representable
    <2> QED
      BY <2>3, <2>4, <2>5 DEF ParseOk, ParseKommsPayload
  <1> QED
    BY <1>1, TypeCorrect, PTL

---------------------------------------------------------------------------
(* What a gateway makes of bytes it accepts is an event it can encode.     *)

\* Only an extension holds undefined: every other key has its type.
LEMMA CoreDefined ==
  ASSUME NEW m, WellTyped(m), NEW k \in DOMAIN m, k \in CoreKeys
  PROVE  ~ HoldsUndefined(m[k]) /\ ReadValue(m[k]) = m[k]
  <1>1. m[k].major \in {"uint", "bytes", "bool", "text"}
    BY DEF WellTyped, CoreKeys, IsUint, IsBytes, IsBytesOf
  <1>2. ~ HoldsUndefined(m[k])
    BY <1>1 DEF HoldsUndefined
  <1> QED
    BY <1>2 DEF ReadValue

\* What was read of a value holds no undefined, and stays what it was otherwise.
LEMMA ReadValueIs ==
  ASSUME NEW x
  PROVE  LET y == ReadValue(x) IN
         /\ ~ HoldsUndefined(y)
         /\ ~ HoldsUndefined(x) => y = x
         /\ Decodes(x) => Decodes(y)
         /\ CanonicalValue(x) => CanonicalValue(y)
  <1> DEFINE y == ReadValue(x)
  <1>1. /\ ~ HoldsUndefined(x) => y = x
        /\ HoldsUndefined(x) /\ x.major = "nested" =>
             y.major = "nested" /\ y.height = x.height /\ y.holds = "plain"
        /\ HoldsUndefined(x) /\ x.major # "nested" => y.major = "null"
    BY DEF ReadValue, Nested, Null
  <1> HIDE DEF y
  <1>2. ~ HoldsUndefined(y)
    BY <1>1 DEF HoldsUndefined
  <1>3. Decodes(x) => Decodes(y)
    BY <1>1 DEF Decodes
  <1>4. CanonicalValue(x) => CanonicalValue(y)
    BY <1>1 DEF CanonicalValue
  <1> QED
    BY <1>1, <1>2, <1>3, <1>4 DEF y

\* Whatever the parser returns is a value ParsedKommsEvent can hold: the role is
\* clamped to a byte and the enc_scheme of a v0 map is a small integer.
LEMMA ParsedIsEvent ==
  ASSUME NEW m, WellTyped(m)
  PROVE  LET q == ParseCborMap(m) IN
         /\ IsEvent(q)
         /\ q["v"] = m["v"] /\ q["t"] = m["t"] /\ q["enc"] = m["enc"]
         /\ DOMAIN q = DOMAIN m \cup (IF m["v"].n = 0 THEN {"enc_scheme"} ELSE {})
         /\ \A k \in DOMAIN m : k # "role" => q[k] = ReadValue(m[k])
         /\ \A k \in DOMAIN m : k # "role" /\ k \in CoreKeys => q[k] = m[k]
         /\ "role" \in DOMAIN m => q["role"] = ClampRole(m["role"])
         /\ "enc_scheme" \in DOMAIN q \ DOMAIN m => q["enc_scheme"] = SynthScheme(m)
         /\ Has(q, "role") => IsUint(q["role"])
  <1> DEFINE q == ParseCborMap(m)
  <1>1. HasAll(m, {"v", "t", "enc"})
    BY DEF WellTyped
  <1>2. /\ q = [k \in DOMAIN q |-> q[k]]
        /\ DOMAIN q = DOMAIN m \cup (IF m["v"].n = 0 THEN {"enc_scheme"} ELSE {})
    BY DEF ParseCborMap
  <1>3. \A k \in DOMAIN m : k # "role" => q[k] = ReadValue(m[k])
    BY DEF ParseCborMap
  <1>4. "enc_scheme" \in DOMAIN q \ DOMAIN m => q["enc_scheme"] = SynthScheme(m)
    BY DEF ParseCborMap
  <1>5. "role" \in DOMAIN q =>
          /\ IsUint(q["role"]) /\ q["role"].n \in Nat /\ q["role"].n <= U8Max
          /\ q["role"] = ClampRole(m["role"])
    <2>1. SUFFICES ASSUME "role" \in DOMAIN m
                   PROVE  /\ IsUint(q["role"]) /\ q["role"].n \in Nat
                          /\ q["role"].n <= U8Max
                          /\ q["role"] = ClampRole(m["role"])
      BY <1>2
    <2>2. q["role"] = ClampRole(m["role"])
      BY <2>1 DEF ParseCborMap
    <2>3. IsUint(m["role"]) /\ m["role"].n \in Nat
      BY <2>1 DEF WellTyped, UintKeys
    <2>4. Uint(U8Max).major = "uint" /\ Uint(U8Max).n = 255
      BY DEF Uint, U8Max
    <2> QED
      BY <2>2, <2>3, <2>4 DEF ClampRole, IsUint, U8Max
  <1>14. \A k \in DOMAIN m : k # "role" /\ k \in CoreKeys => q[k] = m[k]
    BY <1>3, CoreDefined
  <1> HIDE DEF q
  <1>15. /\ {"v", "t", "enc"} \subseteq CoreKeys
         /\ "enc_scheme" \in UintKeys /\ "role" \in UintKeys
    BY DEF UintKeys, CoreKeys
  <1>6. q["v"] = m["v"] /\ q["t"] = m["t"] /\ q["enc"] = m["enc"]
    BY <1>1, <1>14, <1>15 DEF HasAll
  <1>7. HasAll(q, {"v", "t", "enc"})
    BY <1>1, <1>2 DEF HasAll
  <1>9. DOMAIN q \subseteq CoreKeys \cup ExtensionKeys
    BY <1>2, <1>15 DEF WellTyped, CoreKeys
  <1>10. ASSUME NEW k \in DOMAIN q
         PROVE  /\ k \in UintKeys => IsUint(q[k]) /\ q[k].n \in Nat
                /\ k \in Bytes32Keys => IsBytesOf(q[k], 32)
                /\ k \in Bytes16Keys => IsBytesOf(q[k], 16)
                /\ k \in BytesKeys => IsBytes(q[k])
                /\ k = "sig" => IsBytesOf(q[k], 64)
                /\ k = "enc" => q[k].major = "bool" /\ q[k].b \in BOOLEAN
                /\ k = "mime" => q[k].major = "text"
                /\ Decodes(q[k]) /\ ~ HoldsUndefined(q[k])
    <2>1. CASE k = "role"
      <3>1. k \notin Bytes32Keys \cup Bytes16Keys \cup BytesKeys \cup {"sig", "enc", "mime"}
        BY <2>1 DEF Bytes32Keys, Bytes16Keys, BytesKeys
      <3>2. Decodes(q[k]) /\ ~ HoldsUndefined(q[k])
        BY <2>1, <1>5 DEF IsUint, Decodes, HoldsUndefined
      <3> QED
        BY <2>1, <3>1, <3>2, <1>5
    <2>2. CASE k # "role" /\ k \in DOMAIN m
      <3>1. q[k] = ReadValue(m[k])
        BY <2>2, <1>3
      <3>2. Decodes(q[k]) /\ ~ HoldsUndefined(q[k])
        BY <2>2, <3>1, ReadValueIs DEF WellTyped
      <3>3. CASE k \in CoreKeys
        <4>1. q[k] = m[k]
          BY <2>2, <3>3, <1>14
        <4> QED
          BY <2>2, <3>2, <4>1 DEF WellTyped
      <3>4. CASE k \notin CoreKeys
        BY <3>2, <3>4 DEF CoreKeys
      <3> QED
        BY <3>3, <3>4
    <2>3. CASE k \notin DOMAIN m
      <3>1. k = "enc_scheme"
        BY <2>3, <1>2
      <3>2. k \notin Bytes32Keys \cup Bytes16Keys \cup BytesKeys \cup {"sig", "enc", "mime"}
        BY <3>1 DEF Bytes32Keys, Bytes16Keys, BytesKeys
      <3>3. /\ IsUint(SynthScheme(m)) /\ SynthScheme(m).n \in Nat
            /\ Decodes(SynthScheme(m)) /\ ~ HoldsUndefined(SynthScheme(m))
        BY DEF SynthScheme, Uint, IsUint, Decodes, HoldsUndefined
      <3> QED
        BY <2>3, <3>1, <3>2, <3>3, <1>4
    <2> QED
      BY <2>1, <2>2, <2>3
  <1>11. q["t"].n <= U8Max
    BY <1>6 DEF WellTyped
  <1>12. WellTyped(q)
    BY <1>2, <1>7, <1>9, <1>10, <1>11 DEF WellTyped
  <1>13. IsEvent(q)
    BY <1>5, <1>10, <1>12 DEF IsEvent, Has
  <1> QED
    BY <1>2, <1>3, <1>4, <1>5, <1>6, <1>13, <1>14 DEF q, Has

\* What strict reading returns is inside the profile again.
LEMMA ParsedCanonical ==
  ASSUME NEW p, Readable(p), NEW k \in DOMAIN ParseCborMap(p.map)
  PROVE  CanonicalValue(ParseCborMap(p.map)[k])
  <1> DEFINE m == p.map
             q == ParseCborMap(m)
  <1>1. WellTyped(m) /\ \A j \in DOMAIN m : CanonicalValue(m[j])
    BY DEF Readable, ValidateCanonical
  <1> HIDE DEF q
  <1>2. /\ DOMAIN q = DOMAIN m \cup (IF m["v"].n = 0 THEN {"enc_scheme"} ELSE {})
        /\ \A j \in DOMAIN m : j # "role" => q[j] = ReadValue(m[j])
        /\ "enc_scheme" \in DOMAIN q \ DOMAIN m => q["enc_scheme"] = SynthScheme(m)
        /\ Has(q, "role") => IsUint(q["role"])
    BY <1>1, ParsedIsEvent DEF q
  <1>3. k \in DOMAIN q
    BY DEF q
  <1>4. CASE k = "role"
    BY <1>2, <1>3, <1>4 DEF Has, IsUint, CanonicalValue, q
  <1>5. CASE k # "role" /\ k \in DOMAIN m
    <2>1. CanonicalValue(q[k])
      BY <1>1, <1>2, <1>5, ReadValueIs
    <2> QED
      BY <2>1 DEF q
  <1>6. CASE k \notin DOMAIN m
    <2>1. SynthScheme(m).major = "uint"
      BY DEF SynthScheme, Uint
    <2>2. CanonicalValue(q[k])
      BY <1>2, <1>3, <1>6, <2>1 DEF CanonicalValue
    <2> QED
      BY <2>2 DEF q
  <1> QED
    BY <1>4, <1>5, <1>6

\* What a relay writes of a map it accepts: the map, but for key 13 of a v0 map,
\* a role beyond a byte where roles are not checked, and undefined.
LEMMA RelayKeeps ==
  ASSUME NEW m, WellTyped(m), EncodeOk(ParseCborMap(m))
  PROVE  LET r == EncodeFields(ParseCborMap(m)) IN
         /\ DOMAIN r = DOMAIN m \ (IF m["v"].n = 0 THEN {"enc_scheme"} ELSE {})
         /\ \A k \in DOMAIN r :
              \/ r[k] = m[k]
              \/ /\ k = "role" /\ m["t"].n \notin {RoleAssign, RoleRevoke}
                 /\ m[k].n > U8Max /\ r[k] = Uint(U8Max)
              \/ k \in ExtensionKeys /\ HoldsUndefined(m[k])
  <1> DEFINE e == ParseCborMap(m)
             r == EncodeFields(e)
  <1>1. /\ IsEvent(e) /\ e["v"] = m["v"] /\ e["t"] = m["t"]
        /\ DOMAIN e = DOMAIN m \cup (IF m["v"].n = 0 THEN {"enc_scheme"} ELSE {})
        /\ \A k \in DOMAIN m : k # "role" => e[k] = ReadValue(m[k])
        /\ \A k \in DOMAIN m : k # "role" /\ k \in CoreKeys => e[k] = m[k]
        /\ "role" \in DOMAIN m => e["role"] = ClampRole(m["role"])
    BY ParsedIsEvent
  <1> HIDE DEF e
  <1>2. /\ DOMAIN r = DOMAIN e \ (IF m["v"].n = 0 THEN {"enc_scheme"} ELSE {})
        /\ \A k \in DOMAIN r : r[k] = e[k]
    BY <1>1 DEF EncodeFields, Without
  <1> HIDE DEF r
  <1>3. DOMAIN r = DOMAIN m \ (IF m["v"].n = 0 THEN {"enc_scheme"} ELSE {})
    BY <1>1, <1>2
  <1>4. ASSUME NEW k \in DOMAIN r
        PROVE  \/ r[k] = m[k]
               \/ /\ k = "role" /\ m["t"].n \notin {RoleAssign, RoleRevoke}
                  /\ m[k].n > U8Max /\ r[k] = Uint(U8Max)
               \/ k \in ExtensionKeys /\ HoldsUndefined(m[k])
    <2>1. k \in DOMAIN m /\ r[k] = e[k]
      BY <1>2, <1>3
    <2>2. CASE k = "role"
      <3>1. m["role"].n \in Nat
        BY <2>1, <2>2 DEF WellTyped, UintKeys
      <3>2. CASE ~ (m["role"].n > U8Max)
        BY <1>1, <2>1, <2>2, <3>2 DEF ClampRole
      <3>3. CASE m["role"].n > U8Max
        <4>1. r[k] = Uint(U8Max)
          BY <1>1, <2>1, <2>2, <3>3 DEF ClampRole
        <4>2. TypeArm(e) /\ Has(e, "role") /\ e["role"].n = 255
          BY <1>1, <2>1, <2>2, <4>1 DEF e, EncodeOk, ValidateEvent, Has, Uint, U8Max
        <4>3. m["t"].n \notin {RoleAssign, RoleRevoke}
          BY <1>1, <4>2 DEF TypeArm, RoleArm, RoleAssign, RoleRevoke, RoleMax
        <4> QED
          BY <2>2, <3>3, <4>1, <4>3
      <3> QED
        BY <3>2, <3>3
    <2>3. CASE k # "role"
      <3>1. CASE k \in CoreKeys
        BY <1>1, <2>1, <2>3, <3>1
      <3>2. CASE k \notin CoreKeys
        <4>1. k \in ExtensionKeys
          BY <2>1, <3>2 DEF WellTyped
        <4>2. r[k] = ReadValue(m[k])
          BY <1>1, <2>1, <2>3
        <4> QED
          BY <4>1, <4>2, ReadValueIs
      <3> QED
        BY <3>1, <3>2
    <2> QED
      BY <2>2, <2>3
  <1> QED
    BY <1>3, <1>4 DEF r, e

\* The next relay accepts what one relay wrote, unless a v0 map was taken for a
\* group envelope by the key it lost.
LEMMA RelayAgain ==
  ASSUME NEW m, WellTyped(m), EncodeOk(ParseCborMap(m)),
         ~ (m["v"].n = 0 /\ GroupEncrypted(m))
  PROVE  EncodeOk(ParseCborMap(EncodeFields(ParseCborMap(m))))
  <1> DEFINE e == ParseCborMap(m)
             r == EncodeFields(e)
             f == ParseCborMap(r)
  <1>1. /\ IsEvent(e) /\ e["v"] = m["v"] /\ e["enc"] = m["enc"]
        /\ DOMAIN e = DOMAIN m \cup (IF m["v"].n = 0 THEN {"enc_scheme"} ELSE {})
        /\ \A k \in DOMAIN m : k # "role" /\ k \in CoreKeys => e[k] = m[k]
        /\ "enc_scheme" \in DOMAIN e \ DOMAIN m => e["enc_scheme"] = SynthScheme(m)
    BY ParsedIsEvent
  <1>2. EncodeOk(e)
    OBVIOUS
  <1> HIDE DEF e
  <1>3. CASE e["v"].n # 0
    <2>1. r = e
      BY <1>1, <1>3, EncodeKeeps
    <2>2. /\ f = [k \in DOMAIN f |-> f[k]] /\ DOMAIN f = DOMAIN r
          /\ \A k \in DOMAIN r : f[k] = r[k]
      BY <1>1, <1>3, ParseEncoded
    <2>3. e = [k \in DOMAIN e |-> e[k]]
      BY <1>1 DEF IsEvent, WellTyped
    <2> HIDE DEF r, f
    <2>4. f = e
      BY <2>1, <2>2, <2>3
    <2> QED
      BY <1>2, <2>4 DEF e, r, f
  <1>4. CASE e["v"].n = 0
    <2>1. /\ r = [k \in DOMAIN e \ {"enc_scheme"} |-> e[k]]
          /\ HasAll(e, {"v", "t", "enc"})
      BY <1>1, <1>4 DEF EncodeFields, Without, IsEvent, WellTyped
    <2>2. /\ DOMAIN f = DOMAIN r \cup {"enc_scheme"}
          /\ \A k \in DOMAIN r : f[k] = r[k]
      BY <1>1, <1>4, ParseEncoded
    <2>3. f["enc_scheme"] = SynthScheme(r)
      <3>1. r["v"] = e["v"] /\ "enc_scheme" \notin DOMAIN r
        BY <2>1 DEF HasAll
      <3> QED
        BY <1>4, <3>1 DEF ParseCborMap
    <2> HIDE DEF r, f
    <2>4. /\ \A k : k # "enc_scheme" => (k \in DOMAIN f <=> k \in DOMAIN e)
          /\ \A k \in DOMAIN e : k # "enc_scheme" => f[k] = e[k]
      BY <2>1, <2>2
    <2>5. ~ GroupEncrypted(f)
      BY <2>2, <2>3 DEF GroupEncrypted, Scheme, Has, SynthScheme, Uint
    <2>6. ~ GroupEncrypted(e)
      <3>1. CASE "enc_scheme" \in DOMAIN m
        <4>1. e["enc_scheme"] = m["enc_scheme"] /\ "enc_scheme" \in DOMAIN e
          BY <1>1, <3>1 DEF CoreKeys, UintKeys
        <4> QED
          BY <1>1, <1>4, <3>1, <4>1 DEF GroupEncrypted, Scheme, Has
      <3>2. CASE "enc_scheme" \notin DOMAIN m
        <4>1. e["enc_scheme"] = SynthScheme(m)
          BY <1>1, <1>4, <3>2
        <4> QED
          BY <4>1 DEF GroupEncrypted, Scheme, Has, SynthScheme, Uint
      <3> QED
        BY <3>1, <3>2
    <2>7. ValidateEvent(f) = "ok"
      BY <1>2, <1>4, <2>1, <2>4, <2>5, <2>6, SchemeUnseen DEF EncodeOk
    <2> QED
      BY <2>7 DEF EncodeOk, f, r, e
  <1> QED
    BY <1>3, <1>4

\* What a relay may lose, whoever wrote the bytes: key 13 of a v0 map, a role
\* beyond a byte where roles are not checked, and undefined; once.
THEOREM RelayStableHolds == Spec => []RelayStable
  <1>1. RelayStable
    <2> SUFFICES ASSUME NEW p, RelayAccepts(p)
                 PROVE  LET q == Relayed(p)  m == p.map  r == q.map IN
                        /\ DOMAIN r = DOMAIN m \ (IF m["v"].n = 0 THEN {"enc_scheme"} ELSE {})
                        /\ \A k \in DOMAIN r :
                             \/ r[k] = m[k]
                             \/ /\ k = "role" /\ m["t"].n \notin {RoleAssign, RoleRevoke}
                                /\ m[k].n > U8Max /\ r[k] = Uint(U8Max)
                             \/ k \in ExtensionKeys /\ HoldsUndefined(m[k])
                        /\ Relayed(q) = q
                        /\ RelayAccepts(q) \/ (m["v"].n = 0 /\ GroupEncrypted(m))
      BY DEF RelayStable
    <2> DEFINE e == ParseCborMap(p.map)
               q == Relayed(p)
    <2>1. Readable(p) /\ WellTyped(p.map) /\ EncodeOk(e)
      BY DEF RelayAccepts, ParseOk, ParseKommsPayload, Readable
    <2>2. IsEvent(e)
      BY <2>1, ParsedIsEvent
    <2>3. \A k \in DOMAIN e : CanonicalValue(e[k])
      BY <2>1, ParsedCanonical
    <2>4. q = EncodeKommsPayload(e) /\ EncodeKommsPayload(e).map = EncodeFields(e)
      BY DEF Relayed, ParseKommsPayload, EncodeKommsPayload, EncodeCborMap
    <2>5. /\ DOMAIN q.map = DOMAIN p.map \ (IF p.map["v"].n = 0 THEN {"enc_scheme"} ELSE {})
          /\ \A k \in DOMAIN q.map :
               \/ q.map[k] = p.map[k]
               \/ /\ k = "role" /\ p.map["t"].n \notin {RoleAssign, RoleRevoke}
                  /\ p.map[k].n > U8Max /\ q.map[k] = Uint(U8Max)
               \/ k \in ExtensionKeys /\ HoldsUndefined(p.map[k])
      BY <2>1, <2>4, RelayKeeps
    <2>6. ~ (p.map["v"].n = 0 /\ GroupEncrypted(p.map)) => EncodeOk(ParseCborMap(q.map))
      BY <2>1, <2>4, RelayAgain
    <2> HIDE DEF e, q
    <2>7. Relayed(q) = q
      BY <2>2, <2>4, RelayedSame
    <2>8. Readable(q)
      BY <2>2, <2>3, <2>4, EncodedReadable
    <2>9. EncodeOk(ParseCborMap(q.map)) => RelayAccepts(q)
      BY <2>8 DEF RelayAccepts, ParseOk, ParseKommsPayload, EncodeOk
    <2> QED
      BY <2>5, <2>6, <2>7, <2>9 DEF q
  <1> QED
    BY <1>1, PTL

---------------------------------------------------------------------------
(* Signing and verifying see the same map.                                 *)

\* Leaving out two fields does not depend on the order.
LEMMA WithoutBoth ==
  ASSUME NEW ev, NEW j, NEW k
  PROVE  Without(Without(ev, j), k) = Without(Without(ev, k), j)
  BY DEF Without

\* The signed map of an event is its encoded map less key 11.
LEMMA SigningPayloadIs ==
  ASSUME NEW ev, IsEvent(ev)
  PROVE  /\ SigningPayload(ev) = Without(EncodeFields(ev), "sig")
         /\ HasAll(SigningPayload(ev), {"v", "t", "enc"})
  <1>1. Without(ev, "sig")["v"] = ev["v"]
    BY DEF IsEvent, WellTyped, HasAll, Without
  <1>2. SigningPayload(ev) = Without(EncodeFields(ev), "sig")
    <2>1. CASE ev["v"].n = 0
      BY <1>1, <2>1, WithoutBoth DEF SigningPayload, EncodeCborMap, EncodeFields
    <2>2. CASE ev["v"].n # 0
      BY <1>1, <2>2 DEF SigningPayload, EncodeCborMap, EncodeFields
    <2> QED
      BY <2>1, <2>2
  <1>3. HasAll(EncodeFields(ev), {"v", "t", "enc"})
    BY EncodeKeeps
  <1>4. HasAll(Without(EncodeFields(ev), "sig"), {"v", "t", "enc"})
    BY <1>3 DEF HasAll, Without
  <1> QED
    BY <1>2, <1>4

\* The types whose arm of validate_event asks for a signature.
SigRequired == {DeviceRegister, 16, SealedMemberLeave}

\* An event of such a type cannot be signed by signing_payload_cbor.
LEMMA SignableType ==
  ASSUME NEW ev, IsEvent(ev), SigningPayloadOk(ev)
  PROVE  ev["t"].n \notin SigRequired
  <1> DEFINE f == Without(ev, "sig")
  <1>1. f["t"] = ev["t"] /\ "sig" \notin DOMAIN f
    BY DEF IsEvent, WellTyped, HasAll, Without
  <1>2. TypeArm(f)
    BY DEF SigningPayloadOk, EncodeOk, ValidateEvent
  <1> HIDE DEF f
  <1>3. ev["t"].n \in 15 .. 16 => DeviceArm(f)
    BY <1>1, <1>2 DEF TypeArm
  <1>4. ev["t"].n \notin 15 .. 16
    BY <1>1, <1>3 DEF DeviceArm, HasAll
  <1>5. ev["t"].n = 24 => SealedArm(f)
    BY <1>1, <1>2 DEF TypeArm
  <1>6. ev["t"].n # 24
    BY <1>1, <1>5 DEF SealedArm, HasAll, SealedMemberLeave
  <1> QED
    BY <1>4, <1>6 DEF SigRequired, DeviceRegister, SealedMemberLeave

\* For the other types validation does not look at the signature.
LEMMA SigUnseen ==
  ASSUME NEW ev, HasAll(ev, {"v", "t", "enc"}),
         ev["t"].n \notin SigRequired, ValidateEvent(ev) = "ok"
  PROVE  ValidateEvent(Without(ev, "sig")) = "ok"
  <1> DEFINE f == Without(ev, "sig")
  <1>1. /\ \A k : k # "sig" => (k \in DOMAIN f <=> k \in DOMAIN ev)
        /\ \A k \in DOMAIN ev : k # "sig" => f[k] = ev[k]
    BY DEF Without
  <1> HIDE DEF f
  <1>2. f["v"] = ev["v"] /\ f["t"] = ev["t"] /\ f["enc"] = ev["enc"]
    BY <1>1 DEF HasAll
  <1>3. CommonChecks(ev) /\ TypeArm(ev) /\ ev["t"].n \in KnownTypes
    BY DEF ValidateEvent
  <1>4. /\ Scheme(f) = Scheme(ev)
        /\ GroupEncrypted(f) <=> GroupEncrypted(ev)
    BY <1>1 DEF Scheme, GroupEncrypted, Has
  <1>5. ASSUME NEW S, "sig" \notin S
        PROVE  /\ HasAll(f, S) <=> HasAll(ev, S)
               /\ HasAny(f, S) <=> HasAny(ev, S)
               /\ Lacks(f, S) <=> Lacks(ev, S)
    BY <1>1, <1>5 DEF HasAll, HasAny, Lacks
  <1>6. CommonChecks(f)
    <2>1. RefChecks(f)
      BY <1>1, <1>3 DEF CommonChecks, RefChecks, Has
    <2>2. LengthChecks(f)
      BY <1>1, <1>3 DEF CommonChecks, LengthChecks, Has
    <2>3. ~ SealedSender(f)
      BY <1>1, <1>3 DEF CommonChecks, SealedSender, Has
    <2>4. V1Checks(ev) => V1Checks(f)
      BY <1>1, <1>2, <1>4, <1>5 DEF V1Checks, Has
    <2>5. GroupChecks(ev) => GroupChecks(f)
      BY <1>2, <1>5 DEF GroupChecks
    <2> QED
      BY <1>2, <1>3, <1>4, <2>1, <2>2, <2>3, <2>4, <2>5 DEF CommonChecks
  <1>7. /\ HasSid(f) <=> HasSid(ev)
        /\ HasCid(f) <=> HasCid(ev)
        /\ HasRef(f) <=> HasRef(ev)
    BY <1>1, <1>4 DEF HasSid, HasCid, HasRef, HasOrEnc, Has
  <1>8. TypeArm(f)
    <2>1. PlaintextEncMisuse(f) <=> PlaintextEncMisuse(ev)
      BY <1>2, <1>4 DEF PlaintextEncMisuse
    <2>2. (ServerArm(ev) => ServerArm(f)) /\ (ChannelArm(ev) => ChannelArm(f))
      BY <1>5, <1>7 DEF ServerArm, ChannelArm
    <2>3. MessageArm(ev) => MessageArm(f)
      BY <1>1, <1>2, <1>7 DEF MessageArm, Has
    <2>4. DmArm(ev) => DmArm(f)
      BY <1>2, <1>5 DEF DmArm
    <2>5. ReactionArm(ev) => ReactionArm(f)
      BY <1>1, <1>5, <1>7 DEF ReactionArm, Has
    <2>6. MemberArm(ev) => MemberArm(f)
      BY <1>5 DEF MemberArm
    <2>7. RoleArm(ev) => RoleArm(f)
      BY <1>1, <1>2, <1>7 DEF RoleArm, Has
    <2>8. ev["t"].n \notin 15 .. 16
      BY DEF SigRequired, DeviceRegister
    <2>9. PinArm(ev) => PinArm(f)
      BY <1>1, <1>7 DEF PinArm, Has
    <2>10. SealedArm(ev) => SealedArm(f)
      <3>1. ev["t"].n # SealedMemberLeave
        BY DEF SigRequired
      <3>2. Has(f, "enc_t") <=> Has(ev, "enc_t")
        BY <1>1 DEF Has
      <3> QED
        BY <1>2, <1>4, <1>5, <3>1, <3>2 DEF SealedArm
    <2>11. Has(f, "mid") <=> Has(ev, "mid")
      BY <1>1 DEF Has
    <2> QED
      BY <1>2, <1>3, <1>7, <2>1, <2>2, <2>3, <2>4, <2>5, <2>6, <2>7, <2>8, <2>9,
         <2>10, <2>11 DEF TypeArm
  <1> QED
    BY <1>2, <1>3, <1>6, <1>8 DEF ValidateEvent, f

\* Signed in-crate, and still so.
SignedOK(ev) ==
  /\ HasAll(ev, {"sig", "device_pk"})
  /\ SigningPayloadOk(ev)
  /\ ev["sig"] = SigOver(ev["device_pk"], SigningPayload(ev))

\* Parsing the encoding of a signed event changes nothing the verifier looks at.
LEMMA SameSignature ==
  ASSUME NEW ev, IsEvent(ev)
  PROVE  LET q == ParseCborMap(EncodeFields(ev)) IN
         /\ IsEvent(q)
         /\ SigningPayload(q) = SigningPayload(ev)
         /\ q["t"] = ev["t"]
         /\ \A k \in {"sig", "device_pk"} :
              /\ Has(q, k) <=> Has(ev, k)
              /\ Has(q, k) => q[k] = ev[k] /\ EncodeFields(ev)[k] = ev[k]
  <1> DEFINE m == EncodeFields(ev)
             q == ParseCborMap(m)
  <1>1. WellTyped(m)
    BY ClearKeepsEvent DEF EncodeFields, IsEvent
  <1>2. IsEvent(q) /\ q["t"] = m["t"]
    BY <1>1, ParsedIsEvent
  <1>3. m["t"] = ev["t"]
    BY EncodeKeeps DEF HasAll
  <1>4. EncodeFields(q) = m
    BY EncodeParseEncode
  <1>5. SigningPayload(q) = SigningPayload(ev)
    <2> HIDE DEF m, q
    <2>1. SigningPayload(q) = Without(EncodeFields(q), "sig")
      BY <1>2, SigningPayloadIs
    <2>2. SigningPayload(ev) = Without(m, "sig")
      BY SigningPayloadIs DEF m
    <2> QED
      BY <1>4, <2>1, <2>2
  <1>6. ASSUME NEW k \in {"sig", "device_pk"}
        PROVE  /\ Has(q, k) <=> Has(ev, k)
               /\ Has(q, k) => q[k] = ev[k] /\ m[k] = ev[k]
    <2>1. DOMAIN q = DOMAIN m \cup (IF ev["v"].n = 0 THEN {"enc_scheme"} ELSE {})
      BY ParseEncoded
    <2>2. (k \in DOMAIN m => q[k] = m[k]) /\ (k \in DOMAIN m => m[k] = ev[k])
      <3>1. \A j \in DOMAIN m : q[j] = m[j]
        BY ParseEncoded
      <3>2. \A j \in DOMAIN m : m[j] = ev[j]
        BY EncodeKeeps
      <3> HIDE DEF m, q
      <3> QED
        BY <3>1, <3>2
    <2>3. k \in DOMAIN m <=> k \in DOMAIN ev
      BY <1>6 DEF EncodeFields, Without
    <2> HIDE DEF m, q
    <2> QED
      BY <1>6, <2>1, <2>2, <2>3 DEF Has
  <1> QED
    BY <1>2, <1>3, <1>5, <1>6

\* A signature the client made covers an event's map; any other does not.
Vouched(ev) ==
  Has(ev, "sig") /\ HasAll(ev["sig"].c[2], {"v", "t", "enc"}) =>
    ev["sig"].c \in signed

\* What the posted records say, apart from the signatures.
LEMMA PostedBytes ==
  ASSUME TypeOK, NEW p \in posted
  PROVE  IsEvent(p.ev) /\ p.payload.map = EncodeFields(p.ev)
  <1>1. IsEvent(p.ev) /\ p.payload = EncodeKommsPayload(p.ev)
    BY DEF TypeOK, PostedOK
  <1>2. EncodeKommsPayload(p.ev).map = EncodeFields(p.ev)
    BY DEF EncodeKommsPayload, EncodeCborMap
  <1> QED
    BY <1>1, <1>2

\* What is kept about signatures on the way from the draft to the rows.
SignaturesInv ==
  /\ fresh => SignedOK(draft)
  /\ Vouched(draft)
  /\ \A p \in posted : (p.fresh => SignedOK(p.ev)) /\ Vouched(p.ev)

RowsInv ==
  \A r \in rows :
    LET q == ParseCborMap(r.raw) IN
    /\ r.from = Client => \E p \in posted : p.payload.map = r.raw
    /\ r.class = "Known" => ValidateEvent(q) = "ok" /\ r.auth = Authenticity(q)
    /\ r.class # "Known" => r.auth = "unverified"

\* Signing makes a signature that covers the event it is put into.
LEMMA SignSigns ==
  ASSUME NEW ev, IsEvent(ev), InBand(ev), SigningPayloadOk(ev)
  PROVE  LET f == Assign(ev, [sig |-> SigOver(ev["device_pk"], SigningPayload(ev))])
         IN  /\ SignedOK(f)
             /\ f["sig"].c = <<ev["device_pk"], SigningPayload(ev)>>
  <1> DEFINE s == SigOver(ev["device_pk"], SigningPayload(ev))
             o == [sig |-> s]
             f == Assign(ev, o)
  <1>1. DOMAIN o = {"sig"} /\ o["sig"] = s
    OBVIOUS
  <1>2. s.c = <<ev["device_pk"], SigningPayload(ev)>>
    BY DEF SigOver, Bytes
  <1> HIDE DEF o
  <1>3. /\ DOMAIN f = DOMAIN ev \cup {"sig"}
        /\ f["sig"] = s
        /\ \A x \in DOMAIN ev : x # "sig" => f[x] = ev[x]
    BY <1>1 DEF Assign
  <1> HIDE DEF f, s
  <1>4. Without(f, "sig") = Without(ev, "sig")
    <2>1. DOMAIN f \ {"sig"} = DOMAIN ev \ {"sig"}
      BY <1>3
    <2> QED
      BY <1>3, <2>1 DEF Without
  <1>5. f["device_pk"] = ev["device_pk"] /\ HasAll(f, {"sig", "device_pk"})
    BY <1>3 DEF InBand, Has, HasAll
  <1>6. SigningPayloadOk(f) /\ SigningPayload(f) = SigningPayload(ev)
    BY <1>4 DEF SigningPayloadOk, SigningPayload
  <1>7. SignedOK(f)
    BY <1>3, <1>5, <1>6 DEF SignedOK, s
  <1> QED
    BY <1>2, <1>3, <1>7 DEF f, s, o

LEMMA SignaturesStep ==
  ASSUME TypeOK, SignaturesInv, [Next]_vars
  PROVE  SignaturesInv'
  <1>1. ASSUME NEW o \in Overlays, Edit(o)
        PROVE  SignaturesInv'
    <2>1. Vouched(draft)'
      <3>1. signed' = signed /\ draft' = Assign(draft, o)
        BY <1>1 DEF Edit
      <3>2. CASE Has(o, "sig")
        <4>1. draft'["sig"] = o["sig"]
          BY <3>1, <3>2 DEF Assign, Has
        <4> QED
          BY <3>2, <4>1, SignatureAssumption DEF Vouched
      <3>3. CASE ~ Has(o, "sig")
        <4>1. /\ Has(draft', "sig") <=> Has(draft, "sig")
              /\ Has(draft, "sig") => draft'["sig"] = draft["sig"]
          BY <3>1, <3>3 DEF Assign, Has
        <4> QED
          BY <3>1, <4>1 DEF Vouched, SignaturesInv
      <3> QED
        BY <3>2, <3>3
    <2>2. ~ fresh' /\ posted' = posted /\ signed' = signed
      BY <1>1 DEF Edit
    <2> QED
      BY <2>1, <2>2 DEF SignaturesInv, Vouched
  <1>2. ASSUME NEW k \in Clearable, Clear(k)
        PROVE  SignaturesInv'
    <2>1. ~ fresh' /\ posted' = posted /\ signed' = signed /\ draft' = Without(draft, k)
      BY <1>2 DEF Clear
    <2>2. Has(draft', "sig") => Has(draft, "sig") /\ draft'["sig"] = draft["sig"]
      BY <2>1 DEF Without, Has
    <2>3. Vouched(draft)'
      BY <2>1, <2>2 DEF Vouched, SignaturesInv
    <2> QED
      BY <2>1, <2>3 DEF SignaturesInv, Vouched
  <1>3. CASE Sign
    <2> DEFINE pair == <<draft["device_pk"], SigningPayload(draft)>>
    <2>1. /\ InBand(draft) /\ SigningPayloadOk(draft)
          /\ draft' = Assign(draft, [sig |-> SigOver(draft["device_pk"], SigningPayload(draft))])
          /\ signed' = signed \cup {pair} /\ posted' = posted
      BY <1>3 DEF Sign
    <2>2. SignedOK(draft') /\ draft'["sig"].c = pair
      BY <2>1, SignSigns DEF TypeOK, DraftOK
    <2> HIDE DEF pair
    <2>3. Vouched(draft)'
      BY <2>1, <2>2 DEF Vouched
    <2>4. \A p \in posted : Vouched(p.ev)'
      BY <2>1 DEF Vouched, SignaturesInv
    <2> QED
      BY <2>1, <2>2, <2>3, <2>4 DEF SignaturesInv
  <1>4. CASE Post
    <2> DEFINE new == [ev |-> draft, payload |-> EncodeKommsPayload(draft),
                       fresh |-> fresh]
    <2>1. new.ev = draft /\ new.fresh = fresh
      OBVIOUS
    <2>2. /\ posted' = posted \cup {new}
          /\ draft' = draft /\ fresh' = fresh /\ signed' = signed
      BY <1>4 DEF Post
    <2> HIDE DEF new
    <2>3. (fresh => SignedOK(draft)) /\ Vouched(draft)
      BY DEF SignaturesInv
    <2>4. \A p \in posted' : (p.fresh => SignedOK(p.ev)) /\ Vouched(p.ev)
      BY <2>1, <2>2, <2>3 DEF SignaturesInv
    <2> QED
      BY <2>2, <2>3, <2>4 DEF SignaturesInv, Vouched
  <1>5. CASE UNCHANGED <<draft, fresh, signed, posted>>
    BY <1>5 DEF SignaturesInv, Vouched
  <1> QED
    <2>1. CASE Next
      BY <2>1, <1>1, <1>2, <1>3, <1>4, <1>5 DEF Next, ForeignPost, Relay, Publish, Index
    <2> QED
      BY <2>1, <1>5 DEF vars

LEMMA RowsStep ==
  ASSUME TypeOK, RelayIntegrity, RowsInv, [Next]_vars
  PROVE  RowsInv'
  <1>1. posted \subseteq posted'
    BY DEF Next, vars, Edit, Clear, Sign, Post, ForeignPost, Relay, Publish, Index
  <1>2. ASSUME NEW c \in chain, Index(c)
        PROVE  RowsInv'
    <2> DEFINE q == ParseCborMap(c.payload.map)
               class == ParseWithFuture(c.payload)
               row == [from |-> c.from, raw |-> c.payload.map, class |-> class,
                       auth |-> IF class = "Known" THEN Authenticity(q) ELSE "unverified"]
    <2>1. rows' = rows \cup {row} /\ posted' = posted
      BY <1>2 DEF Index, ParseKommsPayload
    <2>2. row.from = Client => \E p \in posted : p.payload = c.payload
      BY DEF RelayIntegrity
    <2>3. class = "Known" => ValidateEvent(q) = "ok"
      BY DEF ParseWithFuture
    <2>4. /\ row.raw = c.payload.map /\ row.class = class
          /\ row.auth = IF class = "Known" THEN Authenticity(q) ELSE "unverified"
      OBVIOUS
    <2> HIDE DEF row, class
    <2>5. \A r \in rows \cup {row} :
            /\ r.from = Client => \E p \in posted : p.payload.map = r.raw
            /\ r.class = "Known" => /\ ValidateEvent(ParseCborMap(r.raw)) = "ok"
                                    /\ r.auth = Authenticity(ParseCborMap(r.raw))
            /\ r.class # "Known" => r.auth = "unverified"
      BY <2>2, <2>3, <2>4 DEF RowsInv
    <2> QED
      BY <2>1, <2>5 DEF RowsInv
  <1>3. CASE UNCHANGED rows
    BY <1>1, <1>3 DEF RowsInv
  <1> QED
    <2>1. CASE Next
      BY <2>1, <1>2, <1>3 DEF Next, Edit, Clear, Sign, Post, ForeignPost, Relay, Publish
    <2> QED
      BY <2>1, <1>3 DEF vars

LEMMA SignaturesHold == Spec => [](TypeOK /\ SignaturesInv /\ RowsInv)
  <1>1. Init => SignaturesInv /\ RowsInv
    BY SignatureAssumption DEF Init, SignaturesInv, RowsInv, Vouched
  <1>2. TypeOK /\ RelayIntegrity /\ SignaturesInv /\ RowsInv /\ [Next]_vars
          => SignaturesInv' /\ RowsInv'
    BY SignaturesStep, RowsStep
  <1> QED
    BY <1>1, <1>2, TypeCorrect, RelayIntegrityHolds, PTL DEF Spec

\* What was signed in-crate and not edited since verifies at the indexer.
THEOREM FreshVerifiesHolds == Spec => []FreshVerifies
  <1>1. TypeOK /\ SignaturesInv /\ RowsInv => FreshVerifies
    <2> SUFFICES ASSUME TypeOK, SignaturesInv, RowsInv,
                        NEW r \in rows, r.class = "Known",
                        NEW p \in posted, p.fresh, p.payload.map = r.raw
                 PROVE  r.auth = "verified"
      BY DEF FreshVerifies
    <2> DEFINE ev == p.ev
               q == ParseCborMap(r.raw)
    <2>1. IsEvent(ev) /\ SignedOK(ev) /\ r.raw = EncodeFields(ev)
      BY PostedBytes DEF SignaturesInv
    <2>2. ValidateEvent(q) = "ok" /\ r.auth = Authenticity(q)
      BY DEF RowsInv
    <2> HIDE DEF ev
    <2>3. /\ IsEvent(q) /\ SigningPayload(q) = SigningPayload(ev) /\ q["t"] = ev["t"]
          /\ HasAll(q, {"sig", "device_pk"})
          /\ q["sig"] = ev["sig"] /\ q["device_pk"] = ev["device_pk"]
      BY <2>1, SameSignature DEF SignedOK, HasAll, Has
    <2> HIDE DEF q
    <2>4. q["t"].n \notin SigRequired
      BY <2>1, <2>3, SignableType DEF SignedOK
    <2>5. SigningPayloadOk(q)
      BY <2>2, <2>3, <2>4, SigUnseen DEF SigningPayloadOk, EncodeOk, IsEvent, WellTyped
    <2>6. VerifyEvent(q, q["device_pk"]) = "Ok"
      BY <2>1, <2>3, <2>5 DEF VerifyEvent, Has, HasAll, SignedOK
    <2> QED
      BY <2>2, <2>3, <2>6 DEF Authenticity, InBand, Has, HasAll
  <1> QED
    BY <1>1, SignaturesHold, PTL

\* A client's row verifies only over a map the named key really signed.
THEOREM OnlySignedVerifiesHolds == Spec => []OnlySignedVerifies
  <1>1. TypeOK /\ SignaturesInv /\ RowsInv => OnlySignedVerifies
    <2> SUFFICES ASSUME TypeOK, SignaturesInv, RowsInv,
                        NEW r \in rows, r.from = Client, r.auth = "verified"
                 PROVE  <<r.raw["device_pk"], Without(r.raw, "sig")>> \in signed
      BY DEF OnlySignedVerifies
    <2> DEFINE q == ParseCborMap(r.raw)
    <2>1. PICK p \in posted : p.payload.map = r.raw
      BY DEF RowsInv
    <2> DEFINE ev == p.ev
    <2>2. IsEvent(ev) /\ Vouched(ev) /\ r.raw = EncodeFields(ev)
      BY <2>1, PostedBytes DEF SignaturesInv
    <2>3. Authenticity(q) = "verified"
      BY DEF RowsInv
    <2> HIDE DEF ev
    <2>4. /\ SigningPayload(q) = SigningPayload(ev)
          /\ \A k \in {"sig", "device_pk"} :
               /\ Has(q, k) <=> Has(ev, k)
               /\ Has(q, k) => q[k] = ev[k] /\ r.raw[k] = ev[k]
      BY <2>2, SameSignature
    <2> HIDE DEF q
    <2>5. /\ Has(q, "sig") /\ Has(q, "device_pk")
          /\ q["sig"] = SigOver(q["device_pk"], SigningPayload(q))
      BY <2>3 DEF Authenticity, InBand, VerifyEvent
    <2>6. /\ ev["sig"] = SigOver(r.raw["device_pk"], SigningPayload(ev))
          /\ Has(ev, "sig")
      BY <2>4, <2>5
    <2>7. ev["sig"].c = <<r.raw["device_pk"], SigningPayload(ev)>>
      BY <2>6 DEF SigOver, Bytes
    <2>8. /\ SigningPayload(ev) = Without(r.raw, "sig")
          /\ HasAll(SigningPayload(ev), {"v", "t", "enc"})
      BY <2>2, SigningPayloadIs
    <2> QED
      BY <2>2, <2>6, <2>7, <2>8 DEF Vouched
  <1> QED
    BY <1>1, SignaturesHold, PTL
=============================================================================
