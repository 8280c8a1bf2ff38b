--------------------------- MODULE CliPostProofs ----------------------------
(***************************************************************************)
(* What `komms post` prints and `komms decode` reads back, for every set   *)
(* of subcommands, option values and keys.                                 *)
(***************************************************************************)
EXTENDS CliPost, TLAPS

---------------------------------------------------------------------------
(* The tables of subcommands.                                              *)

IdKeys == {"sid", "cid", "did", "mid", "pid"}

\* A row of the tables, for a type below the device registrations.
RowOK(s) ==
  /\ s.t \in 0 .. 14
  /\ s.needs \cup s.may \subseteq IdKeys
  /\ s.refs \subseteq AnyRef

LEMMA ServerRows ==
  \A c \in DOMAIN ServerPosts :
    RowOK(ServerPosts[c]) /\ ServerPosts[c].t = TypeNumber[c]
  BY DEF ServerPosts, RowOK, Subcommand, IdKeys, AnyRef, HexRef, TypeNumber

LEMMA MessageRows ==
  \A c \in DOMAIN MessagePosts :
    RowOK(MessagePosts[c]) /\ MessagePosts[c].t = TypeNumber[c]
  BY DEF MessagePosts, RowOK, Subcommand, IdKeys, AnyRef, HexRef, TypeNumber

LEMMA MemberRows ==
  \A c \in DOMAIN MemberPosts :
    RowOK(MemberPosts[c]) /\ MemberPosts[c].t = TypeNumber[c]
  BY DEF MemberPosts, RowOK, Subcommand, IdKeys, AnyRef, HexRef, TypeNumber

\* Only membership commands compute a participant id, and they copy none.
LEMMA CommandRow ==
  ASSUME NEW c \in Commands
  PROVE  /\ RowOK(PostCmd[c])
         /\ PostCmd[c].t = TypeNumber[c]
         /\ c \in Membership => "pid" \notin PostCmd[c].needs \cup PostCmd[c].may
  <1>1. c \in DOMAIN PostCmd
    BY OptionValuesAssumption
  <1>2. RowOK(PostCmd[c]) /\ PostCmd[c].t = TypeNumber[c]
    BY <1>1, ServerRows, MessageRows, MemberRows DEF PostCmd
  <1>3. ASSUME c \in Membership
        PROVE  "pid" \notin PostCmd[c].needs \cup PostCmd[c].may
    <2>1. /\ DOMAIN MemberPosts = {"member_join", "member_leave", "role_assign",
                                   "role_revoke", "moderation_action"}
          /\ "member_join" \notin DOMAIN ServerPosts \cup DOMAIN MessagePosts
          /\ "member_leave" \notin DOMAIN ServerPosts \cup DOMAIN MessagePosts
      BY DEF ServerPosts, MessagePosts, MemberPosts
    <2>2. PostCmd[c] = MemberPosts[c]
      BY <1>1, <1>3, <2>1 DEF PostCmd, Membership
    <2>3. MemberPosts[c].needs = {"sid"} /\ MemberPosts[c].may = {}
      BY <1>3 DEF MemberPosts, Membership, Subcommand
    <2> QED
      BY <2>2, <2>3
  <1> QED
    BY <1>2, <1>3

\* A command copies ids, the meta options and nothing else.
LEMMA FieldsAre ==
  ASSUME NEW c \in Commands
  PROVE  /\ Fields(c) \subseteq IdKeys \cup Meta
         /\ c \in Membership => "pid" \notin Fields(c)
         /\ Fields(c) \cap {"v", "t", "enc", "ref", "enc_scheme"} = {}
  <1>1. Fields(c) \subseteq IdKeys \cup Meta
    BY CommandRow DEF RowOK, Fields
  <1>2. (IdKeys \cup Meta) \cap {"v", "t", "enc", "ref", "enc_scheme"} = {}
    BY DEF IdKeys, Meta
  <1> QED
    BY <1>1, <1>2, CommandRow DEF Fields, Meta

---------------------------------------------------------------------------
(* The event a command builds.                                             *)

IsMap(f) == f = [k \in DOMAIN f |-> f[k]]

OneRef(c, o) == \A x, y \in RefGiven(c, o) : x = y

\* What the event of a command says, if at most one option spells its ref.
Says(ev, c, o) ==
  /\ IsMap(ev)
  /\ DOMAIN ev = {"v", "t", "enc"} \cup (Fields(c) \cap DOMAIN o)
                   \cup (IF RefGiven(c, o) = {} THEN {} ELSE {"ref"})
                   \cup (IF c \in Membership THEN {"pid"} ELSE {})
  /\ ev["v"] = Uint(0) /\ ev["t"] = Uint(PostCmd[c].t)
  /\ ev["enc"] = Bool(c = "dm_message_post")
  /\ \A k \in Fields(c) \cap DOMAIN o : ev[k] = o[k]
  /\ \A k \in RefGiven(c, o) : ev["ref"] = RefFromOpt(k, o[k])
  /\ c \in Membership => ev["pid"] = ParticipantId(o["member_address"])

LEMMA EventSays ==
  ASSUME NEW c \in Commands, NEW o, OneRef(c, o)
  PROVE  Says(PostEvent(c, o), c, o)
  <1> DEFINE S == {"v", "t", "enc"} \cup (Fields(c) \cap DOMAIN o)
             e0 == [k \in S |-> CASE k = "v" -> Uint(0)
                                  [] k = "t" -> Uint(PostCmd[c].t)
                                  [] k = "enc" -> Bool(c = "dm_message_post")
                                  [] OTHER -> o[k]]
             e1 == PatchRef(c, o, e0)
             e2 == PatchPid(c, o, e1)
  <1>1. PostEvent(c, o) = e2
    BY DEF PostEvent, BuildPostEv, EventWith
  <1>2. /\ IsMap(e0) /\ DOMAIN e0 = S
        /\ e0["v"] = Uint(0) /\ e0["t"] = Uint(PostCmd[c].t)
        /\ e0["enc"] = Bool(c = "dm_message_post")
        /\ \A k \in Fields(c) \cap DOMAIN o : e0[k] = o[k]
    BY FieldsAre DEF IsMap
  <1> HIDE DEF e0
  <1>3. /\ IsMap(e1)
        /\ DOMAIN e1 = S \cup (IF RefGiven(c, o) = {} THEN {} ELSE {"ref"})
        /\ \A k \in S : e1[k] = e0[k]
        /\ \A k \in RefGiven(c, o) : e1["ref"] = RefFromOpt(k, o[k])
    <2>1. CASE RefGiven(c, o) = {}
      <3>1. e1 = e0
        BY <2>1 DEF PatchRef
      <3> QED
        BY <1>2, <2>1, <3>1
    <2>2. CASE RefGiven(c, o) # {}
      <3>1. PICK x \in RefGiven(c, o) : x = CHOOSE y \in RefGiven(c, o) : TRUE
        BY <2>2
      <3>2. e1 = With(e0, "ref", RefFromOpt(x, o[x]))
        BY <2>2, <3>1 DEF PatchRef
      <3>3. \A k \in RefGiven(c, o) : k = x
        BY <3>1 DEF OneRef
      <3>4. "ref" \notin S
        BY FieldsAre
      <3> HIDE DEF e1, S
      <3>5. /\ IsMap(e1)
            /\ DOMAIN e1 = DOMAIN e0 \cup {"ref"}
            /\ e1["ref"] = RefFromOpt(x, o[x])
            /\ \A y \in DOMAIN e0 : y # "ref" => e1[y] = e0[y]
        BY ONLY <3>2 DEF With, IsMap
      <3> QED
        BY <1>2, <2>2, <3>3, <3>4, <3>5
    <2> QED
      BY <2>1, <2>2
  <1> HIDE DEF e1
  <1>4. /\ IsMap(e2)
        /\ DOMAIN e2 = DOMAIN e1 \cup (IF c \in Membership THEN {"pid"} ELSE {})
        /\ \A k \in S : e2[k] = e1[k]
        /\ RefGiven(c, o) # {} => e2["ref"] = e1["ref"]
        /\ c \in Membership => e2["pid"] = ParticipantId(o["member_address"])
    <2>1. CASE c \in Membership
      <3>1. e2 = With(e1, "pid", ParticipantId(o["member_address"]))
        BY <2>1 DEF PatchPid
      <3>2. "pid" \notin S
        BY <2>1, FieldsAre
      <3> HIDE DEF e2, S
      <3>3. /\ IsMap(e2)
            /\ DOMAIN e2 = DOMAIN e1 \cup {"pid"}
            /\ e2["pid"] = ParticipantId(o["member_address"])
            /\ \A y \in DOMAIN e1 : y # "pid" => e2[y] = e1[y]
        BY ONLY <3>1 DEF With, IsMap
      <3>4. /\ \A k \in S : e2[k] = e1[k]
            /\ RefGiven(c, o) # {} => e2["ref"] = e1["ref"]
        BY <1>3, <3>2, <3>3
      <3> QED
        BY <2>1, <3>3, <3>4
    <2>2. CASE c \notin Membership
      <3>1. e2 = e1
        BY <2>2 DEF PatchPid
      <3> QED
        BY <1>3, <2>2, <3>1
    <2> QED
      BY <2>1, <2>2
  <1> HIDE DEF e2
  <1> QED
    BY <1>1, <1>2, <1>3, <1>4 DEF Says

---------------------------------------------------------------------------
(* The values in it.                                                       *)

\* Options a user may have given to a command, with the signatures made so far.
Fit(o, c, S) ==
  /\ DOMAIN o \subseteq OptionsOf(c)
  /\ \A k \in DOMAIN o : k # "sig" => o[k] \in OptionValues[k]
  /\ Has(o, "sig") => \E s \in S : o["sig"] = SigOver(s[1], s[2])

LEMMA GivenValue ==
  ASSUME NEW c \in Commands, NEW o, NEW S, Fit(o, c, S),
         NEW k \in DOMAIN o, k # "sig", o[k] # Malformed
  PROVE  IF k \in {"ts", "n"} THEN IsUint(o[k]) /\ o[k].n \in Nat
         ELSE IF k \in {"cid_str", "member_address"} THEN o[k].major = "text"
         ELSE IsBytes(o[k])
  <1>1. k \in DOMAIN OptionValues
    BY OptionValuesAssumption DEF Fit
  <1>2. o[k] \in OptionValues[k]
    BY DEF Fit
  <1> QED
    BY <1>1, <1>2, OptionValuesAssumption

\* The value of a key is what parse_cbor_map takes under it.
Typed(k, x) ==
  /\ x.major \in {"uint", "bytes", "bool"}
  /\ k \in UintKeys => IsUint(x) /\ x.n \in Nat
  /\ k \in Bytes32Keys => IsBytesOf(x, 32)
  /\ k \in Bytes16Keys => IsBytesOf(x, 16)
  /\ k \in BytesKeys => IsBytes(x)
  /\ k = "sig" => IsBytesOf(x, 64)
  /\ k = "enc" => x.major = "bool" /\ x.b \in BOOLEAN
  /\ k = "mime" => x.major = "text"

LEMMA CopiedTyped ==
  ASSUME NEW c \in Commands, NEW o, NEW S, Fit(o, c, S), BuildOk(c, o),
         NEW k \in Fields(c) \cap DOMAIN o
  PROVE  Typed(k, o[k])
  <1>1. k \in IdKeys \cup Meta
    BY FieldsAre
  <1>2. /\ o[k] # Malformed
        /\ k \in Bytes32Keys => IsBytesOf(o[k], 32)
        /\ k = "sig" => IsBytesOf(o[k], 64)
    BY DEF BuildOk
  <1>3. CASE k \in IdKeys \cup {"sig"}
    BY <1>2, <1>3
    DEF Typed, IdKeys, Bytes32Keys, IsBytesOf, IsBytes, UintKeys, Bytes16Keys, BytesKeys
  <1>4. CASE k \in {"ts", "n"}
    <2>1. IsUint(o[k]) /\ o[k].n \in Nat
      BY <1>2, <1>4, GivenValue
    <2> QED
      BY <1>4, <2>1 DEF Typed, Bytes32Keys, IsUint, Bytes16Keys, BytesKeys
  <1> QED
    BY <1>1, <1>3, <1>4 DEF Meta

LEMMA RefTyped ==
  ASSUME NEW c \in Commands, NEW o, NEW S, Fit(o, c, S), RefOk(c, o),
         NEW k \in RefGiven(c, o)
  PROVE  Typed("ref", RefFromOpt(k, o[k]))
  <1>1. k \in AnyRef /\ k \in DOMAIN o /\ o[k] # Malformed
    BY CommandRow DEF RowOK, RefGiven, RefOk
  <1>2. IsBytes(RefFromOpt(k, o[k]))
    <2>1. CASE k = "ref_hex"
      BY <1>1, <2>1, GivenValue DEF RefFromOpt
    <2>2. CASE k # "ref_hex"
      BY <1>1, <2>2 DEF RefFromOpt, AnyRef, Bytes, IsBytes
    <2> QED
      BY <2>1, <2>2
  <1> QED
    BY <1>2 DEF Typed, IsBytes, UintKeys, Bytes32Keys, Bytes16Keys

LEMMA BoolTyped ==
  ASSUME NEW b \in BOOLEAN
  PROVE  Bool(b).b = b /\ Typed("enc", Bool(b))
  <1>1. Bool(b).major = "bool" /\ Bool(b).b = b
    BY DEF Bool
  <1> QED
    BY <1>1 DEF Typed, UintKeys, Bytes32Keys, Bytes16Keys, BytesKeys

\* Every printed event is a v0 event the parser takes field by field.
LEMMA EventTyped ==
  ASSUME NEW c \in Commands, NEW o, NEW S, Fit(o, c, S), PostOk(c, o)
  PROVE  LET ev == PostEvent(c, o) IN
         /\ Says(ev, c, o)
         /\ \A k \in DOMAIN ev : Typed(k, ev[k])
  <1> DEFINE ev == PostEvent(c, o)
  <1>1. BuildOk(c, o) /\ RefOk(c, o)
    BY DEF PostOk, BuildOk
  <1>2. Says(ev, c, o)
    BY <1>1, EventSays DEF RefOk, OneRef
  <1> HIDE DEF ev
  <1>3. ASSUME NEW k \in DOMAIN ev PROVE Typed(k, ev[k])
    <2>1. CASE k \in {"v", "t"}
      <3>1. PostCmd[c].t \in Nat
        BY CommandRow DEF RowOK
      <3> QED
        BY <1>2, <2>1, <3>1
        DEF Says, Typed, Uint, IsUint, Bytes32Keys, Bytes16Keys, BytesKeys
    <2>5. CASE k = "enc"
      <3>1. (c = "dm_message_post") \in BOOLEAN
        OBVIOUS
      <3> QED
        BY <1>2, <2>5, <3>1, BoolTyped DEF Says
    <2>2. CASE k \in Fields(c) \cap DOMAIN o
      BY <1>1, <1>2, <2>2, CopiedTyped DEF Says
    <2>3. CASE k = "ref" /\ RefGiven(c, o) # {}
      BY <1>1, <1>2, <2>3, RefTyped DEF Says
    <2>4. CASE k = "pid" /\ c \in Membership
      BY <1>2, <2>4
      DEF Says, ParticipantId, Bytes, Typed, IsBytes, IsBytesOf, UintKeys, Bytes16Keys,
          BytesKeys
    <2> QED
      BY <1>2, <2>1, <2>2, <2>3, <2>4, <2>5 DEF Says
  <1> QED
    BY <1>2, <1>3 DEF ev

---------------------------------------------------------------------------
(* What the codec makes of it.                                             *)

\* The events `komms post` builds: v0, of a type that needs no signature.
Plain(ev) ==
  /\ IsMap(ev)
  /\ HasAll(ev, {"v", "t", "enc"})
  /\ DOMAIN ev \subseteq {"v", "t", "enc", "ref"} \cup IdKeys \cup Meta
  /\ ev["v"].n = 0 /\ ev["t"].n \in 0 .. 14
  /\ \A k \in DOMAIN ev : Typed(k, ev[k])

LEMMA EventPlain ==
  ASSUME NEW c \in Commands, NEW o, NEW S, Fit(o, c, S), PostOk(c, o)
  PROVE  Plain(PostEvent(c, o))
  <1> DEFINE ev == PostEvent(c, o)
  <1>1. Says(ev, c, o) /\ \A k \in DOMAIN ev : Typed(k, ev[k])
    BY EventTyped
  <1> HIDE DEF ev
  <1>2. DOMAIN ev \subseteq {"v", "t", "enc", "ref"} \cup IdKeys \cup Meta
    BY <1>1, FieldsAre DEF Says, IdKeys
  <1>3. ev["v"].n = 0 /\ ev["t"].n \in 0 .. 14
    BY <1>1, CommandRow DEF Says, Uint, RowOK
  <1>4. Plain(ev)
    BY <1>1, <1>2, <1>3 DEF Plain, Says, HasAll
  <1> QED
    BY <1>4 DEF ev

LEMMA PlainWellTyped ==
  ASSUME NEW ev, Plain(ev)
  PROVE  /\ WellTyped(ev)
         /\ \A k \in DOMAIN ev : CanonicalValue(ev[k])
         /\ EncodeFields(ev) = ev
  <1>1. DOMAIN ev \subseteq CoreKeys
    BY DEF Plain, CoreKeys, IdKeys, Meta, UintKeys, Bytes32Keys, BytesKeys
  <1>2. ev["t"].n <= U8Max
    BY DEF Plain, U8Max
  <1>3. \A k \in DOMAIN ev : Decodes(ev[k])
    BY DEF Plain, Typed, Decodes
  <1>4. WellTyped(ev)
    BY <1>1, <1>2, <1>3 DEF Plain, WellTyped, Typed, IsMap
  <1>5. \A k \in DOMAIN ev : CanonicalValue(ev[k])
    BY DEF Plain, Typed, CanonicalValue
  <1>6. EncodeFields(ev) = ev
    <2>1. "enc_scheme" \notin DOMAIN ev
      BY DEF Plain, IdKeys, Meta
    <2>2. Without(ev, "enc_scheme") = ev
      BY <2>1 DEF Without, Plain, IsMap
    <2> QED
      BY <2>2 DEF EncodeFields, Plain
  <1> QED
    BY <1>4, <1>5, <1>6

\* Parsing adds the scheme that `enc` stands for and changes nothing.
LEMMA PlainParsed ==
  ASSUME NEW ev, Plain(ev)
  PROVE  LET q == ParseCborMap(ev) IN
         /\ DOMAIN q = DOMAIN ev \cup {"enc_scheme"}
         /\ \A k \in DOMAIN ev : q[k] = ev[k]
         /\ q["enc_scheme"] = SynthScheme(ev)
         /\ q["enc_scheme"].n \in {0, 1}
  <1>1. ev["v"].n = 0 /\ "enc_scheme" \notin DOMAIN ev /\ "role" \notin DOMAIN ev
    BY DEF Plain, IdKeys, Meta
  <1>2. SynthScheme(ev).n \in {0, 1}
    BY DEF SynthScheme, Uint
  <1>3. \A k \in DOMAIN ev : ReadValue(ev[k]) = ev[k]
    BY DEF Plain, Typed, ReadValue, HoldsUndefined
  <1> QED
    BY <1>1, <1>2, <1>3 DEF ParseCborMap

\* Validation of such an event sees neither its signature nor a scheme without
\* group encryption.
LEMMA Unseen ==
  ASSUME NEW ev, NEW f,
         \A k : k \notin {"sig", "enc_scheme"} => (k \in DOMAIN f <=> k \in DOMAIN ev),
         \A k \in DOMAIN ev : k \notin {"sig", "enc_scheme"} => f[k] = ev[k],
         HasAll(ev, {"v", "t", "enc"}), ev["v"].n = 0, ev["t"].n \in 0 .. 14,
         ~ GroupEncrypted(ev), ~ GroupEncrypted(f),
         ValidateEvent(ev) = "ok"
  PROVE  ValidateEvent(f) = "ok"
  <1>1. f["v"] = ev["v"] /\ f["t"] = ev["t"] /\ f["enc"] = ev["enc"]
    BY DEF HasAll
  <1>2. CommonChecks(ev) /\ TypeArm(ev) /\ ev["t"].n \in KnownTypes
    BY DEF ValidateEvent
  <1>3. CommonChecks(f)
    <2>1. RefChecks(f)
      BY <1>2 DEF CommonChecks, RefChecks, Has
    <2>2. LengthChecks(f)
      BY <1>2 DEF CommonChecks, LengthChecks, Has
    <2>3. ~ SealedSender(f)
      BY <1>2 DEF CommonChecks, SealedSender, Has
    <2> QED
      BY <1>1, <1>2, <2>1, <2>2, <2>3 DEF CommonChecks
  <1>4. /\ HasSid(f) <=> HasSid(ev)
        /\ HasCid(f) <=> HasCid(ev)
        /\ HasRef(f) <=> HasRef(ev)
    BY DEF HasSid, HasCid, HasRef, HasOrEnc, Has
  <1>5. ASSUME NEW S, S \cap {"sig", "enc_scheme"} = {}
        PROVE  /\ HasAll(f, S) <=> HasAll(ev, S)
               /\ HasAny(f, S) <=> HasAny(ev, S)
               /\ Lacks(f, S) <=> Lacks(ev, S)
    BY <1>5 DEF HasAll, HasAny, Lacks
  <1>6. TypeArm(f)
    <2>1. PlaintextEncMisuse(f) <=> PlaintextEncMisuse(ev)
      BY <1>1 DEF PlaintextEncMisuse
    <2>2. (ServerArm(ev) => ServerArm(f)) /\ (ChannelArm(ev) => ChannelArm(f))
      BY <1>4, <1>5 DEF ServerArm, ChannelArm
    <2>3. MessageArm(ev) => MessageArm(f)
      BY <1>1, <1>4 DEF MessageArm, Has
    <2>4. DmArm(ev) => DmArm(f)
      BY <1>1, <1>5 DEF DmArm
    <2>5. ReactionArm(ev) => ReactionArm(f)
      BY <1>4, <1>5 DEF ReactionArm, Has
    <2>6. MemberArm(ev) => MemberArm(f)
      BY <1>5 DEF MemberArm
    <2>7. RoleArm(ev) => RoleArm(f)
      BY <1>1, <1>4 DEF RoleArm, Has
    <2> QED
      BY <1>1, <1>2, <1>4, <2>1, <2>2, <2>3, <2>4, <2>5, <2>6, <2>7 DEF TypeArm
  <1> QED
    BY <1>1, <1>2, <1>3, <1>6 DEF ValidateEvent

\* A printed payload is read strictly, and `decode` can rebuild what was signed.
LEMMA PlainReads ==
  ASSUME NEW ev, Plain(ev), EncodeOk(ev)
  PROVE  LET p == EncodeKommsPayload(ev)
             q == ParseCborMap(ev)
         IN  /\ p.map = ev
             /\ ParseOk(p) /\ WellTyped(p.map)
             /\ SigningPayloadOk(q)
             /\ SigningPayload(q) = Without(ev, "sig")
  <1> DEFINE p == EncodeKommsPayload(ev)
             q == ParseCborMap(ev)
             g == Without(q, "sig")
  <1>1. p.map = ev /\ p.prefix = TRUE /\ p.form = "canonical"
    BY PlainWellTyped DEF EncodeKommsPayload, EncodeCborMap
  <1>2. Readable(p)
    <2> HIDE DEF p
    <2> QED
      BY <1>1, PlainWellTyped DEF Readable, ValidateCanonical
  <1>3. /\ DOMAIN q = DOMAIN ev \cup {"enc_scheme"}
        /\ \A k \in DOMAIN ev : q[k] = ev[k]
        /\ q["enc_scheme"].n \in {0, 1}
    BY PlainParsed
  <1> HIDE DEF p, q
  <1>4. /\ HasAll(ev, {"v", "t", "enc"}) /\ ev["v"].n = 0 /\ ev["t"].n \in 0 .. 14
        /\ "enc_scheme" \notin DOMAIN ev
    BY DEF Plain, IdKeys, Meta
  <1>5. /\ DOMAIN g = DOMAIN q \ {"sig"}
        /\ \A k \in DOMAIN g : g[k] = q[k]
    BY DEF Without
  <1>6. Without(g, "enc_scheme") = Without(ev, "sig")
    <2>1. DOMAIN g \ {"enc_scheme"} = DOMAIN ev \ {"sig"}
      BY <1>3, <1>4, <1>5
    <2>2. \A k \in DOMAIN ev \ {"sig"} : g[k] = ev[k]
      BY <1>3, <1>5
    <2> HIDE DEF g
    <2> QED
      BY <2>1, <2>2 DEF Without
  <1>7. "v" \in DOMAIN g /\ g["v"].n = 0
    BY <1>3, <1>4, <1>5 DEF HasAll
  <1> HIDE DEF g
  <1>8. ~ GroupEncrypted(ev) /\ ~ GroupEncrypted(q) /\ ~ GroupEncrypted(g)
    BY <1>3, <1>4, <1>5 DEF GroupEncrypted, Scheme, Has
  <1>9. ValidateEvent(ev) = "ok"
    BY DEF EncodeOk
  <1>10. ValidateEvent(q) = "ok"
    BY <1>3, <1>4, <1>8, <1>9, Unseen
  <1>11. ValidateEvent(g) = "ok"
    <2>1. \A k : k \notin {"sig", "enc_scheme"} => (k \in DOMAIN g <=> k \in DOMAIN ev)
      BY <1>3, <1>5
    <2>2. \A k \in DOMAIN ev : k \notin {"sig", "enc_scheme"} => g[k] = ev[k]
      BY <1>3, <1>5
    <2> QED
      BY <2>1, <2>2, <1>4, <1>8, <1>9, Unseen
  <1>12. ParseOk(p)
    BY <1>1, <1>2, <1>10 DEF ParseOk, q
  <1>13. SigningPayloadOk(q)
    BY <1>11 DEF SigningPayloadOk, EncodeOk, g
  <1>14. SigningPayload(q) = Without(ev, "sig")
    <2>1. SigningPayload(q) = EncodeFields(g)
      BY DEF SigningPayload, EncodeCborMap, g
    <2> QED
      BY <2>1, <1>6, <1>7 DEF EncodeFields
  <1> QED
    BY <1>1, <1>12, <1>13, <1>14, PlainWellTyped DEF p, q

\* The same options less the signature build the same event less the signature.
LEMMA UnsignedEvent ==
  ASSUME NEW c \in Commands, NEW o, OneRef(c, o), PidOk(c, o)
  PROVE  PostEvent(c, Without(o, "sig")) = Without(PostEvent(c, o), "sig")
  <1> DEFINE w == Without(o, "sig")
             ev == PostEvent(c, o)
             f == PostEvent(c, w)
             g == Without(ev, "sig")
  <1>1. DOMAIN w = DOMAIN o \ {"sig"} /\ \A k \in DOMAIN w : w[k] = o[k]
    BY DEF Without
  <1>2. /\ "sig" \notin PostCmd[c].refs /\ "sig" \notin IdKeys
        /\ "member_address" \notin IdKeys \cup Meta
    BY CommandRow DEF RowOK, AnyRef, IdKeys, Meta
  <1> HIDE DEF w
  <1>3. /\ RefGiven(c, w) = RefGiven(c, o)
        /\ \A k \in RefGiven(c, o) : w[k] = o[k]
    BY <1>1, <1>2 DEF RefGiven
  <1>4. OneRef(c, w)
    BY <1>3 DEF OneRef
  <1>5. Says(ev, c, o) /\ Says(f, c, w)
    BY <1>4, EventSays
  <1>6. IsMap(g) /\ DOMAIN g = DOMAIN ev \ {"sig"} /\ \A k \in DOMAIN g : g[k] = ev[k]
    BY DEF Without, IsMap
  <1>7. c \in Membership => w["member_address"] = o["member_address"]
    BY <1>1 DEF PidOk, Has
  <1> HIDE DEF ev, f, g
  <1>8. DOMAIN f = DOMAIN g
    BY <1>1, <1>3, <1>5, <1>6 DEF Says
  <1>9. ASSUME NEW k \in DOMAIN f PROVE f[k] = g[k]
    BY <1>1, <1>3, <1>5, <1>6, <1>7, <1>8, <1>9 DEF Says
  <1>10. f = g
    BY <1>5, <1>6, <1>8, <1>9 DEF Says, IsMap
  <1> QED
    BY <1>10 DEF f, g, w, ev

---------------------------------------------------------------------------
(* The inductive invariant.                                                *)

\* The user's options are ones the subcommand has, every signature in them was
\* made, and what is printed is what the options beside it build.
PrintedOK(x) ==
  /\ x.cmd \in Commands
  /\ Fit(x.opts, x.cmd, signed)
  /\ PostOk(x.cmd, x.opts)
  /\ x.payload = EncodeKommsPayload(PostEvent(x.cmd, x.opts))

CliInv ==
  /\ cmd \in Commands
  /\ Fit(opts, cmd, signed)
  /\ \A x \in printed : PrintedOK(x)

LEMMA CliInit == Init => CliInv
  <1> SUFFICES ASSUME Init PROVE CliInv
    OBVIOUS
  <1>1. cmd \in Commands /\ DOMAIN opts = PostCmd[cmd].needs /\ printed = {}
    BY DEF Init
  <1>2. "sig" \notin DOMAIN opts
    BY <1>1, CommandRow DEF RowOK, IdKeys
  <1>3. Fit(opts, cmd, signed)
    BY <1>1, <1>2 DEF Init, Fit, OptionsOf, Has
  <1> QED
    BY <1>1, <1>3 DEF CliInv

LEMMA FitGrows ==
  ASSUME NEW o, NEW c, NEW S, NEW T, S \subseteq T, Fit(o, c, S)
  PROVE  Fit(o, c, T)
  BY DEF Fit

LEMMA CliStep == CliInv /\ [Next]_vars => CliInv'
  <1> SUFFICES ASSUME CliInv, [Next]_vars PROVE CliInv'
    OBVIOUS
  <1>1. ASSUME NEW o \in OptionsOf(cmd), NEW x \in ValuesFor(o), GiveOption(o, x)
        PROVE  CliInv'
    <2>1. /\ DOMAIN opts' = DOMAIN opts \cup {o} /\ opts'[o] = x
          /\ \A k \in DOMAIN opts : k # o => opts'[k] = opts[k]
      BY <1>1 DEF GiveOption, With
    <2>2. /\ o # "sig" => x \in OptionValues[o]
          /\ o = "sig" => \E s \in signed : x = SigOver(s[1], s[2])
      BY DEF ValuesFor
    <2>3. UNCHANGED <<cmd, printed, signed>>
      BY <1>1 DEF GiveOption
    <2>4. Fit(opts', cmd, signed)
      BY <2>1, <2>2 DEF CliInv, Fit, Has
    <2> QED
      BY <2>3, <2>4 DEF CliInv, PrintedOK
  <1>2. ASSUME NEW o \in DOMAIN opts, DropOption(o)
        PROVE  CliInv'
    <2>1. DOMAIN opts' = DOMAIN opts \ {o} /\ \A k \in DOMAIN opts' : opts'[k] = opts[k]
      BY <1>2 DEF DropOption, Without
    <2>2. UNCHANGED <<cmd, printed, signed>>
      BY <1>2 DEF DropOption
    <2>3. Fit(opts', cmd, signed)
      BY <2>1 DEF CliInv, Fit, Has
    <2> QED
      BY <2>2, <2>3 DEF CliInv, PrintedOK
  <1>3. CASE Post
    <2> DEFINE x == [cmd |-> cmd, opts |-> opts,
                     payload |-> EncodeKommsPayload(PostEvent(cmd, opts))]
    <2>1. printed' = printed \cup {x} /\ PostOk(cmd, opts) /\ UNCHANGED <<cmd, opts, signed>>
      BY <1>3 DEF Post
    <2>2. x.cmd = cmd /\ x.opts = opts /\ x.payload = EncodeKommsPayload(PostEvent(cmd, opts))
      OBVIOUS
    <2> HIDE DEF x
    <2>3. PrintedOK(x)
      BY <2>1, <2>2 DEF PrintedOK, CliInv
    <2> QED
      BY <2>1, <2>3 DEF CliInv, PrintedOK
  <1>4. ASSUME NEW x \in printed, NEW pk \in Keys, SignPrinted(x, pk)
        PROVE  CliInv'
    <2>1. signed \subseteq signed' /\ UNCHANGED <<cmd, opts, printed>>
      BY <1>4 DEF SignPrinted
    <2> QED
      BY <2>1, FitGrows DEF CliInv, PrintedOK
  <1>5. ASSUME NEW c \in TurnedTo, TurnTo(c)
        PROVE  CliInv'
    <2>1. c \in Commands
      BY OptionValuesAssumption
    <2>2. /\ DOMAIN opts' = DOMAIN opts \cap OptionsOf(c)
          /\ \A k \in DOMAIN opts' : opts'[k] = opts[k]
          /\ cmd' = c /\ UNCHANGED <<printed, signed>>
      BY <1>5 DEF TurnTo
    <2>3. Fit(opts', c, signed)
      BY <2>2 DEF CliInv, Fit, Has
    <2> QED
      BY <2>1, <2>2, <2>3 DEF CliInv, PrintedOK
  <1>6. CASE UNCHANGED vars
    BY <1>6 DEF vars, CliInv, PrintedOK
  <1> QED
    BY <1>1, <1>2, <1>3, <1>4, <1>5, <1>6 DEF Next

LEMMA AlwaysCli == Spec => []CliInv
  BY CliInit, CliStep, PTL DEF Spec

---------------------------------------------------------------------------
(* The properties.                                                         *)

\* What a run printed, and what the parser makes of it.
LEMMA PrintedFacts ==
  ASSUME CliInv, NEW x \in printed
  PROVE  LET ev == PostEvent(x.cmd, x.opts)
             q == ParseCborMap(ev)
         IN  /\ x.payload.map = ev /\ Says(ev, x.cmd, x.opts)
             /\ ParseOk(x.payload) /\ WellTyped(x.payload.map)
             /\ DOMAIN q = DOMAIN ev \cup {"enc_scheme"}
             /\ \A k \in DOMAIN ev : q[k] = ev[k]
             /\ q["enc_scheme"] = SynthScheme(ev)
             /\ SigningPayloadOk(q) /\ SigningPayload(q) = Without(ev, "sig")
  <1>1. /\ x.cmd \in Commands /\ Fit(x.opts, x.cmd, signed) /\ PostOk(x.cmd, x.opts)
        /\ x.payload = EncodeKommsPayload(PostEvent(x.cmd, x.opts))
    BY DEF CliInv, PrintedOK
  <1>2. Plain(PostEvent(x.cmd, x.opts)) /\ EncodeOk(PostEvent(x.cmd, x.opts))
    BY <1>1, EventPlain DEF PostOk
  <1>3. Says(PostEvent(x.cmd, x.opts), x.cmd, x.opts)
    BY <1>1, EventTyped
  <1> QED
    BY <1>1, <1>2, <1>3, PlainReads, PlainParsed

\* What `komms post` prints decodes strictly to the fields its subcommand and
\* options stand for, its type and encryption among them, and to no other field,
\* for any values a user gives (build_post_ev, decode_payload).
THEOREM PrintedReadsBackHolds == Spec => []PrintedReadsBack
  <1>1. CliInv => PrintedReadsBack
    <2> SUFFICES ASSUME CliInv, NEW x \in printed
                 PROVE  LET ev == ParseKommsPayload(x.payload)  c == x.cmd
                            copied == Fields(c) \cap DOMAIN x.opts
                            ref == IF HasAny(x.opts, AnyRef) THEN {"ref"} ELSE {}
                            pid == IF c \in Membership THEN {"pid"} ELSE {}
                        IN
                        /\ DecodeOk(x.payload, TRUE)
                        /\ DOMAIN ev =
                             {"v", "t", "enc", "enc_scheme"} \cup copied \cup ref \cup pid
                        /\ ev["v"] = Uint(0) /\ ev["t"] = Uint(TypeNumber[c])
                        /\ ev["enc"] = Bool(c = "dm_message_post")
                        /\ ev["enc_scheme"] =
                             Uint(IF c = "dm_message_post" THEN 1 ELSE 0)
                        /\ \A k \in copied : ev[k] = x.opts[k]
                        /\ \A o \in AnyRef :
                             Has(x.opts, o) => ev["ref"] = RefFromOpt(o, x.opts[o])
                        /\ c \in Membership =>
                             ev["pid"] = ParticipantId(x.opts["member_address"])
      BY DEF PrintedReadsBack
    <2> DEFINE c == x.cmd
               ev == PostEvent(c, x.opts)
               q == ParseCborMap(ev)
    <2>1. /\ x.payload.map = ev /\ Says(ev, c, x.opts) /\ ParseOk(x.payload)
          /\ DOMAIN q = DOMAIN ev \cup {"enc_scheme"}
          /\ \A k \in DOMAIN ev : q[k] = ev[k]
          /\ q["enc_scheme"] = SynthScheme(ev)
      BY PrintedFacts
    <2>2. ParseKommsPayload(x.payload) = q
      BY <2>1 DEF ParseKommsPayload
    <2>3. c \in Commands /\ DOMAIN x.opts \subseteq OptionsOf(c)
      BY DEF CliInv, PrintedOK, Fit
    <2> HIDE DEF c, ev, q
    <2>4. DecodeOk(x.payload, TRUE)
      BY <2>1 DEF DecodeOk
    <2>5. ASSUME NEW o \in AnyRef, Has(x.opts, o)
          PROVE  o \in RefGiven(c, x.opts)
      <3>1. o \in PostCmd[c].refs
        BY <2>3, <2>5, CommandRow DEF OptionsOf, RowOK, IdKeys, Meta, AnyRef, Has
      <3> QED
        BY <2>5, <3>1 DEF RefGiven, Has
    <2>6. RefGiven(c, x.opts) = {} <=> ~ HasAny(x.opts, AnyRef)
      BY <2>3, <2>5, CommandRow DEF RefGiven, HasAny, Has, RowOK
    <2>7. DOMAIN q = {"v", "t", "enc", "enc_scheme"} \cup (Fields(c) \cap DOMAIN x.opts)
                       \cup (IF HasAny(x.opts, AnyRef) THEN {"ref"} ELSE {})
                       \cup (IF c \in Membership THEN {"pid"} ELSE {})
      BY <2>1, <2>6 DEF Says
    <2>8. /\ q["v"] = Uint(0) /\ q["t"] = Uint(TypeNumber[c])
          /\ q["enc"] = Bool(c = "dm_message_post")
      BY <2>1, <2>3, CommandRow DEF Says
    <2>9. q["enc_scheme"] = Uint(IF c = "dm_message_post" THEN 1 ELSE 0)
      <3>1. ev["enc"].b = (c = "dm_message_post")
        BY <2>1, BoolTyped DEF Says
      <3> QED
        BY <2>1, <3>1 DEF SynthScheme
    <2>10. \A k \in Fields(c) \cap DOMAIN x.opts : q[k] = x.opts[k]
      BY <2>1 DEF Says
    <2>11. \A o \in AnyRef : Has(x.opts, o) => q["ref"] = RefFromOpt(o, x.opts[o])
      BY <2>1, <2>5 DEF Says
    <2>12. c \in Membership => q["pid"] = ParticipantId(x.opts["member_address"])
      BY <2>1 DEF Says
    <2> QED
      BY <2>2, <2>4, <2>7, <2>8, <2>9, <2>10, <2>11, <2>12 DEF c
  <1> QED
    BY <1>1, AlwaysCli, PTL

LEMMA SameSigner ==
  ASSUME NEW a, NEW m, NEW b, NEW n, SigOver(a, m) = SigOver(b, n)
  PROVE  a = b /\ m = n
  <1>1. SigOver(a, m).c = SigOver(b, n).c
    OBVIOUS
  <1>2. <<a, m>> = <<b, n>>
    BY <1>1 DEF SigOver, Bytes
  <1> QED
    BY <1>2

\* A signature verifies under exactly the key that signed what the same command
\* prints without it (signing_payload_cbor, verify_event).
THEOREM DetachedSignatureHolds == Spec => []DetachedSignature
  <1>1. CliInv => DetachedSignature
    <2> SUFFICES ASSUME CliInv, NEW x \in printed, NEW pk \in Keys, NEW strict \in BOOLEAN
                 PROVE  DecodeVerifies(x.payload, strict, pk) <=>
                          /\ Has(x.opts, "sig")
                          /\ \E s \in signed :
                               /\ s[1] = pk /\ x.opts["sig"] = SigOver(pk, s[2])
                               /\ s[2] = EncodeKommsPayload(
                                           PostEvent(x.cmd, Without(x.opts, "sig"))).map
      BY DEF DetachedSignature
    <2> DEFINE ev == PostEvent(x.cmd, x.opts)
               q == ParseCborMap(ev)
               m == Without(ev, "sig")
    <2>1. /\ x.payload.map = ev /\ Says(ev, x.cmd, x.opts)
          /\ ParseOk(x.payload) /\ WellTyped(x.payload.map)
          /\ DOMAIN q = DOMAIN ev \cup {"enc_scheme"}
          /\ \A k \in DOMAIN ev : q[k] = ev[k]
          /\ SigningPayloadOk(q) /\ SigningPayload(q) = m
      BY PrintedFacts
    <2>2. /\ x.cmd \in Commands /\ PidOk(x.cmd, x.opts) /\ OneRef(x.cmd, x.opts)
          /\ Fit(x.opts, x.cmd, signed)
      BY DEF CliInv, PrintedOK, PostOk, BuildOk, RefOk, OneRef
    <2>3. PostEvent(x.cmd, Without(x.opts, "sig")) = m
      BY <2>2, UnsignedEvent
    <2>4. EncodeKommsPayload(m).map = m
      <3>1. EncodeKommsPayload(m).map = EncodeFields(m)
        BY DEF EncodeKommsPayload, EncodeCborMap
      <3>2. "enc_scheme" \notin DOMAIN m /\ m["v"] = ev["v"] /\ IsMap(m)
        <4>1. "enc_scheme" \notin DOMAIN ev /\ "v" \in DOMAIN ev
          BY <2>1, <2>2, FieldsAre DEF Says
        <4> QED
          BY <4>1 DEF Without, IsMap
      <3> HIDE DEF m
      <3>3. Without(m, "enc_scheme") = m
        BY <3>2 DEF Without, IsMap
      <3> QED
        BY <3>1, <3>3 DEF EncodeFields
    <2> HIDE DEF ev, q, m
    <2>5. /\ Has(q, "sig") <=> Has(x.opts, "sig")
          /\ Has(q, "sig") => q["sig"] = x.opts["sig"]
      <3>1. "sig" \in Fields(x.cmd)
        BY DEF Fields, Meta
      <3>2. "sig" \in DOMAIN ev <=> "sig" \in DOMAIN x.opts
        BY <2>1, <3>1 DEF Says
      <3> QED
        BY <2>1, <3>1, <3>2 DEF Says, Has
    <2>6. DecodeOk(x.payload, strict)
      BY <2>1 DEF DecodeOk
    <2>7. DecodeVerifies(x.payload, strict, pk)
            <=> Has(q, "sig") /\ q["sig"] = SigOver(pk, m)
      BY <2>1, <2>6 DEF DecodeVerifies, VerifyEvent, q
    <2>8. ASSUME Has(x.opts, "sig"), x.opts["sig"] = SigOver(pk, m)
          PROVE  \E s \in signed : s[1] = pk /\ s[2] = m
      <3>1. PICK s \in signed : x.opts["sig"] = SigOver(s[1], s[2])
        BY <2>2, <2>8 DEF Fit
      <3>2. SigOver(s[1], s[2]) = SigOver(pk, m)
        BY <2>8, <3>1
      <3>3. s[1] = pk /\ s[2] = m
        BY ONLY <3>2, SameSigner
      <3> QED
        BY <3>3
    <2> QED
      BY <2>3, <2>4, <2>5, <2>7, <2>8
  <1> QED
    BY <1>1, AlwaysCli, PTL
=============================================================================
