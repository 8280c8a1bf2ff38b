--------------------------- MODULE MCPayloadRelay ---------------------------
(***************************************************************************)
(* Instances of PayloadRelay.  Ids are told apart by their content only;   *)
(* "s", "c", "m" stand for a server, a channel and a message.              *)
(***************************************************************************)
EXTENDS PayloadRelay

Id32(c) == Bytes(32, 0, FALSE, c)
Tag16(c) == Bytes(16, 0, FALSE, c)
Cipher(c) == Bytes(40, 7, FALSE, c)
CidRef == Bytes(9, 1, TRUE, "bagaaaa")

MCExtensionKeys == {"x33"}

V0Post ==
  [v |-> Uint(0), t |-> Uint(MessagePost), enc |-> Bool(FALSE),
   sid |-> Id32("s"), cid |-> Id32("c"), ref |-> CidRef, n |-> Uint(1)]
V0Dm ==
  [v |-> Uint(0), t |-> Uint(DmMessagePost), enc |-> Bool(TRUE),
   ref |-> CidRef, did |-> Id32("d"), device_pk |-> Id32("k1")]
V1Post ==
  Assign(V0Post, [v |-> Uint(1), device_pk |-> Id32("k1"), enc_scheme |-> Uint(0),
                  ts |-> Uint(9), sig_scheme |-> Uint(0)])
V1Group ==
  [v |-> Uint(1), t |-> Uint(MessagePost), enc |-> Bool(TRUE), n |-> Uint(1),
   device_pk |-> Id32("k1"), enc_scheme |-> Uint(4), ts |-> Uint(9),
   enc_sid |-> Cipher("s"), enc_cid |-> Cipher("c"), enc_body_ref |-> Cipher("r"),
   match_tag |-> Tag16("mt"), key_epoch |-> Uint(2)]
V1Role ==
  [v |-> Uint(1), t |-> Uint(RoleAssign), enc |-> Bool(FALSE), sid |-> Id32("s"),
   n |-> Uint(1), device_pk |-> Id32("k1"), enc_scheme |-> Uint(0), ts |-> Uint(9),
   target |-> Bytes(33, 0, FALSE, "addr"), role |-> Uint(4)]
V1Leave ==
  [v |-> Uint(1), t |-> Uint(SealedMemberLeave), enc |-> Bool(FALSE), n |-> Uint(1),
   device_pk |-> Id32("k1"), enc_scheme |-> Uint(0), ts |-> Uint(9),
   member_tag |-> Tag16("a"),
   sig |-> Bytes(64, 0, FALSE, <<Id32("k2"), [v |-> Uint(1)]>>)]

MCDrafts == {V0Post, V0Dm, V1Post, V1Group, V1Role, V1Leave}

\* Edits that keep, break and move the fields the codec treats specially.
MCOverlays ==
  { [ts |-> Uint(10)],
    [role |-> Uint(5)],
    [enc_scheme |-> Uint(1)],
    [enc_scheme |-> Uint(4)],
    [v |-> Uint(0)],
    [device_pk |-> Id32("k2")],
    [enc_sid |-> Cipher("s"), match_tag |-> Tag16("mt"), key_epoch |-> Uint(2)],
    [x33 |-> Nested(MaxNestingDepth, "plain")],
    [x33 |-> Nested(MaxNestingDepth + 1, "plain")],
    [x33 |-> Nested(1, "disorder")] }
MCClearable == {"sid", "ref", "enc_scheme"}

\* What other implementations write: a v0 map that spells out enc_scheme, one
\* that is a group envelope by it, a role beyond a byte, undefined and text that
\* is not UTF-8 in an extension, a reserved type, a later version, a signed event.
ForeignV0Scheme == Assign(V0Dm, [enc_scheme |-> Uint(1)])
ForeignV0Group == Assign(V1Group, [v |-> Uint(0)])
ForeignWideRole == Assign(V1Post, [role |-> Uint(300)])
ForeignUndefined == Assign(V1Post, [x33 |-> Undefined])
ForeignHoldsUndefined == Assign(V1Post, [x33 |-> Nested(2, "undefined")])
ForeignGarbled == Assign(V1Post, [x33 |-> Nested(2, "garbled")])
ForeignReserved ==
  Assign(V1Post, [t |-> Uint(200), x33 |-> Nested(2, "plain")])
ForeignFuture == Assign(V1Post, [v |-> Uint(2), sid |-> Id32("s2")])
ForeignSigned ==
  Assign(V1Post, [sig |-> SigOver(Id32("k1"), V1Post)])

OnWire(m) == [prefix |-> TRUE, form |-> "canonical", map |-> m]

MCForeign ==
  {OnWire(m) : m \in {ForeignV0Scheme, ForeignV0Group, ForeignWideRole,
                      ForeignUndefined, ForeignHoldsUndefined, ForeignGarbled,
                      ForeignReserved, ForeignFuture, ForeignSigned}}
    \cup {[prefix |-> TRUE, form |-> "reordered", map |-> V1Post]}

\* Two drafts and the edits that decide whether a signature still covers them.
TwoDrafts == {V0Dm, V1Post}
TwoOverlays ==
  {[ts |-> Uint(10)], [enc_scheme |-> Uint(1)], [device_pk |-> Id32("k2")]}
Edited(evs) == evs \cup {Assign(ev, o) : ev \in evs, o \in TwoOverlays}

\* A second payload is posted only where both are such events: it matters to
\* what signatures cover, and to nothing else.
SecondPostAboutSignatures ==
  \/ Cardinality(NumPosted) <= 1
  \/ /\ \A w \in wire : w.from = Client
     /\ \A p \in posted : Without(p.ev, "sig") \in Edited(Edited(TwoDrafts))

\* What became of the draft does not matter to another implementation's payload.
ForeignAlone ==
  \A w \in wire : w.from = Foreign => edits = 0 /\ signed = {} /\ draft = V1Post

\* A group-encrypted event whose version is set back to 0.
GroupOnly == {V1Group}
BackToV0 == {[v |-> Uint(0)]}

NoDrafts == {V1Post}
NoOverlays == {}

\* A device registration signed over its canonical map less key 11.
Registration ==
  [v |-> Uint(1), t |-> Uint(DeviceRegister), enc |-> Bool(FALSE), n |-> Uint(1),
   device_pk |-> Id32("k1"), enc_scheme |-> Uint(0), ts |-> Uint(9),
   sig_scheme |-> Uint(0)]
SignedRegistration ==
  {OnWire(Assign(Registration, [sig |-> SigOver(Id32("k1"), Registration)]))}
=============================================================================
