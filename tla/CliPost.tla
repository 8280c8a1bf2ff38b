------------------------------ MODULE CliPost -------------------------------
(***************************************************************************)
(* `komms post` without --submit, up to the payload it prints, and `komms  *)
(* decode --verify-sig` on what was printed (build_post_ev,                *)
(* patch_member_join_leave_pid, decode_payload and the Post arm of run, in *)
(* src/lib.rs).                                                            *)
(*                                                                         *)
(* The CLI holds no Ed25519 key.  A user who wants a signed payload prints *)
(* one without a signature, signs its map elsewhere and runs the command   *)
(* again with --sig-hex, perhaps with other options or as another          *)
(* subcommand by then.  With --submit the same event goes to               *)
(* submit_komms_payload (PostSubmit).                                      *)
(***************************************************************************)
EXTENDS KommsPayload, FiniteSets

CONSTANTS
  Commands,           \* the subcommands in use
  TurnedTo,           \* those a user may turn to after another one
  OptionValues,       \* what a user may give for each option
  Keys,               \* the user's Ed25519 keys
  MaxChanges,         \* bound: options given, replaced or dropped
  MaxPrinted          \* bound: payloads printed

ASSUME MaxAssumption == MaxChanges \in Nat /\ MaxPrinted \in Nat

\* A value that is no hex string of the right length, no address, no CID.
Malformed == [major |-> "malformed"]

\* A function with one more argument, or another value at one it has.
With(f, k, x) == [y \in DOMAIN f \cup {k} |-> IF y = k THEN x ELSE f[y]]

AnyRef == {"ref_hex", "cid_str", "content_hash"}
HexRef == {"ref_hex"}

Subcommand(t, needs, may, refs) ==
  [t |-> t, needs |-> needs, may |-> may, refs |-> refs]

\* Each subcommand's event type, mandatory and optional fields, and the options
\* that make its ref (--cid-str is called --ref-cid in the message commands).
ServerPosts ==
  [ server_create     |-> Subcommand(0, {"sid"}, {}, AnyRef),
    server_update     |-> Subcommand(1, {"sid"}, {}, AnyRef),
    channel_create    |-> Subcommand(2, {"sid", "cid"}, {}, HexRef),
    channel_update    |-> Subcommand(3, {"sid", "cid"}, {}, HexRef) ]
MessagePosts ==
  [ message_post      |-> Subcommand(4, {"sid", "cid"}, {"pid"}, AnyRef),
    message_edit      |-> Subcommand(5, {"sid", "cid", "mid"}, {}, AnyRef),
    message_delete    |-> Subcommand(6, {"sid", "cid", "mid"}, {}, {}),
    dm_message_post   |-> Subcommand(7, {"did"}, {}, AnyRef),
    reaction_add      |-> Subcommand(8, {"sid", "cid", "mid"}, {}, HexRef),
    reaction_remove   |-> Subcommand(9, {"sid", "cid", "mid"}, {}, HexRef) ]
MemberPosts ==
  [ member_join       |-> Subcommand(10, {"sid"}, {}, HexRef),
    member_leave      |-> Subcommand(11, {"sid"}, {}, HexRef),
    role_assign       |-> Subcommand(12, {"sid"}, {"cid"}, HexRef),
    role_revoke       |-> Subcommand(13, {"sid"}, {"cid"}, HexRef),
    moderation_action |-> Subcommand(14, {"sid"}, {"cid", "mid"}, HexRef) ]
PostCmd ==
  [c \in DOMAIN ServerPosts \cup DOMAIN MessagePosts \cup DOMAIN MemberPosts |->
     IF c \in DOMAIN ServerPosts THEN ServerPosts[c]
     ELSE IF c \in DOMAIN MessagePosts THEN MessagePosts[c] ELSE MemberPosts[c]]

NeedsRef == {"message_post", "message_edit", "dm_message_post"}
Membership == {"member_join", "member_leave"}
Meta == {"ts", "n", "sig"}

OptionsOf(c) ==
  PostCmd[c].needs \cup PostCmd[c].may \cup PostCmd[c].refs \cup Meta
    \cup (IF c \in Membership THEN {"member_address"} ELSE {})

\* A number for --ts and --n, a string for --cid-str and --member-address, hex
\* for the others, or nothing of the kind.
ASSUME OptionValuesAssumption ==
  /\ TurnedTo \subseteq Commands /\ Commands \subseteq DOMAIN PostCmd
  /\ \A c \in Commands : OptionsOf(c) \ {"sig"} \subseteq DOMAIN OptionValues
  /\ \A o \in DOMAIN OptionValues : \A x \in OptionValues[o] : x # Malformed =>
       IF o \in {"ts", "n"} THEN IsUint(x) /\ x.n \in Nat
       ELSE IF o \in {"cid_str", "member_address"} THEN x.major = "text"
       ELSE IsBytes(x)

---------------------------------------------------------------------------
(* ref_from_opts                                                           *)

RefGiven(c, opts) == PostCmd[c].refs \cap DOMAIN opts

RefOk(c, opts) ==
  /\ \A o, x \in RefGiven(c, opts) : o = x
  /\ c \in NeedsRef => RefGiven(c, opts) # {}
  /\ \A o \in RefGiven(c, opts) :
       /\ opts[o] # Malformed
       /\ o = "cid_str" => opts[o].len > 0
       /\ o = "content_hash" => IsBytesOf(opts[o], 32)

RefFromOpt(o, x) ==
  IF o = "cid_str" THEN Bytes(x.len + 1, 1, TRUE, x.c)
  ELSE IF o = "content_hash" THEN Bytes(33, 2, FALSE, x.c) ELSE x

PatchRef(c, opts, ev) ==
  IF RefGiven(c, opts) = {} THEN ev
  ELSE LET o == CHOOSE x \in RefGiven(c, opts) : TRUE IN
       With(ev, "ref", RefFromOpt(o, opts[o]))

---------------------------------------------------------------------------
(* build_post_ev and patch_member_join_leave_pid                           *)

Fields(c) == PostCmd[c].needs \cup PostCmd[c].may \cup Meta

BuildOk(c, opts) ==
  /\ RefOk(c, opts)
  /\ \A k \in Fields(c) \cap DOMAIN opts :
       /\ opts[k] # Malformed
       /\ k \in Bytes32Keys => IsBytesOf(opts[k], 32)
       /\ k = "sig" => IsBytesOf(opts[k], 64)

\* The event of a command that copies these fields.
EventWith(c, opts, fields) ==
  PatchRef(c, opts,
    [k \in {"v", "t", "enc"} \cup (fields \cap DOMAIN opts) |->
       CASE k = "v" -> Uint(0)
         [] k = "t" -> Uint(PostCmd[c].t)
         [] k = "enc" -> Bool(c = "dm_message_post")
         [] OTHER -> opts[k]])

BuildPostEv_IgnoresOptional(c, opts) ==                               \* mutation
  EventWith(c, opts, PostCmd[c].needs \cup Meta)
BuildPostEv(c, opts) == EventWith(c, opts, Fields(c))

\* The participant id is a hash of the member's address.
ParticipantId(a) == Bytes(32, 0, FALSE, a.c)

PidOk(c, opts) ==
  c \in Membership => Has(opts, "member_address") /\ opts["member_address"] # Malformed
PatchPid(c, opts, ev) ==
  IF c \in Membership THEN With(ev, "pid", ParticipantId(opts["member_address"])) ELSE ev

PostEvent(c, opts) == PatchPid(c, opts, BuildPostEv(c, opts))

\* The command prints a payload; otherwise it stops with an error.
PostOk(c, opts) ==
  /\ PostCmd[c].needs \subseteq DOMAIN opts
  /\ BuildOk(c, opts)
  /\ PidOk(c, opts)
  /\ EncodeOk(PostEvent(c, opts))

---------------------------------------------------------------------------
(* decode_payload, without and with --strict, and its --verify-sig         *)

DecodeOk(p, strict) == IF strict THEN ParseOk(p) ELSE WellTyped(p.map)
DecodeVerifies(p, strict, pk) ==
  DecodeOk(p, strict) /\ VerifyEvent(ParseCborMap(p.map), pk) = "Ok"

---------------------------------------------------------------------------
VARIABLES
  cmd,        \* the subcommand the user works with
  opts,       \* the options of its next run
  changes,
  printed,    \* what earlier runs printed, with their subcommand and options
  signed      \* every <<key, map>> the user signed

vars == <<cmd, opts, changes, printed, signed>>

\* What a user may give for an option: for --sig-hex, a signature made so far.
ValuesFor(o) ==
  IF o = "sig" THEN {SigOver(s[1], s[2]) : s \in signed} ELSE OptionValues[o]

Init ==
  /\ cmd \in Commands
  /\ opts \in [PostCmd[cmd].needs -> UNION {OptionValues[o] : o \in PostCmd[cmd].needs}]
  /\ \A o \in DOMAIN opts : opts[o] \in OptionValues[o]
  /\ changes = 0
  /\ printed = {}
  /\ signed = {}

GiveOption(o, x) ==
  /\ changes < MaxChanges
  /\ Has(opts, o) => opts[o] # x
  /\ opts' = With(opts, o, x)
  /\ changes' = changes + 1
  /\ UNCHANGED <<cmd, printed, signed>>

DropOption(o) ==
  /\ changes < MaxChanges
  /\ opts' = Without(opts, o)
  /\ changes' = changes + 1
  /\ UNCHANGED <<cmd, printed, signed>>

\* The user turns to another subcommand with the options it has as well.
TurnTo(c) ==
  /\ changes < MaxChanges
  /\ c # cmd
  /\ cmd' = c
  /\ opts' = [o \in DOMAIN opts \cap OptionsOf(c) |-> opts[o]]
  /\ changes' = changes + 1
  /\ UNCHANGED <<printed, signed>>

Post ==
  /\ Cardinality(printed) < MaxPrinted
  /\ PostOk(cmd, opts)
  /\ printed' = printed \cup
       {[cmd |-> cmd, opts |-> opts,
         payload |-> EncodeKommsPayload(PostEvent(cmd, opts))]}
  /\ UNCHANGED <<cmd, opts, changes, signed>>

\* Elsewhere the user signs the map of a payload that has no signature yet.
SignPrinted(x, pk) ==
  /\ ~ Has(x.payload.map, "sig")
  /\ signed' = signed \cup {<<pk, x.payload.map>>}
  /\ UNCHANGED <<cmd, opts, changes, printed>>

Next ==
  \/ \E o \in OptionsOf(cmd) : \E x \in ValuesFor(o) : GiveOption(o, x)
  \/ \E o \in DOMAIN opts : DropOption(o)
  \/ \E c \in TurnedTo : TurnTo(c)
  \/ Post
  \/ \E x \in printed, pk \in Keys : SignPrinted(x, pk)

Spec == Init /\ [][Next]_vars

---------------------------------------------------------------------------
(* Properties.                                                             *)

\* The number of the event type that has the subcommand's name.
TypeNumber ==
  [ server_create |-> 0, server_update |-> 1, channel_create |-> 2, channel_update |-> 3,
    message_post |-> 4, message_edit |-> 5, message_delete |-> 6, dm_message_post |-> 7,
    reaction_add |-> 8, reaction_remove |-> 9, member_join |-> 10, member_leave |-> 11,
    role_assign |-> 12, role_revoke |-> 13, moderation_action |-> 14 ]

\* What the command prints decodes strictly to a v0 event of the type it is named
\* for, encrypted just when it is a direct message, with the values of the options
\* that were given, the ref the one option spelled, the member the address names,
\* and no other field: the keys are listed to the last (build_post_ev and
\* patch_member_join_leave_pid, lib.rs:503-884).
PrintedReadsBack ==
  \A x \in printed :
    LET ev == ParseKommsPayload(x.payload)  c == x.cmd
        copied == Fields(c) \cap DOMAIN x.opts
        ref == IF HasAny(x.opts, AnyRef) THEN {"ref"} ELSE {}
        pid == IF c \in Membership THEN {"pid"} ELSE {}
    IN
    /\ DecodeOk(x.payload, TRUE)
    /\ DOMAIN ev = {"v", "t", "enc", "enc_scheme"} \cup copied \cup ref \cup pid
    /\ ev["v"] = Uint(0) /\ ev["t"] = Uint(TypeNumber[c])
    /\ ev["enc"] = Bool(c = "dm_message_post")
    /\ ev["enc_scheme"] = Uint(IF c = "dm_message_post" THEN 1 ELSE 0)
    /\ \A k \in copied : ev[k] = x.opts[k]
    /\ \A o \in AnyRef : Has(x.opts, o) => ev["ref"] = RefFromOpt(o, x.opts[o])
    /\ c \in Membership => ev["pid"] = ParticipantId(x.opts["member_address"])

\* `decode --verify-sig` accepts a printed payload under a key iff that key signed
\* exactly what the same command prints without --sig-hex: a signature made
\* elsewhere is neither lost nor carried over to other options or to another
\* subcommand (lib.rs:449-458).
DetachedSignature ==
  \A x \in printed, pk \in Keys, strict \in BOOLEAN :
    DecodeVerifies(x.payload, strict, pk) <=>
      /\ Has(x.opts, "sig")
      /\ \E s \in signed :
           /\ s[1] = pk /\ x.opts["sig"] = SigOver(pk, s[2])
           /\ s[2] = EncodeKommsPayload(PostEvent(x.cmd, Without(x.opts, "sig"))).map

\* README.md:275-285 lists what each subcommand takes; given well-formed values
\* for everything not called optional there, and a valid ref, it prints a payload.
ListedOptionsSuffice ==
  /\ PostCmd[cmd].needs \subseteq DOMAIN opts
  /\ RefGiven(cmd, opts) # {}
  /\ BuildOk(cmd, opts) /\ PidOk(cmd, opts)
  /\ ValidateRef(BuildPostEv(cmd, opts)["ref"])
  => PostOk(cmd, opts)
=============================================================================
