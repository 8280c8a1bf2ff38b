# A verification model of komms-cli

The repository holds three Rust crates: `protocol` (the KOMMS wire codec, its
validation rules and signature checks), `crypto` (symmetric cryptography and
two small protocols built on it), and the `komms` command line tool, which
builds, prints, decodes, submits and looks up KOMMS payloads carried by Kaspa
transactions. Gateways, the indexer and the miner-submit service link the two
library crates from other repositories.

## 1. Inventory

| Component | State | Operations | Interacts with | What makes it correct |
|---|---|---|---|---|
| Parser and validation (`protocol/src/lib.rs`) | none; values of `ParsedKommsEvent` | `parse_cbor_map`, `validate_event`, `parse_komms_payload`, `parse_komms_payload_with_future` | encoder, verifier, every program | accepts what the encoder emits; keeps what a later version will need; one reading per byte string |
| Encoder (`protocol/src/encode.rs`) | none | `encode_cbor_map`, `encode_komms_payload`, `signing_payload_cbor`, ref and id builders | parser | emits only what the parser takes back, field for field; re-encoding is the identity on accepted bytes |
| Canonical walker (`protocol/src/canonical.rs`) | position in a byte slice | `validate_canonical` | parser | one spelling per value |
| Verifier (`protocol/src/verify.rs`) | none | `signer_pubkey_from_event`, `verify_event` | encoder (`signing_payload_cbor`) | a signature covers every field but itself; signed events verify |
| UTXO selection and fee (`src/submit.rs`) | sorted copy of the node's list, running sum | `pick_utxos`, `required_fee` | submission | pays the floor exactly, fails only if nothing pays |
| Submission (`src/submit.rs`) | one UTXO snapshot between two awaits | `submit_komms_payload` | Kaspa node, other commands of the same address, the user who retries | no sompi lost, no post starved, retries harmless where an answer was given |
| CLI `post`, `decode` (`src/lib.rs`, `src/hexutil.rs`) | command line options | `build_post_ev`, `patch_member_join_leave_pid`, `decode_payload` | codec, submission, an external signer | options reach their fields; listed subcommands work; detached signatures verify |
| CLI `read tx` (`src/read_rpc.rs`) | page cursor | `fetch_transaction_payload` | Kaspa node | finds a transaction the chain has |
| CLI `read index` (`src/index_scan.rs`) | a read transaction on the indexer's table | `load_komms_events`, filters | indexer's database | every row under the record version that wrote it |
| JSON output (`src/output.rs`, `src/main.rs`) | none | formatting | - | - |
| State hash (`crypto/src/state_hash.rs`) | the prior hash | `state_hash_genesis`, `state_hash_next` | indexers, a client that compares them | equal hashes just where equal histories; order of arrival and undone forks leave no trace |
| Request authentication (`crypto/src/request_auth.rs`) | none; clock | `sign`, `verify` | gateway, miner-submit, validator, their clocks and key rotations | passes just what a current key signed for that endpoint and body, inside the window, for any timestamp |
| Key derivation, tags, AEAD, sealed boxes (`crypto/src/{kdf,tags,aead,sealed}.rs`) | none | derive, tag, seal, open | members' clients, indexer | an event goes to those who can read it; a field opens only where it was sealed for; the roster is who joined and did not leave |

Hard behaviours: a payload passes through programs that parse and encode it
again, some of them other implementations; an event is edited after it was
parsed or signed; several commands of one address act on stale UTXO lists; a
lost answer makes the user repeat a command that had succeeded; the chain undoes
blocks; u64 fees meet user-supplied numbers; a lookup takes many requests while
the chain moves; clocks differ and keys are rotated at different times; members
hold keys of different epochs. `PROJECT.json` lists each hazard
with its line.

## 2. Modules

- **KommsPayload** — the codec as operators. A CBOR map is a function from key
  names to values; a parsed event has the same shape, so the operators say only
  what the code changes: the synthesised `enc_scheme` of a v0 event, the clamped
  `role`, the dropped key 13, and what is refused. A value keeps its major type,
  its length, its first byte and a content tag; an array or map in an extension
  is how deep it nests and whether it holds an undefined, text that is not UTF-8
  or keys out of order. `Decodes` and `ReadValue` are what ciborium makes of a
  value: such text is refused, an undefined becomes a null. A payload is prefix,
  spelling (`form`) and map; equal records are equal bytes.
- **PayloadRelay** — a client that edits, signs and posts an event; gateways
  that parse and encode what is on the wire; another implementation that posts
  its own canonical bytes; the chain; an indexer that classifies and verifies.
  Wire and chain only grow, so delay, reordering, duplication and loss are all
  behaviours. `Edit` and `Clear` stand for writes to the public fields of
  `ParsedKommsEvent`, `Sign` for `signing_payload_cbor`, `Post` for
  `encode_komms_payload`, `Relay` for the round trip the comment at
  `encode.rs:152` describes, `Index` for `parse_komms_payload_with_future`
  followed by `signer_pubkey_from_event` and `verify_event`.
- **PayloadRelayProofs** — its theorems.
- **UtxoSelection** — `required_fee` and `pick_utxos`. The loop's prefixes of
  the list sorted by descending amount are the sets closed upwards by amount;
  outputs of equal amount come in any order. **UtxoEntries** — `pick_utxos` for
  every list of outputs an address comes to hold, with its properties.
- **DataLemmas** — what the proof modules keep needing of data: sequences of any
  values, least numbers and sets, and sums over finite sets.
- **PostSubmit** — extends it with commands that run `submit_komms_payload`
  concurrently: `Fetch` or `FetchFails` (first await), `Submit`/`BailOut`/`Panic` (selection up
  to the request), `Answer` (the node), `Finish` (the reply), `Disconnect` (no
  reply; the request may still arrive, `StrayArrives`), `Rerun` (the user).
  `Mine`, `Reorg`, `Evict` and `Deposit` are the chain. A transaction is the
  record of its command, its inputs and its change; the payload is the
  command's. `built` and `unanswered` are history variables.
- **PostSubmitProofs** — its theorems, those of UtxoEntries, and that PostBoard is
  a refinement.
- **CliPost** — `komms post` without `--submit` and `decode --verify-sig`,
  for a user who changes options between runs (`GiveOption`, `DropOption`), turns
  to another subcommand with those it has as well (`TurnTo`) and signs printed
  maps elsewhere.
  The subcommands are three tables, one per stretch of `build_post_ev`.
  **CliPostProofs** — its theorems.
- **MessageBoard** — an abstract specification: what `komms post --submit`
  promises its users. Each run puts a message on the board at most once and what
  is told of it is true; only a lost answer leaves a message that may still be
  taken. **PostBoard** maps PostSubmit to it: the mempool waits, the confirmed
  transactions are on the board, requests of runs that gave up are loose.
- **ReadTx** — `fetch_transaction_payload`, one action per request
  (`LookInPool`, `LookAtHint`, `LookAtPage` and their failures, a transaction that
  cannot be converted among them), against a node that receives, mines, undoes
  and evicts between any two of them. The node lists blocks from `low_hash`
  upwards, as the command's use of it has it: `low_hash` is nothing at first and
  then the last block of the page before.
- **ReadIndex** — `load_komms_events` and the filters of `ReadCmd::Index`. A row
  is the sequence of its fields, so that a record of another version is longer
  or shorter; the indexer writes, takes back, is upgraded, and a write may be
  cut off, until the command opens its snapshot. The database may refuse to be
  opened (`OpenFails`) or to hand out a row (`LoadFails`), and the ids among the
  options, which are parsed after the rows are loaded, may be none (`Malformed`).
- **KommsRead** — the two as subcommands of `komms read`, one run of one of them.
  **KommsReadProofs** — its theorems.
- **CborHead** — `encode_cbor_uint_header` of the crypto crate.
- **CanonicalWalk** — `validate_canonical` byte by byte, with a u64 as its eight
  bytes, and beside it the grammar of canonical items, which says what there is
  to accept without saying how to find it.
- **StateLog** — an abstract specification: indexers with logs of projected
  events and a client that confirms the highest DAA score up to which whole logs
  agree. **StateHash** — the same programs with `state_hash_next` in place of the
  logs; BLAKE2b is a free constructor over the prior hash and the bytes. Events
  are sorted by transaction id and then hashed without it, so what a hash can
  say of a block is its projections in that order (`Projected`).
  **StateHashProofs** — its theorems.
- **RequestAuth** — `sign` and `verify` in the hands of callers and receivers
  with clocks of their own; `Send`, `Proxy` (respaces or drops a header),
  `Receive`, `Lose`, `Tick`, `RotateKey` at the caller and `RotateSecret` at each
  receiver. i64 arithmetic wraps or panics as the build has it.
  **RequestAuthProofs** — its theorems.
- **GroupEnvelope** — members who derive keys (`DeriveChannelDek` and its
  siblings), `Post`, `Join`, `Leave`, `Rotate` and `Learn`, clients that err
  (`PublishFaulty` puts a field of one event into another), and an indexer that
  fans out by match tag and keeps the roster by member tag. HKDF, HMAC and
  AES-GCM are free constructors over the bytes the code feeds them, so domain
  separation is what the code's labels and bindings make of it.
  **GroupEnvelopeProofs** — its theorems.
- **MCPayloadRelay, MCUtxoSelection, MCPostSubmit, MCCliPost, MCCanonicalWalk,
  MCAlgorithms, MCKommsRead, MCStateHash, MCRequestAuth, MCGroupEnvelope** —
  instances. MCAlgorithms runs the walker and the selection, each on its own
  input.

How they compose: UtxoSelection is used by UtxoEntries and by PostSubmit, which
PostBoard maps to MessageBoard; KommsPayload by PayloadRelay and CliPost; CborHead by
CanonicalWalk, StateHash and GroupEnvelope; StateHash is mapped to StateLog;
KommsRead is made of ReadTx and ReadIndex.

Definitions whose name has a suffix (`RequiredFee_TakesMax`) and that are marked
*mutation* are wrong variants of the definition after them; no specification
uses them. Each shows that a property can fail.

## 3. Runs

| Run | Configuration | Result |
|---|---|---|
| relay | `Relay.cfg` | TypeOK, RelayIntegrity, RelayStable, RoundTrip, FreshVerifies, OnlySignedVerifies hold; 110131 states |
| algorithms | `Algorithms.cfg` | AcceptsExactlyCanonical, SelfDelimiting, SelectionComplete, SelectionFewest, TiesCostTheSame hold; 583381 states |
| submit_safe | `SubmitSafe.cfg` | TypeOK, Balance, UnderpaidOnlyOnOverflow, WrappedNeverLands, TwiceOnlyUnanswered, TwiceOnlyOnNewView, ImplementsBoard hold; 1919198 states |
| submit_live | `SubmitLive.cfg` | EveryPostSettles holds; 115355 states |
| cli_post | `CliPost.cfg` | PrintedReadsBack, DetachedSignature hold; 827926 states |
| read | `KommsRead.cfg` | MissedOnlyIfMoved, HintFinds, ListsWhatWasRecorded, AllOrNothing, EveryReadEnds hold; 469754 states |
| state_hash | `StateHash.cfg` | OneHashPerHistory, ImplementsStateLog hold; 46875 states |
| request_auth | `RequestAuth.cfg` | AcceptedWasSigned, AcceptedInTime, RefusedForAReason hold; 1528848 states |
| group_envelope | `GroupEnvelope.cfg` | FanOutExact, ReadsRight, HoldersRead, RosterExact hold; 21823 states |
| relay_parseable | `RelayParseable.cfg` | EncodedIsParseable is violated |
| relay_registration | `RelayRegistration.cfg` | SignedVerifies is violated |
| cli_roles | `CliPostRoles.cfg` | ListedOptionsSuffice is violated |

What the violated runs say of the code:

- *relay_registration* — `DeviceRegister`, `DeviceRevoke` and
  `SealedMemberLeave` require `sig`, and `signing_payload_cbor` validates a copy
  without it. The bytes to sign cannot be computed, and `verify_event` answers
  `Encode` for every event of these types. This is a bug.
- *relay_parseable* — the encoder validates an event with its `enc_scheme` and
  drops the field when `v` is 0; the parser reads 0 or 1 back. A v0 event with
  `enc_scheme` 4 encodes to bytes the parser refuses.
- *cli_roles* — `role-assign` and `role-revoke` never set `target` and `role`.

Two more places where the code is not what is written of it. No run of their own
shows them: the properties named here state what the code does instead.

- `RelayStable` — the comments of `protocol/src/lib.rs` say that a role above
  `ROLE_MAX` is rejected by validators (lines 85, 92-93, 371) and that one beyond
  a byte surfaces as `UnknownRole` (609-612). Only the arms of `RoleAssign` and
  `RoleRevoke` look at `role` (1043, 1057). A message with role 300 is a valid
  event, and a gateway that encodes it again writes 255: other bytes than were
  signed.
- `MissedOnlyIfMoved` — the scan of `read tx` is described as one of recent blocks
  (`src/lib.rs:156`, `README.md:216`), from the virtual tip (`read_rpc.rs:6`), with
  `--block-hash` for deep confirmations (`read_rpc.rs:60`). `low_hash` begins as
  `None` and goes up, so it begins with the oldest block the node lists, and on a
  chain longer than 250 pages the newest blocks are the ones it does not come to.

What the holding properties leave open on purpose, and the models show as
behaviours: `RelayStable` names what a relay may lose of foreign bytes (key 13 of a
v0 map, with which a group envelope is no longer taken for one by the next
reader; a role beyond a byte of an event that is no role assignment or
revocation; an undefined in an extension, which comes out as null) and says that
it loses nothing else and the next relay loses no more, so a foreign signature
over any of these does not survive a gateway; a transaction further from the
oldest listed block than the pages reach, among the newest, is reported as not
found, and so is one that was undone or evicted between two requests
(`MissedOnlyIfMoved`); one bad row, or an id that is none, costs the whole listing
(`AllOrNothing`); an event without server or channel matches no
`--sid-hex` or `--cid-hex`; a block without events changes the state hash as any
block does, so indexers must begin at the same block (`OneHashPerHistory`
compares histories block by block); a request may be accepted repeatedly inside
its window; a leave tagged under another epoch than its join leaves the member
on the roster, and a sealed field is bound to its event only if the caller puts
the event's number into `AadContext.extra` (`BindsEvent`).

**Bounds.** `MaxEdits` 2: an edit that breaks a rule and one that mends another,
or one on each side of a signature. `MaxPosts` 2: signature reuse needs two
posts of one client; everything else is about one payload, so the constraint
`SecondPostAboutSignatures` follows a second payload only when both are of the
two drafts, and the edits, that decide what a signature covers; and
`ForeignAlone` follows another implementation's payload only beside an unedited
draft, since nothing the client does changes what becomes of it. The ten foreign
payloads hold each thing a relay loses, a map in wrong order, text that is not
UTF-8, a reserved type, a later version and a signed event. The drafts are one
of each kind the codec treats apart (v0 and v1, direct message, group
envelope, role, a type that requires a signature). The ten outputs of
`MCUtxoSelection` hold ties and amounts on either side of the fee of one to four
inputs. `PostSubmit` uses two commands, since every race and conflict is between
two; one disconnect, one reorg, one eviction, each at any point, and failing
requests for the outputs as often as the user tries; fees of nothing,
3 KAS and beyond u64 (`U64Max` is scaled down to 10^9 so that TLC's integers
can hold the overflowing sum; the theorems below are for every `U64Max`). In
`CliPost` four changes let a user sign one payload and post another; the
subcommand turned to is `message-edit`, whose options are those of `message-post`
and one more (the theorem is for any).

`CanonicalWalk` reads up to 5 bytes of every kind of head, 9 of those that spell
one argument in every width, and 12 of arrays and maps, which nest beyond the
limit of 8. `ReadTx` has three pages of two blocks (250 of the node's size in
the code) and up to six blocks, so that the transaction lies before, on and
behind the last page; two undone blocks or evictions, one failed request or bad
transaction. `ReadIndex` has three keys, three record versions (one newer than
the command) and nine filters: none, each alone, all together, and a server and
a channel that are no ids. `StateHash` has two faithful indexers and
one whose projection of one event has drifted, on a tree of four blocks with
two forks: a block with two events, one with none, and on either fork an event
of its own that the faithful ones project alike. `RequestAuth` scales i64
to -41..40, the window to 2 seconds and clocks to one second off, with one key
rotated once; one of its four hosts is configured with another's key and one has
no name; the theorems are for every window and width. `GroupEnvelope` has two
servers that start with one master key, two members, three events of which one
is faulty, and one rotation; a nonce is 1 and a tag 2 long, and the eight bytes
of a u64 stand as one value, the number itself, since they have one width
wherever they occur.

**Fairness.** Two runs state any. In *submit_live*, `WF` on the steps of each command:
the executor polls a future that is ready, and the node answers a request. `WF`
on mining some transaction of the mempool: blocks keep coming. `Step` includes
`Rerun`: the user of a failed command tries again; the code itself never
retries, so the property says that nothing but giving up can keep a payable
message off the chain. `SF` on `Fetch`: a user who tries again and again is not
told every time that the node cannot be reached. Evictions are excluded there, since a command that
printed its transaction id is not run again. Deposits, disconnects and undone
blocks have no fairness. In *read*, `WF` on the requests of `read tx` and on
the steps of `read index`: the node answers, or fails, and the database hands
out rows. Nothing is assumed of the node's blocks or the indexer's writes.

**Deadlock.** It is not checked where the program's work is finite: posts, edits,
outputs, option changes and reads end.

## 4. Proofs

Every property the passing runs check, except those named at the end of this
section, is a theorem `Spec => []P`, or `Spec => P` for a refinement, for every
value of the constants that meets the assumptions of its module. Each rests on
an inductive invariant, stated in the proof module with what it means.

**PayloadRelayProofs** — for every set of drafts, edits, extension keys and
foreign payloads: `TypeCorrect`, `RelayIntegrityHolds`, `RoundTripHolds`,
`RelayStableHolds`, `FreshVerifiesHolds`, `OnlySignedVerifiesHolds`. The
argument rests on lemmas about the codec: encoding keeps a map well typed
(`EncodeKeeps`), parsing what the encoder emitted and encoding it again is the
identity (`EncodeParseEncode`), because parsing adds to a v0 map exactly what
encoding drops and clamps nothing an event can hold (`ClampIdle`), and what the
parser makes of any well typed map is an event (`ParsedIsEvent`). `RelayIntegrity` is
inductive with `TypeOK`: a gateway only handles bytes some client encoded.
`RoundTrip` follows from `TypeOK`, since the validation of an event does not see a
scheme its version determines (`SchemeUnseen`). `RelayStable` is about any bytes a
gateway accepts, and so rests on the codec alone: what one round trip keeps of
each key is `RelayKeeps`, by what the parser makes of each value (`ReadValueIs`,
`CoreDefined`), and that a second one finds a canonical event and changes nothing
is `RelayAgain`.
For signatures the invariant is `SignaturesInv`: a signature over an event's map,
in the draft or in a posted event, is one the client's keys made, and that of a
fresh event covers the event itself; `RowsInv` carries it to the rows. What
is signed does not change when the signature is put in (`SigUnseen`), which is
why it verifies, and the verifier sees of a relayed event what the client signed
(`SameSignature`), which is why nothing else does. `FreshVerifies` is about the
types `Sign` can sign; those that require a signature are the bug of run
*relay_registration*.

**PostSubmitProofs** — of `pick_utxos`, for any outputs and requests:
`SelectionCompleteHolds`, `SelectionFewestHolds`, `TiesCostTheSameHolds`. Among the sets of one size a
prefix of the sorted list weighs most (`Outweighs`), there is a prefix of every
size (`PrefixOfLength`), and the fee depends on the size alone, so a set that
pays implies a prefix that pays. `DataLemmas` supplies the sums: the library's
fold chooses an order, and `SumDisjoint` and its siblings say the order does not
matter. Induction over finite sets is a smallest set for which the claim fails
(`SmallestSubset`), from the library's well-founded orderings.

Of `submit_komms_payload`, for any number of commands, outputs, deposits,
disconnects, undone blocks and evictions, with and without overflow checks:
`TypeCorrect`, `BalanceHolds`, `UnderpaidOnlyOnOverflowHolds`,
`WrappedNeverLandsHolds`, `TwiceOnlyUnansweredHolds`, `TwiceOnlyOnNewViewHolds`;
and `WrappedFeeIsBelowFloor`, that a fee which wraps ends below the floor,
because the priority fee is at most `U64Max`. The invariant has three parts.
`RunsInv`: for a command that always got an answer, nothing is still under way
from an earlier run, and whatever the node holds is the transaction its last run
was told of. `NodeInv`: the node's outputs are what was made and not spent, no
two transactions it holds spend the same one (`Ledger`), a transaction makes
one output of all it spends, so there never are more than were paid to the
address (`Count`), amounts and fees add up (`Books`), and every transaction held
pays its floor (`Lands`). `BuildsInv`: every transaction anywhere was built by a
run from a list that could be the node's, as `pick_utxos` and the fee say.
None is inductive alone: undoing a transaction returns its inputs only if no
other held transaction spends its change, and a fee is exact only if its
floor fits u64, which needs `Count`. For `TwiceOnlyOnNewView`, two held
transactions share no input, while each spends a prefix of its list, so the
largest outputs of a list that the other run also saw cannot all be in the
other's inputs.

It also proves `ImplementsBoardHolds`: `Spec => ImplementsBoard`, the refinement
of MessageBoard. Initial states map to initial states (`BoardInit`)
and every step of PostSubmit to a step of the board or none (`BoardSteps`, one
lemma per action), under the invariants above and `Countable`: what is loose is
counted per command, so the sets it is counted in have to be finite.

**KommsReadProofs** — `MissedOnlyIfMovedHolds` and `HintFindsHolds` for pages of
any size, any number of passes and any bounds; `ListsWhatWasRecordedHolds` and
`AllOrNothingHolds` for any keys, records, filters and failures of the database. The invariant of
`read tx`, `TxInv`: the listed blocks are numbered upwards and each knows those
under it; those the cursor has behind it are a prefix, of length c, without the
transaction; every page moves c on by a page less the cursor and every undone
block back by one at most (`Reached`); and an undisturbed transaction that the
mempool did not have is in a block (`Kept`). The bound of the property is what
that leaves when the passes are used up. The invariant of `read index`,
`IndexInv`: every row is its record as one of the versions spells it, or is cut
off, and the entries loaded are the rows up to the iterator's position, each
once, as recorded; a command that failed met an id that is none, a database
that failed, or a row that is not sound, and one that printed met none of these. That the filter loop keeps what passes and nothing else is an
induction over its rounds, by a least round for which it would not (`LeastIn`
of `DataLemmas`).

**CliPostProofs** — for any subcommands, option values and keys:
`PrintedReadsBackHolds` and `DetachedSignatureHolds`. What a subcommand builds
has exactly the keys its options name, with their values, the type number the
tables give it (`CommandRow`) and `enc` for direct messages alone (`EventSays`),
whatever the order in which they were given, and every value is of the kind the parser takes under its key
(`EventTyped`). So parsing adds the scheme that `enc` stands for and nothing else
(`PlainParsed`), and validation sees neither that nor the signature (`Unseen`):
a payload that was printed is read strictly, and the bytes to sign are its map
without the signature (`PlainReads`), which the same options without `--sig-hex`
print as well (`UnsignedEvent`). The invariant `CliInv` ties every printed
payload to its subcommand and options, and every signature among those to a map that was
signed; without it a signature that verifies need not have been made.

**RequestAuthProofs** — for every window, integer width, set of hosts, and
rotation: `WindowIsExact`, that the wrapped difference of any two timestamps
decides the window as true arithmetic does; and `AcceptedWasSignedHolds`,
`AcceptedInTimeHolds`, `RefusedForAReasonHolds`. They follow from one invariant:
every request under way carries the tag its sender computed over what it sent,
the headers a proxy kept still say what the sender wrote, and no clock but a
broken one stamped it further than `MaxOffset` from the time it was sent. The
properties speak of a request a receiver has just handled; without the invariant
nothing connects its headers with the sender.

**GroupEnvelopeProofs** — for any servers, channels, epochs, master keys, members
and bodies, and nonces and tags of any length but none: `FanOutExactHolds`,
`ReadsRightHolds`, `HoldersReadHolds`, `RosterExactHolds`. The lemmas say that
the code's labels and bindings determine what went into them:
`MatchTagInjective`, `MemberTagInjective`, `FieldKeyInjective`, `AadInjective`;
that a field on the wire comes apart as it was put together (`WireBack`), opens
only as it was sealed (`OpensRight`), and not at all without its last byte
(`CutOpensNot`). The invariant: every field of every event is one that was
sealed, or such a field cut short; an event that is not faulty has its own; and
the roster is the tags of those who are present.

**StateHashProofs** — for any indexers, tree of blocks, projections and orders of
arrival: `OneHashPerHistoryHolds` and `ImplementsStateLogHolds`, the refinement
of StateLog. The argument goes from the bytes to the histories:

- *Sorting* (`SortedBytes`): exactly one permutation of a block's events has
  their ids in order, the one that puts an id at its rank, so the bytes hashed
  do not depend on the order of arrival (`BlockBytes`).
- *Bodies* (`Unflatten`): the library's fold concatenates the bodies one by one
  (`FlattenIs`), and two lists of bodies none of which begins another have the
  same concatenation only if they are the same list, by the first place at which
  they would differ.
- *Header* (`HeadersApart`): the first byte says how long the header is, so equal
  bytes have equal bodies after it. With that the bytes of two blocks are equal
  just where their projections are (`BytesTell`).
- *Chain* (`HashesTell`, `AlikeHashes`): a hash holds the one before it and is
  not the genesis hash, so equal hashes stand at the same height over the same
  projections, by the lowest height at which they would not.
- *Indexers*: the invariant `HashInv` says that what an indexer holds, and what
  it answered with when it last was asked, are the hashes along one path of the
  tree; the forks it visited and undid have left nothing. It is inductive.
- *Client* (`ConvergedIsAgreed`): DAA scores rise along a path and so name its
  blocks (`DaaNames`). So the scores at which the hashes of all indexers converge
  are those up to which their histories agree, and every step maps to a step of
  StateLog or to none (`LogSteps`).

What the proofs assume, and why the code justifies it:

- `U64Assumption`, `RequestsAssumption`: `U64Max` is a number; the priority fee
  is a u64.
- `OutputsAssumption`: the address is paid finitely many outputs, each with an
  amount, and none of them by a command. `FloorAssumption`: the floor of a
  transaction that spends all of them fits u64, which 10^14 outputs would break.
- `DraftsAssumption`, `OverlaysAssumption`, `ForeignAssumption`: drafts are
  events, edits assign fields an event has, and clearing never removes `v`, `t`
  or `enc`, which are no `Option` in the code.
- `SignatureAssumption`: Ed25519 is unforgeable. A `sig` that a draft or an edit
  brings along covers no event's map; those that do come from `Sign`.
- `WindowAssumption`: window and clocks fit the integer type together.
  `EndpointsAssumption`: no two receivers share method and path.
  `TimestampsAssumption`: a broken clock gives an i64.
- `EnvelopeAssumption`: members start with keys, and bodies are byte sequences.
- `CoinsAssumption`, `TableAssumption`, `FiltersAssumption`: amounts and DAA
  scores are numbers, the table lists each key once, an option has one value.
- `BlocksAssumption`: the DAA score of a block is above that of its parent, as the
  consensus has it; a block accepts finitely many transactions. `SelfDelimiting`
  of `StateHash`: a body is bytes, and none is the proper beginning of another.
  That is what `CanonicalWalk` finds of canonical CBOR (the property of the same
  name), which the caller contract asks of the bodies (`state_hash.rs:44-46`).
- `OptionValuesAssumption`: every subcommand in use is in the tables; the value
  of an option is of its kind, as `clap` and the hex parsers leave it, or refused.
- The bounds are numbers.

Checked by TLC only:

- `EveryPostSettles` and `EveryReadEnds`: liveness, which needs `ENABLED`.
- `AcceptsExactlyCanonical` and `SelfDelimiting`: the walker and the grammar of
  `CanonicalWalk` are recursive over the bytes, as the code is.

## 5. What is abstracted or left out

- Which error a refused event gets, except where a caller acts on it
  (`OpaqueEventType`, `UnsupportedVersion`).
- In `KommsPayload`, the byte walk of the canonical walker: `form` says whether a
  spelling is canonical; value types and nesting are kept. `CanonicalWalk` is the
  walk itself.
- A `ParsedKommsEvent` assembled by hand may hold extension keys below 33 and maps
  the encoder would write out of order; here `extension_fields` has keys of 33 to
  255, as the parser fills it, and a value the walker refuses may be in one. Which
  error `verify_event` returns is kept but for `InvalidPubkey`, which is one with
  `SignatureInvalid`: nothing told apart here depends on it.
- The fields of an index row are atomic: a row is refused, or read without its
  last field, but cannot be read with its bytes shifted.
- All indexers of `StateHash` begin at the same block, `Root`. Two that begin at
  different blocks have different hashes ever after by the construction
  (`state_hash.rs:115-124`), and nothing is said of them.
- In `RequestAuth` the newline-joined input of the tag is a record of its parts:
  method, path and header values come from HTTP, which has no newline in them.
  The signer's own values are not trimmed by the code, the receiver's are; a
  host id with spaces at its ends, which could never authenticate, is left out, as
  are spaces around a signature and other spellings of a timestamp that parse to
  the same number (`+5`, `007`).
- In `PostSubmit` an address that is a script hash, for which every run ends
  before it sends anything (`submit.rs:160-164`), and the error of the contextual
  mass (`submit.rs:181-183`), which belongs to the storage mass below.
- That kaspad lists blocks from `low_hash` upwards is taken from how the command
  uses `get_blocks`; kaspad is not part of the repository.
- Hashes, signatures, HMAC, HKDF and AES-GCM are free constructors: an Ed25519
  signature is the pair of key and map. Nothing is said of their strength.
- `server_id`, `channel_id`, `message_id` and `dm_thread_id`, which nothing in
  `src/` calls.
- Fields of an index row that are only copied.
- The node's mass is taken to be what `predicted_compute_mass` predicts, its
  upper bound by the comment at `submit.rs:38-47`. The node's limit on storage
  mass, which a very small change output would exceed, is not modelled.
- JSON output, id printing, `ref-inspect`, `verify-content` and input loading:
  single pure calls without state.

## 6. Plan

1. *Done*: KommsPayload, PayloadRelay, UtxoSelection, PostSubmit, CliPost with
   their runs, and the theorems above.
2. *Done*: StateHash with StateLog, ReadTx and ReadIndex in KommsRead,
   RequestAuth with its theorems, CanonicalWalk, GroupEnvelope, and MessageBoard,
   which PostSubmit implements.
3. *Done*: the theorems of section 4.
4. *Done*: the proofs for StateHash, and that it implements StateLog.
5. The node's storage-mass rule, with which `pick_utxos` could be shown to
   choose a change output the node will not take.
