--------------------------- MODULE UtxoSelection ----------------------------
(***************************************************************************)
(* pick_utxos, required_fee and predicted_compute_mass of                  *)
(* src/submit.rs.                                                          *)
(*                                                                         *)
(* A UTXO is a record with an `amount`; a request has the payload's `len`  *)
(* and the `priority` fee the user asked for.  The code walks the UTXOs in *)
(* descending order of amount, so the inputs it has picked after n steps   *)
(* are n largest ones: a set closed upwards.  Ties are ordered as the node *)
(* listed them, which is any order.                                        *)
(***************************************************************************)
EXTENDS Integers, FiniteSets, FiniteSetsExt

CONSTANTS
  U64Max,             \* the largest u64
  OverflowChecks,     \* TRUE in a debug build, where u64 overflow panics
  Requests            \* payload length and priority fee a command may have

ASSUME U64Assumption == U64Max \in Nat /\ OverflowChecks \in BOOLEAN
ASSUME RequestsAssumption ==
  \A r \in Requests : r.len \in Nat /\ r.priority \in 0 .. U64Max

MinRelayFeePerGram == 100
BaseTxBytes == 94
SignedP2pkInputBytes == 118
P2pkOutputBytes == 53
SpkMass == 370              \* (2 + 35) bytes at 10 grams
GramsPerSigop == 1000

PredictedComputeMass(n, outs, len) ==
  BaseTxBytes + (SignedP2pkInputBytes + GramsPerSigop) * n
    + (P2pkOutputBytes + SpkMass) * outs + len

\* The fee before it is cut to 64 bits, and what the program computes.
RawFee(n, r) ==
  MinRelayFeePerGram * PredictedComputeMass(n, 1, r.len) + r.priority
RequiredFee_ForgetsPayload(n, r) ==                                   \* mutation
  MinRelayFeePerGram * PredictedComputeMass(n, 1, 0) + r.priority
RequiredFee_TakesMax(n, r) ==                                         \* mutation
  IF r.priority > RawFee(n, r) - r.priority THEN r.priority ELSE RawFee(n, r)
RequiredFee(n, r) == RawFee(n, r) % (U64Max + 1)

TotalAmount(S) == MapThenSumSet(LAMBDA u : u.amount, S)

\* What has been picked after some steps of the loop.
Prefixes_Ascending(E) ==                                              \* mutation
  {P \in (SUBSET E) \ {{}} : \A x \in P, y \in E \ P : x.amount <= y.amount}
Prefixes_Unsorted(E) == (SUBSET E) \ {{}}                               \* mutation
Prefixes(E) ==
  {P \in (SUBSET E) \ {{}} : \A x \in P, y \in E \ P : x.amount >= y.amount}

Pays_NextInput(P, r) ==                                               \* mutation
  TotalAmount(P) > RequiredFee(Cardinality(P) + 1, r)
Pays_FloorOnly(P, r) ==                                               \* mutation
  TotalAmount(P) > RequiredFee(Cardinality(P), [len |-> r.len, priority |-> 0])
Pays(P, r) == TotalAmount(P) > RequiredFee(Cardinality(P), r)

\* The prefixes the loop gets to: nothing shorter pays.
Tried(E, r) ==
  {P \in Prefixes(E) : \A Q \in Prefixes(E) : Q \subseteq P /\ Q # P => ~ Pays(Q, r)}

\* The selections the program may make; none when it bails out.
PickUtxos(E, r) == {P \in Tried(E, r) : Pays(P, r)}

Overflows(E, r) == \E P \in Tried(E, r) : RawFee(Cardinality(P), r) > U64Max
Panics(E, r) == OverflowChecks /\ Overflows(E, r)

ChangeOutput_NoPriority(P, r) ==                                      \* mutation
  TotalAmount(P) - (RequiredFee(Cardinality(P), r) - r.priority)
ChangeOutput(P, r) == TotalAmount(P) - RequiredFee(Cardinality(P), r)
=============================================================================
