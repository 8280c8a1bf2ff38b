----------------------------- MODULE StateHash ------------------------------
(***************************************************************************)
(* The cumulative state hash of crypto/src/state_hash.rs, in the hands of  *)
(* the indexers and the client its module comment describes.  The indexers *)
(* are external: they follow a tree of accepting blocks, project a block's *)
(* events, in whatever order those arrived, and go back to the stable      *)
(* ancestor when a block is undone (lines 38-56).                          *)
(*                                                                         *)
(* BLAKE2b is a free constructor over the prior hash and the bytes fed to  *)
(* it after that.  A projection's canonical CBOR is opaque and delimits    *)
(* itself: no body is a proper prefix of another.                          *)
(***************************************************************************)
EXTENDS CborHead, SequencesExt

CONSTANTS
  Indexers,
  Blocks,         \* accepting blocks
  Parent,         \* block -> its parent, or Root
  Root,           \* where every indexer starts
  Daa,            \* block -> its DAA score
  Accepted,       \* block -> the ids of the transactions it accepts
  Projection      \* indexer -> transaction id -> canonical CBOR of the event

\* Transaction ids are 32 bytes, compared as numbers.
ASSUME BlocksAssumption ==
  /\ Root \notin Blocks
  /\ Parent \in [Blocks -> Blocks \cup {Root}]
  /\ Daa \in [Blocks -> Nat \ {0}]
  /\ \A b \in Blocks :
       /\ Parent[b] \in Blocks => Daa[Parent[b]] < Daa[b]
       /\ IsFiniteSet(Accepted[b]) /\ Accepted[b] \subseteq Nat

ASSUME SelfDelimiting ==
  \A i, j \in Indexers, t, u \in UNION {Accepted[b] : b \in Blocks} :
    /\ Projection[i][t] \in Seq(0 .. 255) \ {<<>>}
    /\ IsPrefix(Projection[i][t], Projection[j][u])
         => Projection[i][t] = Projection[j][u]

VARIABLES
  chain,    \* the blocks each indexer has followed
  hashes,   \* and the state hash it keeps for each
  answer,   \* the hashes a client last had from each, with their DAA scores
  asked,    \* history: the blocks behind that answer
  tip       \* the client's confirmed tip; 0 before the first

vars == <<chain, hashes, answer, asked, tip>>

---------------------------------------------------------------------------
(* The crate.                                                              *)

Blake2b256(prior, bytes) == [prior |-> prior, bytes |-> bytes]

\* The domain prefix takes the place of a prior hash.
StateHashGenesis == Blake2b256({}, <<>>)

ProjectedEvent(i, t) == [tx_id |-> t, canonical_cbor |-> Projection[i][t]]

\* indices.sort_by(..): a stable sort of the events' indices by transaction id.
SortedIndices(events) ==
  CHOOSE p \in SetToSeqs(DOMAIN events) :
    \A k, l \in DOMAIN p : k < l =>
      \/ events[p[k]].tx_id < events[p[l]].tx_id
      \/ events[p[k]].tx_id = events[p[l]].tx_id /\ p[k] < p[l]

\* The header and the bodies of the events, in the order of these indices.
ArrayBytes(events, indices) ==
  EncodeCborUintHeader(128, Len(events))
    \o FlattenSeq([k \in DOMAIN indices |-> events[indices[k]].canonical_cbor])

StateHashNext_ArrivalOrder(prior, events) ==                          \* mutation
  Blake2b256({prior}, ArrayBytes(events, [k \in DOMAIN events |-> k]))
StateHashNext_ForgetsPrior(prior, events) ==                          \* mutation
  Blake2b256({}, ArrayBytes(events, SortedIndices(events)))
StateHashNext(prior, events) ==
  Blake2b256({prior}, ArrayBytes(events, SortedIndices(events)))

---------------------------------------------------------------------------
(* Indexers and a client.                                                  *)

TipOf(i) == IF chain[i] = <<>> THEN Root ELSE Last(chain[i])
HashOf(i) == IF hashes[i] = <<>> THEN StateHashGenesis ELSE Last(hashes[i])

Arrivals(i, b) ==
  {[k \in DOMAIN s |-> ProjectedEvent(i, s[k])] : s \in SetToSeqs(Accepted[b])}

Init ==
  /\ chain = [i \in Indexers |-> <<>>]
  /\ hashes = [i \in Indexers |-> <<>>]
  /\ answer = [i \in Indexers |-> {}]
  /\ asked = [i \in Indexers |-> <<>>]
  /\ tip = 0

Advance(i, b) ==
  /\ Parent[b] = TipOf(i)
  /\ chain' = [chain EXCEPT ![i] = Append(@, b)]
  /\ \E events \in Arrivals(i, b) :
       hashes' = [hashes EXCEPT ![i] =
         Append(@, StateHashNext(HashOf(i), events))]
  /\ UNCHANGED <<answer, asked, tip>>

\* A reorg: the hash of the ancestor is what the next block builds on.
Undo(i) ==
  /\ chain[i] # <<>>
  /\ chain' = [chain EXCEPT ![i] = Front(@)]
  /\ hashes' = [hashes EXCEPT ![i] = Front(@)]
  /\ UNCHANGED <<answer, asked, tip>>

Query(i) ==
  /\ answer' = [answer EXCEPT ![i] =
       {[daa |-> Daa[chain[i][k]], hash |-> hashes[i][k]] : k \in DOMAIN chain[i]}]
  /\ asked' = [asked EXCEPT ![i] = chain[i]]
  /\ UNCHANGED <<chain, hashes, tip>>

Converged == {r.daa : r \in {s \in UNION Range(answer) :
                               \A i \in Indexers : s \in answer[i]}}

\* "the highest accepting-DAA where the state hashes converge"
Confirm ==
  /\ Converged # {}
  /\ tip' = Max(Converged)
  /\ UNCHANGED <<chain, hashes, answer, asked>>

Next ==
  \/ \E i \in Indexers : Undo(i) \/ Query(i) \/ \E b \in Blocks : Advance(i, b)
  \/ Confirm

Spec == Init /\ [][Next]_vars

---------------------------------------------------------------------------
(* Properties.                                                             *)

\* What an indexer makes of a block: its projections, each with its place in
\* the order of the transaction ids.  The ids themselves are not hashed.
Projected(i, b) ==
  {<<Cardinality({u \in Accepted[b] : u < t}), Projection[i][t]>> : t \in Accepted[b]}

Log(i, blocks) ==
  [k \in DOMAIN blocks |->
     [daa |-> Daa[blocks[k]], events |-> Projected(i, blocks[k])]]

\* Comparing one hash for each block tells a client as much as comparing the
\* whole histories would: it confirms exactly the DAA scores up to which every
\* indexer projected the same events, block by block, whatever order events
\* came in and whatever was undone in between (state_hash_next).
Abstract == INSTANCE StateLog WITH
  Daas <- Range(Daa),
  Contents <- {Projected(i, b) : i \in Indexers, b \in Blocks},
  log <- [i \in Indexers |-> Log(i, chain[i])],
  reply <- [i \in Indexers |-> Log(i, asked[i])]
ImplementsStateLog == Abstract!Spec

\* Indexers hold the same hash just where they projected the same, block by
\* block, however each got there: orders of arrival, other forks visited and
\* undone, blocks projected differently and hashed over since, blocks without
\* events (sort at state_hash.rs:115, chaining at line 118).
OneHashPerHistory ==
  \A i, j \in Indexers :
    HashOf(i) = HashOf(j)
      <=> [k \in DOMAIN chain[i] |-> Projected(i, chain[i][k])]
            = [k \in DOMAIN chain[j] |-> Projected(j, chain[j][k])]
=============================================================================
