------------------------------- MODULE ReadTx -------------------------------
(***************************************************************************)
(* fetch_transaction_payload of src/read_rpc.rs: `komms read tx` looks for *)
(* one transaction at a node while blocks come and go.  Every request is   *)
(* an await, so the node moves between any two of them.                    *)
(*                                                                         *)
(* The node is external.  It lists the blocks under its sink, oldest       *)
(* first, in pages that begin with the block asked for, or with the oldest *)
(* it lists: so the command uses it, which asks for the blocks from        *)
(* low_hash up, from nowhere at first and then from the last block it was  *)
(* given (read_rpc.rs:42-56).  A block the node has seen can be fetched    *)
(* even when it is not under the sink any more.                            *)
(***************************************************************************)
EXTENDS Integers, SequencesExt

CONSTANTS
  MaxPasses,    \* requests for a page; 250 in the code
  PageSize,     \* the node's
  MaxBlocks,    \* bound: blocks there ever are
  MaxMoves,     \* bound: blocks undone and evictions
  MaxFaults     \* bound: requests that fail

ASSUME PagesAssumption == MaxPasses \in Nat \ {0} /\ PageSize \in Nat \ {0, 1}
ASSUME BoundsAssumption == MaxBlocks \in Nat /\ MaxMoves \in Nat /\ MaxFaults \in Nat

VARIABLES
  pool,         \* is the transaction in the mempool?
  blocks,       \* the listed blocks: [n, has, below]
  seen,         \* every block the node has
  pc, hint, low, left,      \* the command, where it is and with what
  moves, moved,             \* bound and history: was the transaction moved?
  present,                  \* history: was it at the node from the start?
  faults

node == <<pool, blocks, seen>>
command == <<pc, hint, low, left>>
history == <<moves, moved, present>>
vars == <<node, command, history, faults>>

NoBlock == [n |-> 0, has |-> FALSE, below |-> {}]

Listed(has, under) ==
  [n |-> Cardinality(seen) + 1, has |-> has, below |-> {b.n : b \in Range(under)}]

Chain(k, at) ==
  [i \in 1 .. k |-> [n |-> i, has |-> i = at, below |-> 1 .. i - 1]]

\* The transaction is in the mempool, in block `at`, or not there yet.
Init ==
  /\ \E k \in 1 .. MaxBlocks - 1 : \E at \in 0 .. k :
       /\ blocks = Chain(k, at)
       /\ pool \in BOOLEAN /\ (at > 0 => ~ pool)
       /\ present = (pool \/ at > 0)
  /\ seen = Range(blocks)
  /\ hint \in seen \cup {NoBlock, [NoBlock EXCEPT !.n = MaxBlocks + 1]}
  /\ pc = "pool" /\ low = NoBlock /\ left = MaxPasses
  /\ moves = 0 /\ moved = FALSE /\ faults = 0

Has(page) == \E i \in DOMAIN page : page[i].has

---------------------------------------------------------------------------
(* The command.                                                            *)

End(how) == pc' = how

\* get_mempool_entry; any error counts as absence.
LookInPool ==
  /\ pc = "pool"
  /\ IF pool THEN End("found")
     ELSE pc' = IF hint = NoBlock THEN "pages" ELSE "hint"
  /\ UNCHANGED <<node, hint, low, left, history, faults>>

PoolFails ==
  /\ pc = "pool" /\ faults < MaxFaults
  /\ pc' = IF hint = NoBlock THEN "pages" ELSE "hint"
  /\ faults' = faults + 1
  /\ UNCHANGED <<node, hint, low, left, history>>

\* get_block of --block-hash: a block the node does not have ends the command,
\* one without the transaction does not.
LookAtHint_NoTransactions ==                                          \* mutation
  /\ pc = "hint"
  /\ IF hint \notin seen THEN End("failed") ELSE pc' = "pages"
  /\ UNCHANGED <<node, hint, low, left, history, faults>>
LookAtHint ==
  /\ pc = "hint"
  /\ IF hint \notin seen THEN End("failed")
     ELSE IF hint.has THEN End("found")
     ELSE pc' = "pages"
  /\ UNCHANGED <<node, hint, low, left, history, faults>>

\* The blocks that come no later than the cursor.
Behind == {i \in DOMAIN blocks : blocks[i] = low \/ blocks[i].n \in low.below}

Page ==
  LET rest == SubSeq(blocks, Cardinality(Behind) + 1, Len(blocks))
      all == IF low = NoBlock THEN rest ELSE <<low>> \o rest
  IN  SubSeq(all, 1, IF Len(all) < PageSize THEN Len(all) ELSE PageSize)

OneLess_NoBound(n) == n                                               \* mutation
OneLess(n) == n - 1

Cursor_FirstOfPage(page) == Head(page)                                \* mutation
Cursor(page) == Last(page)

\* get_blocks, from the last block of the page before.
LookAtPage ==
  /\ pc = "pages"
  /\ IF Page = <<>> THEN End("missing") /\ UNCHANGED <<low, left>>
     ELSE IF Has(Page) THEN End("found") /\ UNCHANGED <<low, left>>
     ELSE /\ low' = Cursor(Page)
          /\ left' = OneLess(left)
          /\ pc' = IF left' = 0 THEN "missing" ELSE "pages"
  /\ UNCHANGED <<node, hint, history, faults>>

\* The connection breaks while get_block or get_blocks is under way.
RequestFails ==
  /\ pc \in {"hint", "pages"} /\ faults < MaxFaults
  /\ End("failed")
  /\ faults' = faults + 1
  /\ UNCHANGED <<node, hint, low, left, history>>

\* A block of the answer holds a transaction that cannot be converted
\* (find_payload_in_block).
BadTransaction ==
  /\ \/ pc = "hint" /\ hint \in seen
     \/ pc = "pages" /\ Page # <<>>
  /\ faults < MaxFaults
  /\ End("failed")
  /\ faults' = faults + 1
  /\ UNCHANGED <<node, hint, low, left, history>>

---------------------------------------------------------------------------
(* The node.                                                               *)

Running == pc \in {"pool", "hint", "pages"}

\* Somebody submits the transaction.
Arrive ==
  /\ Running /\ ~ pool /\ ~ Has(blocks)
  /\ pool' = TRUE
  /\ UNCHANGED <<blocks, seen, command, history, faults>>

\* A block, with the transaction if it was waiting and fits.
Mine ==
  /\ Running /\ Cardinality(seen) < MaxBlocks
  /\ \E has \in {FALSE, pool} :
       LET b == Listed(has, blocks) IN
       /\ blocks' = Append(blocks, b)
       /\ seen' = seen \cup {b}
       /\ pool' = (pool /\ ~ has)
  /\ UNCHANGED <<command, history, faults>>

\* The last block leaves the list; what it had waits again.
Undo ==
  /\ Running /\ moves < MaxMoves /\ Len(blocks) > 1
  /\ blocks' = Front(blocks)
  /\ pool' = (pool \/ Last(blocks).has)
  /\ moves' = moves + 1
  /\ moved' = (moved \/ Last(blocks).has)
  /\ UNCHANGED <<seen, command, present, faults>>

Evict ==
  /\ Running /\ moves < MaxMoves /\ pool
  /\ pool' = FALSE
  /\ moves' = moves + 1 /\ moved' = TRUE
  /\ UNCHANGED <<blocks, seen, command, present, faults>>

Command == LookInPool \/ LookAtHint \/ LookAtPage
Next ==
  \/ Command \/ PoolFails \/ RequestFails \/ BadTransaction
  \/ Arrive \/ Mine \/ Undo \/ Evict

Spec == Init /\ [][Next]_vars

---------------------------------------------------------------------------
(* Properties.                                                             *)

Position == CHOOSE i \in DOMAIN blocks : blocks[i].has

\* How many blocks the passes see: every page but the first repeats one.
Reach == 1 + MaxPasses * (PageSize - 1)

\* "transaction not found" is said of a transaction that was at the node when
\* the command began only if it was undone or evicted meanwhile, the mempool
\* could not be asked, or it lies further from the oldest block the node lists
\* than the pages reach: it is the newest blocks that a scan does not come to,
\* where read_rpc.rs:6 ("from the virtual tip") and lib.rs:156 ("recent") say it
\* begins with them and line 60 sends deep confirmations to --block-hash.  Being
\* mined while the command runs does not hide a transaction (mempool
\* first, read_rpc.rs:28, then the blocks), nor do blocks that come and go under
\* the cursor (line 56).
MissedOnlyIfMoved ==
  pc = "missing" /\ present /\ ~ moved /\ faults = 0 =>
    Has(blocks) /\ Position + moves > Reach

\* And never if --block-hash names a block that has it, however far away
\* (read_rpc.rs:37).
HintFinds == pc = "missing" => ~ hint.has
=============================================================================
