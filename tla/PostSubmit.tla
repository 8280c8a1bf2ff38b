----------------------------- MODULE PostSubmit -----------------------------
(***************************************************************************)
(* submit_komms_payload of src/submit.rs, run by several `komms post`      *)
(* commands of one address against one node, and by users who run a failed *)
(* command again.                                                          *)
(*                                                                         *)
(* A command reads the address's UTXOs (an await), picks inputs and builds *)
(* and signs a transaction, and submits it (an await).  Nothing is locked  *)
(* or remembered between the two, or from one run to the next.  The node   *)
(* is external: it lists confirmed outputs only, refuses what spends a     *)
(* missing or already claimed output or pays less than its floor, mines,   *)
(* may evict a transaction and may undo a block.                           *)
(***************************************************************************)
EXTENDS UtxoSelection, Sequences

CONSTANTS
  Posts,              \* the commands users run, one message each
  Genesis,            \* the address's outputs at the start
  Deposits,           \* outputs others may pay to the address meanwhile
  MaxDisconnects,     \* bound: runs that end without an answer
  MaxReorgs,          \* bound: transactions undone by the chain
  MaxEvictions        \* bound: transactions the node drops

ASSUME BoundsAssumption ==
  MaxDisconnects \in Nat /\ MaxReorgs \in Nat /\ MaxEvictions \in Nat
ASSUME OutputsAssumption ==
  /\ IsFiniteSet(Genesis \cup Deposits) /\ Genesis \cap Deposits = {}
  /\ \A u \in Genesis \cup Deposits : u.src = {} /\ u.amount \in Nat
\* Even a transaction that spends every output there is weighs less than 64
\* bits of fee: it would take 10^14 outputs.
ASSUME FloorAssumption ==
  \A r \in Requests :
    MinRelayFeePerGram
      * PredictedComputeMass(Cardinality(Genesis \cup Deposits), 1, r.len) <= U64Max

VARIABLES
  req,          \* what each command was given
  pc,           \* how far the current run of each command is
  view,         \* the UTXOs it read
  tx,           \* the transaction it built: {} or a singleton
  answer,       \* how its last run ended, or what the node said
  stray,        \* transactions of runs that gave up, not yet at the node
  utxos,        \* the node's UTXO index: confirmed, unspent
  mempool,
  confirmed,
  deposited,
  built,        \* history: every transaction built, and from which view
  unanswered,   \* history: the command of each disconnect
  reorgs, evictions

run == <<pc, view, tx, answer>>
node == <<utxos, mempool, confirmed, deposited>>
faults == <<unanswered, reorgs, evictions>>
vars == <<req, run, stray, node, built, faults>>

\* An output names the transaction that made it; a payment from outside, none.
Coin(i, a) == [src |-> {}, ix |-> i, amount |-> a]
Change(t) == [src |-> {t}, ix |-> 0, amount |-> t.out]

Conflict(s, t) == s.inputs \cap t.inputs # {}
FeeOf(t) == TotalAmount(t.inputs) - t.out
Floor(t) ==
  MinRelayFeePerGram
    * PredictedComputeMass(Cardinality(t.inputs), 1, req[t.post].len)

Verdict(t) ==
  IF FeeOf(t) < Floor(t) THEN "underpaid"
  ELSE IF ~ (t.inputs \subseteq utxos) THEN "missing"
  ELSE IF \E s \in mempool : Conflict(s, t) THEN "conflict"
  ELSE "ok"

Admitted(t) == IF Verdict(t) = "ok" THEN {t} ELSE {}

Init ==
  /\ req \in [Posts -> Requests]
  /\ pc = [p \in Posts |-> "start"]
  /\ view = [p \in Posts |-> {}]
  /\ tx = [p \in Posts |-> {}]
  /\ answer = [p \in Posts |-> "none"]
  /\ stray = {}
  /\ utxos = Genesis
  /\ mempool = {} /\ confirmed = {} /\ deposited = {}
  /\ built = {}
  /\ unanswered = <<>>
  /\ reorgs = 0 /\ evictions = 0

---------------------------------------------------------------------------
(* A run of the command.                                                   *)

\* get_utxos_by_addresses
Fetch(p) ==
  /\ pc[p] = "start"
  /\ view' = [view EXCEPT ![p] = utxos]
  /\ pc' = [pc EXCEPT ![p] = "fetched"]
  /\ UNCHANGED <<req, tx, answer, stray, node, built, faults>>

Fail(p, why) ==
  /\ pc' = [pc EXCEPT ![p] = "failed"]
  /\ answer' = [answer EXCEPT ![p] = why]

\* The node cannot be reached, or lists no UTXOs, before anything is sent.
FetchFails(p) ==
  /\ pc[p] = "start"
  /\ Fail(p, "unreachable")
  /\ UNCHANGED <<req, view, tx, stray, node, built, faults>>

\* pick_utxos, then the transaction is built, signed and sent.
Submit(p) ==
  /\ pc[p] = "fetched"
  /\ ~ Panics(view[p], req[p])
  /\ \E P \in PickUtxos(view[p], req[p]) :
       LET t == [post |-> p, inputs |-> P, out |-> ChangeOutput(P, req[p])] IN
       /\ tx' = [tx EXCEPT ![p] = {t}]
       /\ built' = built \cup {[tx |-> t, view |-> view[p]]}
  /\ pc' = [pc EXCEPT ![p] = "sent"]
  /\ view' = [view EXCEPT ![p] = {}]
  /\ UNCHANGED <<req, answer, stray, node, faults>>

\* "insufficient UTXOs for fee + output"
BailOut(p) ==
  /\ pc[p] = "fetched"
  /\ ~ Panics(view[p], req[p])
  /\ PickUtxos(view[p], req[p]) = {}
  /\ Fail(p, "insufficient")
  /\ view' = [view EXCEPT ![p] = {}]
  /\ UNCHANGED <<req, tx, stray, node, built, faults>>

\* A debug build stops at the overflowing addition of required_fee.
Panic(p) ==
  /\ pc[p] = "fetched"
  /\ Panics(view[p], req[p])
  /\ Fail(p, "panic")
  /\ view' = [view EXCEPT ![p] = {}]
  /\ UNCHANGED <<req, tx, stray, node, built, faults>>

\* The node handles the request of a run that waits for it.
Answer(p) ==
  /\ pc[p] = "sent"
  /\ \E t \in tx[p] :
       /\ answer' = [answer EXCEPT ![p] = Verdict(t)]
       /\ mempool' = mempool \cup Admitted(t)
  /\ pc' = [pc EXCEPT ![p] = "answered"]
  /\ UNCHANGED <<req, view, tx, stray, utxos, confirmed, deposited, built, faults>>

\* The reply arrives: a transaction id, or an error.
Finish_AnyAnswerFails(p) ==                                           \* mutation
  /\ pc[p] = "answered"
  /\ pc' = [pc EXCEPT ![p] = "failed"]
  /\ UNCHANGED <<req, view, tx, answer, stray, node, built, faults>>
Finish_AnyAnswerIsSuccess(p) ==                                      \* mutation
  /\ pc[p] = "answered"
  /\ pc' = [pc EXCEPT ![p] = "done"]
  /\ UNCHANGED <<req, view, tx, answer, stray, node, built, faults>>
Finish(p) ==
  /\ pc[p] = "answered"
  /\ pc' = [pc EXCEPT ![p] = IF answer[p] = "ok" THEN "done" ELSE "failed"]
  /\ UNCHANGED <<req, view, tx, answer, stray, node, built, faults>>

\* The connection breaks while the run waits; what it sent may still arrive.
Disconnect(p) ==
  /\ Len(unanswered) < MaxDisconnects
  /\ pc[p] \in {"sent", "answered"}
  /\ stray' \in {stray, stray \cup (IF pc[p] = "sent" THEN tx[p] ELSE {})}
  /\ Fail(p, "disconnected")
  /\ unanswered' = Append(unanswered, p)
  /\ UNCHANGED <<req, view, tx, node, built, reorgs, evictions>>

\* The user runs the same command again.
Rerun(p) ==
  /\ pc[p] = "failed"
  /\ answer[p] # "panic"
  /\ pc' = [pc EXCEPT ![p] = "start"]
  /\ tx' = [tx EXCEPT ![p] = {}]
  /\ answer' = [answer EXCEPT ![p] = "none"]
  /\ UNCHANGED <<req, view, stray, node, built, faults>>

---------------------------------------------------------------------------
(* The node.                                                               *)

\* The request of a run that gave up arrives after all; nobody reads the reply.
StrayArrives(t) ==
  /\ mempool' = mempool \cup Admitted(t)
  /\ stray' = stray \ {t}
  /\ UNCHANGED <<req, run, utxos, confirmed, deposited, built, faults>>

Mine(t) ==
  /\ t.inputs \subseteq utxos
  /\ utxos' = (utxos \ t.inputs) \cup {Change(t)}
  /\ mempool' = mempool \ {t}
  /\ confirmed' = confirmed \cup {t}
  /\ UNCHANGED <<req, run, stray, deposited, built, faults>>

\* A block is undone: the transaction waits again, and before whatever spends
\* its change.
Reorg(t) ==
  /\ reorgs < MaxReorgs
  /\ Change(t) \in utxos
  /\ utxos' = (utxos \ {Change(t)}) \cup t.inputs
  /\ mempool' = mempool \cup {t}
  /\ confirmed' = confirmed \ {t}
  /\ reorgs' = reorgs + 1
  /\ UNCHANGED <<req, run, stray, deposited, built, unanswered, evictions>>

\* The node forgets a transaction it had accepted, and what spends its change.
Evict(t) ==
  /\ evictions < MaxEvictions
  /\ mempool' = {s \in mempool : s # t /\ Change(t) \notin s.inputs}
  /\ evictions' = evictions + 1
  /\ UNCHANGED <<req, run, stray, utxos, confirmed, deposited, built,
                 unanswered, reorgs>>

\* Somebody else pays the address.
Deposit(u) ==
  /\ u \notin deposited
  /\ utxos' = utxos \cup {u}
  /\ deposited' = deposited \cup {u}
  /\ UNCHANGED <<req, run, stray, mempool, confirmed, built, faults>>

Step(p) ==
  \/ Fetch(p) \/ Submit(p) \/ BailOut(p) \/ Panic(p)
  \/ Answer(p) \/ Finish(p) \/ Rerun(p)

Next ==
  \/ \E p \in Posts : Step(p) \/ FetchFails(p) \/ Disconnect(p)
  \/ \E t \in stray : StrayArrives(t)
  \/ \E t \in mempool : Mine(t) \/ Evict(t)
  \/ \E t \in confirmed : Reorg(t)
  \/ \E u \in Deposits : Deposit(u)

Spec == Init /\ [][Next]_vars

\* A process that can run does, the node answers and mines, and a user whose
\* command failed runs it again; not every request for the UTXOs fails.
Fairness ==
  /\ \A p \in Posts : WF_vars(Step(p)) /\ SF_vars(Fetch(p))
  /\ WF_vars(\E t \in mempool : Mine(t))

LiveSpec == Spec /\ Fairness

---------------------------------------------------------------------------
(* Properties.                                                             *)

States == {"start", "fetched", "sent", "answered", "done", "failed"}
Answers == {"none", "ok", "underpaid", "missing", "conflict", "insufficient",
            "panic", "unreachable", "disconnected"}

IsTx(t) ==
  /\ t.post \in Posts /\ t.out \in Nat
  /\ t.inputs # {}

\* Types: a run that waits has one transaction, of its own command, and every
\* transaction about was built by some run.
TypeOK ==
  /\ req \in [Posts -> Requests]
  /\ pc \in [Posts -> States]
  /\ answer \in [Posts -> Answers]
  /\ \A p \in Posts :
       /\ pc[p] \in {"sent", "answered", "done"} => tx[p] # {}
       /\ \A s, t \in tx[p] : s = t /\ t.post = p
  /\ \A t \in (UNION {tx[p] : p \in Posts}) \cup stray \cup mempool \cup confirmed :
       IsTx(t) /\ \E b \in built : b.tx = t

\* What the address lost is, to the sompi, what required_fee asks for each post
\* on chain, priority fee and payload included, however many runs raced, were
\* retried or undone (change computed at submit.rs:211-216).
Balance ==
  TotalAmount(utxos)
    + MapThenSumSet(LAMBDA t : RawFee(Cardinality(t.inputs), req[t.post]), confirmed)
  = TotalAmount(Genesis \cup deposited)

\* The node finds a post underpaid only when its fee does not fit u64: the
\* defect told at submit.rs:31-35 cannot come back.
UnderpaidOnlyOnOverflow ==
  \A p \in Posts :
    answer[p] = "underpaid" =>
      \E t \in tx[p] : RawFee(Cardinality(t.inputs), req[p]) > U64Max

\* A fee that wrapped around never gets a transaction in: whatever the node
\* holds pays its floor and the whole priority fee (submit.rs:68).
WrappedNeverLands ==
  \A t \in mempool \cup confirmed :
    FeeOf(t) = RawFee(Cardinality(t.inputs), req[t.post])

\* A message is on chain twice only if some run of its command ended without an
\* answer: every error the node or pick_utxos reports is safe to retry.
TwiceOnlyUnanswered ==
  \A s, t \in mempool \cup confirmed :
    s # t /\ s.post = t.post => \E i \in DOMAIN unanswered : unanswered[i] = s.post

Largest(S) == {u \in S : \A w \in S : u.amount >= w.amount}

\* And then only if each of the two runs saw an output, as large as any it saw,
\* that the other did not spend: picking the largest first makes a prompt retry
\* spend what the lost one spent, ties apart (sort at submit.rs:204).
TwiceOnlyOnNewView ==
  \A a, b \in built :
    /\ a.tx # b.tx /\ a.tx.post = b.tx.post
    /\ {a.tx, b.tx} \subseteq mempool \cup confirmed
    => Largest(b.view) \ a.tx.inputs # {}

Landed(p) == \E t \in confirmed : t.post = p
Affordable(p) ==
  \E S \in SUBSET utxos :
    TotalAmount(S) > RawFee(Cardinality(S), req[p]) /\ S # {}

\* Every message ends up on chain unless the address cannot pay for it, if the
\* user keeps trying: races between commands, lost answers and undone blocks
\* delay a post and never starve it (submit_komms_payload).
EveryPostSettles == \A p \in Posts : <>[](Landed(p) \/ ~ Affordable(p))
=============================================================================
