----------------------------- MODULE KommsRead ------------------------------
(***************************************************************************)
(* `komms read`: one of its two subcommands, `tx` against a node or        *)
(* `index` against an indexer's table (Commands::Read in src/lib.rs).      *)
(***************************************************************************)
EXTENDS ReadTx

CONSTANTS Keys, BadKeys, Records, BadIds, Filters

\* Keys come in order, each once; an option has one value or none.
ASSUME TableAssumption ==
  /\ Keys \in Seq(Range(Keys)) /\ IsInjective(Keys)
  /\ \A rec \in Records : rec.containing_daa \in Nat
ASSUME FiltersAssumption ==
  \A f \in Filters :
    /\ f.daa_min \subseteq Nat /\ f.daa_max \subseteq Nat
    /\ \A given \in {f.sid, f.cid, f.daa_min, f.daa_max} : \A x, y \in given : x = y

VARIABLES
  subcommand,
  table, written, version, listing, filter, at, entries, broken  \* of ReadIndex

Index == INSTANCE ReadIndex WITH pc <- listing

indexVars == <<table, written, version, listing, filter, at, entries, broken>>
readVars == <<subcommand, vars, indexVars>>

\* Where the subcommand that is not run stays.
TxIdle == Init /\ blocks = Chain(1, 0) /\ ~ pool /\ hint = NoBlock
IndexIdle == Index!Init /\ filter = CHOOSE f \in Filters : TRUE

ReadInit ==
  \/ subcommand = "tx" /\ Init /\ IndexIdle
  \/ subcommand = "index" /\ Index!Init /\ TxIdle

ReadNext ==
  \/ subcommand = "tx" /\ Next /\ UNCHANGED <<subcommand, indexVars>>
  \/ subcommand = "index" /\ Index!Next /\ UNCHANGED <<subcommand, vars>>

\* The node answers, and the database hands out rows.
ReadSpec ==
  /\ ReadInit /\ [][ReadNext]_readVars
  /\ WF_readVars(subcommand = "tx" /\ Command /\ UNCHANGED <<subcommand, indexVars>>)
  /\ WF_readVars(subcommand = "index" /\ Index!Command /\ UNCHANGED <<subcommand, vars>>)

---------------------------------------------------------------------------
(* Properties; those of ReadTx hold of both subcommands as they stand.     *)

\* What `read index` prints is what the indexer recorded (index_scan.rs:45-66,
\* lib.rs:1036-1061).
ListsWhatWasRecorded == Index!ListsWhatWasRecorded

\* `read index` prints just if it could read everything it was given and found
\* there; otherwise it fails and prints nothing (index_scan.rs:46-49, 70-83,
\* lib.rs:1033-1034).
AllOrNothing == Index!AllOrNothing

\* The command ends, if the node answers: pages begin with the block asked for,
\* so none after the first is ever empty, and only the bound stops the loop
\* (read_rpc.rs:43), however the chain grows meanwhile; and so does a listing,
\* which reads a snapshot the indexer no longer adds to (index_scan.rs:72).
EveryReadEnds ==
  <>(pc \in {"found", "missing", "failed"} \/ listing \in {"printed", "failed"})
=============================================================================
