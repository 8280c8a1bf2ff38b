-------------------------- MODULE MCUtxoSelection ---------------------------
(***************************************************************************)
(* Ten outputs with ties, on either side of the fee of one to four inputs. *)
(***************************************************************************)
EXTENDS UtxoEntries

MCCoins == {[ix |-> i, amount |-> a] :
             i \in 1 .. 2, a \in {90000, 111801, 163600, 175000, 275500}}
MCRequests == {[len |-> l, priority |-> p] : l \in {72, 119}, p \in {0, 60000}}
=============================================================================
