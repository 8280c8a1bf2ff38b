---------------------------- MODULE MCAlgorithms ----------------------------
(***************************************************************************)
(* The two algorithms that are checked against a reference definition over *)
(* bounded inputs, each on its own: validate_canonical, whose input grows  *)
(* byte by byte, and pick_utxos, whose list grows output by output.        *)
(***************************************************************************)
EXTENDS MCCanonicalWalk, MCUtxoSelection

Algorithm == <<vars, entries>>

Start == Init /\ NoEntries

Grow ==
  \/ entries = {} /\ Next /\ UNCHANGED entries
  \/ input = <<>> /\ (\E u \in Coins : Receive(u)) /\ UNCHANGED vars

Inputting == Start /\ [][Grow]_Algorithm
=============================================================================
