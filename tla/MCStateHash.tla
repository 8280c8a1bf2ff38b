---------------------------- MODULE MCStateHash -----------------------------
(***************************************************************************)
(* Instances of StateHash.  Block 1 has two events; on top of it are block *)
(* 2, with a third below the empty block 3, and block 4 on another fork,   *)
(* with an event that is projected as the third is.                        *)
(***************************************************************************)
EXTENDS StateHash

CONSTANTS p, q, r, root

Tree == 1 .. 4
ParentOf == <<root, 1, 2, 1>>
DaaOf == <<10, 12, 13, 12>>
AcceptedBy == <<{1, 2}, {3}, {}, {4}>>

Faithful == <<  <<1, 7>>, <<2>>, <<1, 8, 8>>, <<1, 8, 8>> >>
\* Its projection of transaction 3 has drifted.
Drifted == <<  <<1, 7>>, <<2>>, <<1, 8, 9>>, <<1, 8, 8>> >>

TwoAndADrifted == {p, q, r}
Projections == (p :> Faithful) @@ (q :> Faithful) @@ (r :> Drifted)
=============================================================================
