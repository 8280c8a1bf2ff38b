----------------------------- MODULE UtxoEntries ------------------------------
(***************************************************************************)
(* pick_utxos over the outputs an address comes to hold: the list grows    *)
(* one output at a time, and every list is tried with every request.       *)
(***************************************************************************)
EXTENDS UtxoSelection

CONSTANT Coins      \* the outputs the address may come to hold

ASSUME CoinsAssumption == \A u \in Coins : u.amount \in Nat

VARIABLE entries

NoEntries == entries = {}
Receive(u) == u \notin entries /\ entries' = entries \cup {u}

Receiving == NoEntries /\ [][\E u \in Coins : Receive(u)]_entries

---------------------------------------------------------------------------
(* Properties.                                                             *)

\* Nothing that could pay is missed: the program bails out only when no set of
\* the address's outputs exceeds its own fee (the error of submit.rs:220).
SelectionComplete ==
  \A r \in Requests :
    (\E S \in (SUBSET entries) \ {{}} : TotalAmount(S) > RequiredFee(Cardinality(S), r))
      => PickUtxos(entries, r) # {}

\* No set with fewer inputs, and so with a smaller fee, could pay.
SelectionFewest ==
  \A r \in Requests : \A P \in PickUtxos(entries, r) :
    \A S \in SUBSET entries :
      S # {} /\ Cardinality(S) < Cardinality(P)
        => TotalAmount(S) <= RequiredFee(Cardinality(S), r)

\* Ties may change which outputs are spent, never what the post costs or what
\* comes back.
TiesCostTheSame ==
  \A r \in Requests : \A P, Q \in PickUtxos(entries, r) :
    /\ ChangeOutput(P, r) = ChangeOutput(Q, r)
    /\ ChangeOutput(P, r) > 0
=============================================================================
