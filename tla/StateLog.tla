------------------------------ MODULE StateLog ------------------------------
(***************************************************************************)
(* What the state hash promises (crypto/src/state_hash.rs, lines 3-10):    *)
(* indexers project the events of the accepting blocks they follow, and a  *)
(* client that asked all of them confirms the highest DAA score up to      *)
(* which they projected the same history.  Here the client sees the whole  *)
(* histories; StateHash shows that one hash for each block is enough.      *)
(***************************************************************************)
EXTENDS Sequences, FiniteSetsExt

CONSTANTS
  Indexers,
  Daas,       \* DAA scores
  Contents    \* the sets of projected events a block may hold

VARIABLES
  log,        \* what each indexer projected: [daa, events], by block
  reply,      \* the log a client last had from each
  tip         \* its confirmed tip; 0 before the first

vars == <<log, reply, tip>>

Init ==
  /\ log = [i \in Indexers |-> <<>>]
  /\ reply = [i \in Indexers |-> <<>>]
  /\ tip = 0

Advance(i) ==
  /\ \E d \in Daas, E \in Contents :
       /\ \A k \in DOMAIN log[i] : log[i][k].daa < d
       /\ log' = [log EXCEPT ![i] = Append(@, [daa |-> d, events |-> E])]
  /\ UNCHANGED <<reply, tip>>

Undo(i) ==
  /\ log[i] # <<>>
  /\ log' = [log EXCEPT ![i] = SubSeq(@, 1, Len(@) - 1)]
  /\ UNCHANGED <<reply, tip>>

Query(i) ==
  /\ reply' = [reply EXCEPT ![i] = log[i]]
  /\ UNCHANGED <<log, tip>>

Reaches(l, d) == \E k \in DOMAIN l : l[k].daa = d

History(l, d) ==
  LET n == CHOOSE k \in DOMAIN l : l[k].daa = d
  IN  [k \in 1 .. n |-> l[k].events]

Agreed ==
  {d \in Daas :
     /\ \A i \in Indexers : Reaches(reply[i], d)
     /\ \A i, j \in Indexers : History(reply[i], d) = History(reply[j], d)}

Confirm ==
  /\ Agreed # {}
  /\ tip' = Max(Agreed)
  /\ UNCHANGED <<log, reply>>

Next ==
  \/ \E i \in Indexers : Advance(i) \/ Undo(i) \/ Query(i)
  \/ Confirm

Spec == Init /\ [][Next]_vars
=============================================================================
