----------------------------- MODULE PostBoard ------------------------------
(***************************************************************************)
(* PostSubmit, seen by the users of its commands: how often a message is   *)
(* where, and what they were told.  It implements MessageBoard.            *)
(***************************************************************************)
EXTENDS PostSubmit

Copies(S) == [p \in Posts |-> Cardinality({t \in S : t.post = p})]

\* The node took what the present run sent; the run may not know yet.
Taken == [p \in Posts |-> pc[p] # "failed" /\ answer[p] = "ok"]

Told ==
  [p \in Posts |->
     CASE pc[p] = "done" -> "posted"
       [] pc[p] = "failed" ->
            IF answer[p] = "disconnected" THEN "unknown" ELSE "failed"
       [] OTHER -> "nothing"]

\* However commands race, fail and are repeated, a message comes to the board
\* at most once for each run, an error is told only of a run the node took
\* nothing from and success only of one it did, and only lost answers leave
\* something that is still to arrive (submit_komms_payload, submit.rs:87-196):
\* undone blocks and evicted transactions included, no reported error hides a
\* message that will land.
Board == INSTANCE MessageBoard WITH
  Messages <- Posts, waiting <- Copies(mempool), posted <- Copies(confirmed),
  loose <- Copies(stray), taken <- Taken, told <- Told
ImplementsBoard == Board!Spec
=============================================================================
