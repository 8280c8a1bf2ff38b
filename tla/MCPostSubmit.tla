---------------------------- MODULE MCPostSubmit ----------------------------
(***************************************************************************)
(* Instances of PostSubmit.  Amounts are sompi (1 KAS = 10^8); U64Max is   *)
(* scaled down to 10^9 so that TLC's integers hold a fee beyond it.        *)
(***************************************************************************)
EXTENDS PostBoard

CONSTANTS a, b

Kas == 100000000

Plain == [len |-> 72, priority |-> 0]
Urgent == [len |-> 119, priority |-> 3 * Kas]
Overflowing == [len |-> 72, priority |-> U64Max]

TwoPosts == {a, b}
WithOverflow == {Plain, Urgent, Overflowing}

\* Two outputs of the same amount: which is spent first is the node's choice.
Tied == {Coin(1, 2 * Kas), Coin(2, 2 * Kas)}
Larger == {Coin(3, 4 * Kas)}
None == {}
=============================================================================
