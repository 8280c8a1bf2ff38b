---------------------------- MODULE MessageBoard ----------------------------
(***************************************************************************)
(* What `komms post --submit` promises its users: each run of the command  *)
(* puts the message on the board at most once, and what its user is told   *)
(* of that run is true.  A user told of an error repeats the command       *)
(* because that run's message was not taken; the user told of success need *)
(* not.  Only a run whose answer was lost leaves a message that may still  *)
(* be taken.  The board may lag, take a message back, or drop one that     *)
(* waits.                                                                  *)
(***************************************************************************)
EXTENDS Naturals

CONSTANT Messages

VARIABLES
  waiting,  \* message -> how often it waits for the board
  posted,   \* message -> how often it is on the board
  loose,    \* message -> how many lost runs may still be taken
  taken,    \* message -> was it taken from the user's present run?
  told      \* what its user was told of that run

vars == <<waiting, posted, loose, taken, told>>

Init ==
  /\ waiting = [m \in Messages |-> 0]
  /\ posted = [m \in Messages |-> 0]
  /\ loose = [m \in Messages |-> 0]
  /\ taken = [m \in Messages |-> FALSE]
  /\ told = [m \in Messages |-> "nothing"]

\* The board.

Take(m) ==
  /\ told[m] = "nothing" /\ ~ taken[m]
  /\ taken' = [taken EXCEPT ![m] = TRUE]
  /\ waiting' = [waiting EXCEPT ![m] = @ + 1]
  /\ UNCHANGED <<posted, loose, told>>

\* What a lost run sent arrives after all, or never will.
TakeLoose(m) ==
  /\ loose[m] > 0
  /\ loose' = [loose EXCEPT ![m] = @ - 1]
  /\ \E n \in {0, 1} : waiting' = [waiting EXCEPT ![m] = @ + n]
  /\ UNCHANGED <<posted, taken, told>>

Land(m) ==
  /\ waiting[m] > 0
  /\ waiting' = [waiting EXCEPT ![m] = @ - 1]
  /\ posted' = [posted EXCEPT ![m] = @ + 1]
  /\ UNCHANGED <<loose, taken, told>>

TakeBack(m) ==
  /\ posted[m] > 0
  /\ posted' = [posted EXCEPT ![m] = @ - 1]
  /\ waiting' = [waiting EXCEPT ![m] = @ + 1]
  /\ UNCHANGED <<loose, taken, told>>

Drop ==
  /\ waiting' \in [Messages -> Nat]
  /\ \A m \in Messages : waiting'[m] <= waiting[m]
  /\ UNCHANGED <<posted, loose, taken, told>>

\* Its users.

Tells(m, what) ==
  /\ told[m] = "nothing"
  /\ told' = [told EXCEPT ![m] = what]
  /\ UNCHANGED <<waiting, posted>>

Confirm(m) == taken[m] /\ Tells(m, "posted") /\ UNCHANGED <<loose, taken>>
Refuse(m) == ~ taken[m] /\ Tells(m, "failed") /\ UNCHANGED <<loose, taken>>

\* The answer is lost, and with it whether the message was taken.
Lose(m) ==
  /\ Tells(m, "unknown")
  /\ \E n \in {0, 1} :
       /\ n = 0 \/ ~ taken[m]
       /\ loose' = [loose EXCEPT ![m] = @ + n]
  /\ taken' = [taken EXCEPT ![m] = FALSE]

Repeat(m) ==
  /\ told[m] \in {"failed", "unknown"}
  /\ told' = [told EXCEPT ![m] = "nothing"]
  /\ UNCHANGED <<waiting, posted, loose, taken>>

Next ==
  \/ \E m \in Messages :
       \/ Take(m) \/ TakeLoose(m) \/ Land(m) \/ TakeBack(m)
       \/ Confirm(m) \/ Refuse(m) \/ Lose(m) \/ Repeat(m)
  \/ Drop

Spec == Init /\ [][Next]_vars
=============================================================================
