-------------------------- MODULE MCCanonicalWalk ---------------------------
(***************************************************************************)
(* Instances of CanonicalWalk: short inputs of every kind of head, wide    *)
(* arguments around their limits, and arrays and maps nested to the limit. *)
(***************************************************************************)
EXTENDS CanonicalWalk

\* 0, 1, 1-byte argument, reserved, indefinite; -1; strings; arrays; maps; tag;
\* false, a simple value that is not allowed, half float.
Kinds == {0, 1, 24, 28, 31, 32, 65, 97, 128, 130, 161, 162, 192, 244, 248, 249}
Wide == {0, 1, 25, 26, 27}
Nested == {0, 129, 161}

Alphabets ==
  {[bytes |-> Kinds, length |-> 5], [bytes |-> Wide, length |-> 9],
   [bytes |-> Nested, length |-> 12]}
=============================================================================
