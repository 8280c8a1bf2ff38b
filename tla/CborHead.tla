------------------------------ MODULE CborHead ------------------------------
(***************************************************************************)
(* encode_cbor_uint_header of crypto/src/state_hash.rs: the head of a CBOR *)
(* item, in the shortest form that holds its argument.                     *)
(***************************************************************************)
EXTENDS Integers, Sequences

\* uN::to_be_bytes
BeBytes(n, width) == [k \in 1 .. width |-> (n \div 256^(width - k)) % 256]

EncodeCborUintHeader(major, value) ==
  CASE value < 24 -> <<major + value>>
    [] value \in 24 .. 2^8 - 1 -> <<major + 24, value>>
    [] value \in 2^8 .. 2^16 - 1 -> <<major + 25>> \o BeBytes(value, 2)
    [] value \div 2^16 \in 1 .. 2^16 - 1 -> <<major + 26>> \o BeBytes(value, 4)
    [] OTHER -> <<major + 27>> \o BeBytes(value, 8)
=============================================================================
