--------------------------- MODULE CanonicalWalk ----------------------------
(***************************************************************************)
(* validate_canonical of protocol/src/canonical.rs, byte by byte, against  *)
(* the grammar of canonical items its module comment gives.                *)
(*                                                                         *)
(* A u64 is its eight bytes, most significant first: 2^64 - 1 is a         *)
(* legitimate argument.  Positions count the bytes read.  The recursion is *)
(* the code's, so this module holds no theorem.                            *)
(***************************************************************************)
EXTENDS CborHead, TLC
LOCAL INSTANCE SequencesExt

CONSTANTS
  Inputs          \* [bytes, length]: alphabets, and how much to read of each

MaxNestingDepth == 8

VARIABLES
  source,         \* the alphabet the input is made of
  input,
  verdict

vars == <<source, input, verdict>>

---------------------------------------------------------------------------
(* The walker: each reader returns where it stopped, and why.              *)

At(p) == [pos |-> p, err |-> "none"]
Err(p, why) == [pos |-> p, err |-> why]

U64(bytes) == [k \in 1 .. 8 |-> IF k + Len(bytes) > 8 THEN bytes[k + Len(bytes) - 8] ELSE 0]
Less(u, v) == \E k \in 1 .. 8 : u[k] < v[k] /\ \A i \in 1 .. k - 1 : u[i] = v[i]

\* As a length or a count; what is beyond any input is beyond this one.
AsCount(s, u) ==
  IF \E k \in 1 .. 6 : u[k] # 0 THEN Len(s) + 1 ELSE u[7] * 256 + u[8]

Width == (24 :> 1) @@ (25 :> 2) @@ (26 :> 4) @@ (27 :> 8)

\* A wider form holds nothing but zeros before what a narrower one holds.
NonShortest(bytes) ==
  IF Len(bytes) = 1 THEN bytes[1] < 24
  ELSE \A k \in 1 .. Len(bytes) \div 2 : bytes[k] = 0

\* The argument of the head at p - 1.
ReadArgument(s, p, arg) ==
  IF arg < 24 THEN [pos |-> p, err |-> "none", value |-> U64(<<arg>>)]
  ELSE LET bytes == SubSeq(s, p + 1, p + Width[arg]) IN
    IF p + Width[arg] > Len(s) THEN Err(p, "Truncated")
    ELSE IF NonShortest(bytes) THEN Err(p - 1, "NonShortestForm")
    ELSE [pos |-> p + Width[arg], err |-> "none", value |-> U64(bytes)]

BadArgument(p, arg) ==
  IF arg = 31 THEN Err(p, "IndefiniteLength") ELSE Err(p, "ReservedArgument")

ReadUintKey(s, p) ==
  IF p >= Len(s) THEN Err(p, "Truncated")
  ELSE IF s[p + 1] \div 32 # 0 THEN Err(p, "NonUintKey")
  ELSE IF s[p + 1] > 27 THEN BadArgument(p, s[p + 1])
  ELSE ReadArgument(s, p + 1, s[p + 1])

SkipBytes(s, p, n) ==
  IF p + n > Len(s) THEN Err(p, "Truncated") ELSE At(p + n)

RECURSIVE WalkItem(_, _, _), WalkElements(_, _, _, _), WalkEntries(_, _, _, _, _)

WalkItem(s, p, depth) ==
  IF depth > MaxNestingDepth THEN Err(p, "NestingTooDeep")
  ELSE IF p >= Len(s) THEN Err(p, "Truncated")
  ELSE
  LET initial == s[p + 1]
      major == initial \div 32
      arg == initial % 32
      a == ReadArgument(s, p + 1, arg)
      count == AsCount(s, a.value)
  IN
  IF arg > 27 THEN BadArgument(p, arg)
  ELSE IF major = 7 THEN
    IF initial \in 244 .. 247 THEN At(p + 1)
    ELSE IF initial \in 249 .. 251 THEN Err(p, "FloatForbidden")
    ELSE Err(p, "InvalidSimpleValue")
  ELSE IF a.err # "none" THEN a
  ELSE CASE major \in {0, 1} -> At(a.pos)
         [] major \in {2, 3} -> SkipBytes(s, a.pos, count)
         [] major = 4 -> WalkElements(s, a.pos, depth, count)
         [] major = 5 -> WalkEntries(s, a.pos, depth, count, {})
         [] major = 6 -> Err(p, "TaggedItem")

WalkElements(s, p, depth, n) ==
  IF n = 0 THEN At(p)
  ELSE LET r == WalkItem(s, p, depth + 1) IN
    IF r.err # "none" THEN r ELSE WalkElements(s, r.pos, depth, n - 1)

Misplaced_DuplicatesPass(prev, key) ==                                \* mutation
  \E k \in prev : Less(key, k)
Misplaced(prev, key) == \E k \in prev : key = k \/ Less(key, k)

\* `prev` is the key before, if there is one.
WalkEntries(s, p, depth, n, prev) ==
  IF n = 0 THEN At(p)
  ELSE
  LET k == ReadUintKey(s, p)
      r == WalkItem(s, k.pos, depth + 1)
  IN
  IF k.err # "none" THEN k
  ELSE IF Misplaced(prev, k.value)
    THEN Err(p, IF k.value \in prev THEN "DuplicateKey" ELSE "KeysOutOfOrder")
  ELSE IF r.err # "none" THEN r
  ELSE WalkEntries(s, r.pos, depth, n - 1, {k.value})

ValidateCanonical_AllowsTrailing(s) == WalkItem(s, 0, 0).err          \* mutation
ValidateCanonical(s) ==
  LET r == WalkItem(s, 0, 0) IN
  IF r.err = "none" /\ r.pos # Len(s) THEN "TrailingBytes" ELSE r.err

---------------------------------------------------------------------------
(* Input arrives byte by byte; one byte is read beyond an error.           *)

Open(s) == ValidateCanonical(s) \in {"none", "Truncated"}

Init ==
  /\ source \in Inputs
  /\ input = <<>>
  /\ verdict = ValidateCanonical(<<>>)

Read(b) ==
  /\ Len(input) < source.length
  /\ input # <<>> => Open(Front(input))
  /\ input' = Append(input, b)
  /\ verdict' = ValidateCanonical(input')
  /\ UNCHANGED source

Next == \E b \in source.bytes : Read(b)

Spec == Init /\ [][Next]_vars

---------------------------------------------------------------------------
(* The grammar: what an encoder that follows the profile can write.  Heads *)
(* are what encode_cbor_uint_header of the crypto crate writes.            *)

Tail8(h) == U64(IF Len(h) = 1 THEN <<h[1] % 32>> ELSE Tail(h))

IsHead(h, major) ==
  /\ h[1] \div 32 = major /\ h[1] % 32 < 28
  /\ Len(h) = 1 + (IF h[1] % 32 < 24 THEN 0 ELSE Width[h[1] % 32])
  /\ LET u == Tail8(h) IN
     IF \E k \in 1 .. 4 : u[k] # 0
       THEN Len(h) = 9
     ELSE h = EncodeCborUintHeader(32 * major,
                u[5] * 2^24 + u[6] * 2^16 + u[7] * 2^8 + u[8])

Heads(s, major) == {k \in 1 .. Len(s) : IsHead(SubSeq(s, 1, k), major)}
Rest(s, k) == SubSeq(s, k + 1, Len(s))
Count(s, k) == AsCount(s, Tail8(SubSeq(s, 1, k)))

RECURSIVE IsItem(_, _), AreItems(_, _, _), AreEntries(_, _, _, _)

\* `levels` is how much deeper items may nest.
IsItem(s, levels) ==
  \/ Len(s) \in Heads(s, 0) \cup Heads(s, 1)
  \/ \E k \in Heads(s, 2) \cup Heads(s, 3) : Len(s) = k + Count(s, k)
  \/ \E k \in Heads(s, 4) :
       AreItems(Rest(s, k), Count(s, k), levels - 1)
  \/ \E k \in Heads(s, 5) :
       AreEntries(Rest(s, k), Count(s, k), levels - 1, {})
  \/ s \in {<<244>>, <<245>>, <<246>>, <<247>>}

AreItems(s, n, levels) ==
  IF n = 0 THEN s = <<>>
  ELSE /\ levels >= 0
       /\ \E k \in 1 .. Len(s) :
            IsItem(SubSeq(s, 1, k), levels) /\ AreItems(Rest(s, k), n - 1, levels)

AreEntries(s, n, levels, before) ==
  IF n = 0 THEN s = <<>>
  ELSE /\ levels >= 0
       /\ \E k \in Heads(s, 0) :
            LET key == Tail8(SubSeq(s, 1, k)) IN
            /\ \A b \in before : Less(b, key)
            /\ \E m \in k + 1 .. Len(s) :
                 /\ IsItem(SubSeq(s, k + 1, m), levels)
                 /\ AreEntries(Rest(s, m), n - 1, levels, before \cup {key})

---------------------------------------------------------------------------
(* Properties.                                                             *)

\* The walker accepts one spelling of each value and nothing else: what it
\* accepts is what the grammar generates, with shortest heads, ascending keys
\* and at most MAX_NESTING_DEPTH levels (canonical.rs:19-30).
AcceptsExactlyCanonical ==
  verdict = "none" <=> IsItem(input, MaxNestingDepth)

\* No accepted payload is the beginning of another: reading stops where an
\* item ends, whatever follows (canonical.rs:70).  The state hash rests on it,
\* which strings projections together without separators (state_hash.rs:124).
SelfDelimiting ==
  verdict = "none" =>
    \A n \in 0 .. Len(input) - 1 : ValidateCanonical(SubSeq(input, 1, n)) # "none"
=============================================================================
