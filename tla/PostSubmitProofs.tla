-------------------------- MODULE PostSubmitProofs --------------------------
(***************************************************************************)
(* What pick_utxos guarantees for every list of outputs and every request, *)
(* what PostSubmit guarantees for every set of commands, requests and      *)
(* outputs, and that it implements MessageBoard, step by step.             *)
(***************************************************************************)
EXTENDS PostBoard, UtxoEntries, DataLemmas

---------------------------------------------------------------------------
(* The amounts of outputs.                                                 *)

Amounts(S) == [u \in S |-> u.amount]

LEMMA TotalIsSum ==
  ASSUME NEW S, IsFiniteSet(S)
  PROVE  TotalAmount(S) = SumOver(Amounts(S), S)
  <1> DEFINE w == Amounts(S)
             F(h) == [s \in SUBSET S |->
                        IF s = {} THEN 0
                        ELSE LET x == CHOOSE x \in s : TRUE IN x.amount + h[s \ {x}]]
             G(h) == [s \in SUBSET S |->
                        IF s = {} THEN 0 ELSE w[Some(s)] + h[Rest(s)]]
             R(h) == h = F(h)
  <1>1. TotalAmount(S) = (CHOOSE h : R(h))[S]
    BY DEF TotalAmount, MapThenSumSet, MapThenFoldSet
  <1>2. ASSUME NEW h PROVE F(h) = G(h)
    <2>1. ASSUME NEW s \in SUBSET S, s # {}
          PROVE  w[Some(s)] = (CHOOSE x \in s : TRUE).amount
      BY <2>1, SomeIn DEF Some, Amounts
    <2> QED
      BY <2>1 DEF Some, Rest
  <1>3. ASSUME NEW h PROVE R(h) <=> Adds(h, w, S)
    BY <1>2 DEF Adds
  <1>4. PICK h : Adds(h, w, S)
    BY AddsExists
  <1>5. R(h)
    BY <1>3, <1>4
  <1> HIDE DEF R
  <1>6. R(CHOOSE x : R(x))
    BY <1>5
  <1>7. Adds(CHOOSE x : R(x), w, S)
    BY <1>3, <1>6
  <1> QED
    BY <1>1, <1>7, SumIs

HasAmounts(S) == IsFiniteSet(S) /\ \A u \in S : u.amount \in Nat

LEMMA TotalNat ==
  ASSUME NEW S, HasAmounts(S)
  PROVE  TotalAmount(S) \in Nat
  <1>1. \A u \in S : Amounts(S)[u] \in Nat
    BY DEF HasAmounts, Amounts
  <1>2. IsFiniteSet(S)
    BY DEF HasAmounts
  <1>3. SumOver(Amounts(S), S) \in Nat
    BY <1>1, <1>2, SumNumbers
  <1> QED
    BY <1>2, <1>3, TotalIsSum

LEMMA TotalDisjoint ==
  ASSUME NEW S, NEW T, HasAmounts(S), HasAmounts(T), S \cap T = {}
  PROVE  TotalAmount(S \cup T) = TotalAmount(S) + TotalAmount(T)
  <1> DEFINE U == S \cup T
  <1>1. IsFiniteSet(S) /\ IsFiniteSet(T) /\ IsFiniteSet(U)
    BY FS_Union DEF HasAmounts
  <1>2. \A u \in S \cup T : Amounts(U)[u] \in Int
    BY DEF HasAmounts, Amounts
  <1>3. SumOver(Amounts(U), U) = SumOver(Amounts(U), S) + SumOver(Amounts(U), T)
    BY <1>1, <1>2, SumDisjoint
  <1>4. Agree(Amounts(U), Amounts(S), S) /\ Agree(Amounts(U), Amounts(T), T)
    BY DEF Agree, Amounts
  <1> QED
    BY <1>1, <1>3, <1>4, SumSame, TotalIsSum

LEMMA TotalOne ==
  ASSUME NEW u, u.amount \in Nat
  PROVE  TotalAmount({u}) = u.amount
  <1>1. IsFiniteSet({u}) /\ IsFiniteSet({}) /\ {} \cup {u} = {u}
    BY FS_Singleton, FS_EmptySet
  <1>2. Amounts({u})[u] = u.amount /\ u \notin {}
    BY DEF Amounts
  <1>3. SumOver(Amounts({u}), {} \cup {u}) = Amounts({u})[u] + SumOver(Amounts({u}), {})
    <2>1. \A x \in {} \cup {u} : Amounts({u})[x] \in Int
      BY <1>2
    <2> QED
      BY <1>1, <1>2, <2>1, SumAdd
  <1> QED
    BY <1>1, <1>2, <1>3, SumEmpty, TotalIsSum

---------------------------------------------------------------------------
(* Amounts compared.                                                       *)

LEMMA SubAmounts ==
  ASSUME NEW S, HasAmounts(S), NEW T, T \subseteq S
  PROVE  /\ HasAmounts(T)
         /\ Cardinality(T) \in Nat
         /\ T # S => Cardinality(T) < Cardinality(S)
  BY FS_Subset, FS_CardinalityType DEF HasAmounts

LEMMA TakeOut ==
  ASSUME NEW S, HasAmounts(S), NEW u \in S
  PROVE  /\ HasAmounts(S \ {u})
         /\ TotalAmount(S) = u.amount + TotalAmount(S \ {u})
         /\ TotalAmount(S \ {u}) \in Nat /\ u.amount \in Nat
         /\ Cardinality(S) = Cardinality(S \ {u}) + 1
         /\ Cardinality(S \ {u}) \in Nat
  <1> DEFINE T == S \ {u}
  <1>1. HasAmounts(T) /\ HasAmounts({u}) /\ u.amount \in Nat
    <2>1. T \subseteq S /\ {u} \subseteq S
      OBVIOUS
    <2> HIDE DEF T
    <2> QED
      BY <2>1, SubAmounts DEF HasAmounts
  <1>2. T \cap {u} = {} /\ T \cup {u} = S
    OBVIOUS
  <1>3. TotalAmount(S) = TotalAmount(T) + u.amount
    BY <1>1, <1>2, TotalDisjoint, TotalOne
  <1>4. TotalAmount(T) \in Nat
    BY <1>1, TotalNat
  <1>5. Cardinality(T) \in Nat /\ Cardinality(S) = Cardinality(T) + 1
    BY <1>1, FS_CardinalityType, FS_RemoveElement DEF HasAmounts
  <1> QED
    BY <1>1, <1>3, <1>4, <1>5

\* As many outputs, or more, each worth as much as any of the others.
LEMMA Outweighs ==
  ASSUME NEW A, NEW B, HasAmounts(A), HasAmounts(B),
         Cardinality(A) <= Cardinality(B),
         \A x \in A, y \in B : x.amount <= y.amount
  PROVE  TotalAmount(A) <= TotalAmount(B)
  <1> DEFINE Less(U, V) == /\ Cardinality(U) <= Cardinality(V)
                           /\ ~ (TotalAmount(U) <= TotalAmount(V))
             Bad == {U \in SUBSET A : \E V \in SUBSET B : Less(U, V)}
  <1> SUFFICES ASSUME Bad # {} PROVE FALSE
    <2>1. A \in SUBSET A /\ B \in SUBSET B
      OBVIOUS
    <2> QED
      BY <2>1
  <1>1. PICK U \in Bad : \A W \in SUBSET U : W # U => W \notin Bad
    <2>1. Bad \subseteq SUBSET A /\ IsFiniteSet(A)
      BY DEF HasAmounts
    <2> HIDE DEF Bad
    <2> QED
      BY <2>1, SmallestSubset
  <1>2. U \subseteq A /\ \E V \in SUBSET B : Less(U, V)
    OBVIOUS
  <1>3. PICK V \in SUBSET B : Less(U, V)
    BY <1>2
  <1>4. HasAmounts(U) /\ HasAmounts(V)
    BY <1>2, SubAmounts
  <1>5. TotalAmount(V) \in Nat
    BY <1>4, TotalNat
  <1>6. U # {}
    <2>1. TotalAmount({}) = 0
      BY FS_EmptySet, SumEmpty, TotalIsSum
    <2> QED
      BY <1>3, <1>5, <2>1
  <1>7. PICK x : x \in U
    BY <1>6
  <1>8. V # {}
    <2>1. /\ Cardinality({}) = 0
          /\ Cardinality(U) = Cardinality(U \ {x}) + 1 /\ Cardinality(U \ {x}) \in Nat
      BY <1>4, <1>7, TakeOut, FS_EmptySet
    <2> QED
      BY <1>3, <2>1
  <1>9. PICK y : y \in V
    BY <1>8
  <1>10. x.amount <= y.amount
    BY <1>2, <1>7, <1>9
  <1>11. U \ {x} \in SUBSET U /\ U \ {x} # U /\ U \ {x} \in SUBSET A /\ V \ {y} \in SUBSET B
    BY <1>2, <1>7
  <1>12. ~ Less(U \ {x}, V \ {y})
    BY <1>1, <1>11
  <1>13. /\ TotalAmount(U) = x.amount + TotalAmount(U \ {x})
         /\ TotalAmount(U \ {x}) \in Nat /\ x.amount \in Nat
         /\ Cardinality(U) = Cardinality(U \ {x}) + 1 /\ Cardinality(U \ {x}) \in Nat
    BY <1>4, <1>7, TakeOut
  <1>14. /\ TotalAmount(V) = y.amount + TotalAmount(V \ {y})
         /\ TotalAmount(V \ {y}) \in Nat /\ y.amount \in Nat
         /\ Cardinality(V) = Cardinality(V \ {y}) + 1 /\ Cardinality(V \ {y}) \in Nat
    BY <1>4, <1>9, TakeOut
  <1>15. ASSUME NEW a \in Nat, NEW b \in Nat, NEW s \in Nat, NEW t \in Nat, a <= b, s <= t
         PROVE  a + s <= b + t
    BY <1>15
  <1>16. ASSUME NEW m \in Nat, NEW n \in Nat, m + 1 <= n + 1 PROVE m <= n
    BY <1>16
  <1>17. Cardinality(U \ {x}) <= Cardinality(V \ {y})
    BY <1>3, <1>13, <1>14, <1>16
  <1>18. TotalAmount(U \ {x}) <= TotalAmount(V \ {y})
    BY <1>12, <1>17
  <1> QED
    BY <1>3, <1>10, <1>13, <1>14, <1>15, <1>18

---------------------------------------------------------------------------
(* Largest first.                                                          *)

\* A set of the list's outputs that are worth as much as any it leaves out.
UpClosed(P, E) == P \subseteq E /\ \A x \in P, y \in E \ P : x.amount >= y.amount

LEMMA PrefixesAre ==
  ASSUME NEW E
  PROVE  \A P : P \in Prefixes(E) <=> P # {} /\ UpClosed(P, E)
  BY DEF Prefixes, UpClosed

\* No set of as many outputs, or fewer, is worth more.
LEMMA LargestFirst ==
  ASSUME NEW E, HasAmounts(E), NEW P, UpClosed(P, E),
         NEW S, S \subseteq E, Cardinality(S) <= Cardinality(P)
  PROVE  TotalAmount(S) <= TotalAmount(P)
  <1> DEFINE C == S \cap P  A == S \ P  B == P \ S
  <1>1. /\ A \subseteq E /\ B \subseteq E /\ C \subseteq E /\ P \subseteq E
        /\ C \cap A = {} /\ C \cup A = S /\ C \cap B = {} /\ C \cup B = P
        /\ \A x \in A, y \in B : y.amount >= x.amount
    BY DEF UpClosed
  <1> HIDE DEF A, B, C
  <1>2. /\ HasAmounts(A) /\ HasAmounts(B) /\ HasAmounts(C)
        /\ HasAmounts(S) /\ HasAmounts(P)
    BY <1>1, SubAmounts
  <1>3. /\ Cardinality(A) \in Nat /\ Cardinality(B) \in Nat /\ Cardinality(C) \in Nat
        /\ Cardinality(S) = Cardinality(C) + Cardinality(A)
        /\ Cardinality(P) = Cardinality(C) + Cardinality(B)
    <2>1. \A X, Y : /\ HasAmounts(X) /\ HasAmounts(Y) /\ X \cap Y = {}
                    => Cardinality(X \cup Y) = Cardinality(X) + Cardinality(Y)
      <3> SUFFICES ASSUME NEW X, NEW Y, HasAmounts(X), HasAmounts(Y), X \cap Y = {}
                   PROVE  Cardinality(X \cup Y) = Cardinality(X) + Cardinality(Y)
        OBVIOUS
      <3>1. Cardinality(X \cup Y) = Cardinality(X) + Cardinality(Y) - Cardinality({})
        BY FS_Union DEF HasAmounts
      <3>2. Cardinality(X) \in Nat /\ Cardinality(Y) \in Nat /\ Cardinality({}) = 0
        BY FS_CardinalityType, FS_EmptySet DEF HasAmounts
      <3> QED
        BY <3>1, <3>2
    <2> QED
      BY <1>1, <1>2, <2>1, FS_CardinalityType DEF HasAmounts
  <1>4. Cardinality(A) <= Cardinality(B)
    BY <1>3
  <1>5. \A x \in A, y \in B : x.amount <= y.amount
    BY <1>1, <1>2 DEF HasAmounts
  <1>6. TotalAmount(A) <= TotalAmount(B)
    BY <1>2, <1>4, <1>5, Outweighs
  <1>7. /\ TotalAmount(S) = TotalAmount(C) + TotalAmount(A)
        /\ TotalAmount(P) = TotalAmount(C) + TotalAmount(B)
    BY <1>1, <1>2, TotalDisjoint
  <1>8. TotalAmount(A) \in Nat /\ TotalAmount(B) \in Nat /\ TotalAmount(C) \in Nat
    BY <1>2, TotalNat
  <1> QED
    BY <1>6, <1>7, <1>8

LEMMA SmallestOutput ==
  ASSUME NEW S, HasAmounts(S), S # {}
  PROVE  \E u \in S : \A x \in S : u.amount <= x.amount
  <1> DEFINE upTo(u) == {x \in S : x.amount <= u.amount}
             B == {upTo(u) : u \in S}
  <1>1. PICK T \in B : \A U \in SUBSET T : U # T => U \notin B
    <2>1. B \subseteq SUBSET S /\ B # {} /\ IsFiniteSet(S)
      BY DEF HasAmounts
    <2> HIDE DEF B
    <2> QED
      BY <2>1, SmallestSubset
  <1>2. PICK u \in S : T = upTo(u)
    OBVIOUS
  <1>3. ASSUME NEW x \in S, ~ (u.amount <= x.amount) PROVE FALSE
    <2>1. u.amount \in Nat /\ \A y \in S : y.amount \in Nat
      BY DEF HasAmounts
    <2>2. upTo(x) \subseteq T /\ u \in T /\ u \notin upTo(x)
      BY <1>2, <1>3, <2>1
    <2>3. upTo(x) \in SUBSET T /\ upTo(x) # T /\ upTo(x) \in B
      BY <2>2
    <2> QED
      BY <1>1, <2>3
  <1> QED
    BY <1>3

\* There is a prefix of every length.
LEMMA PrefixOfLength ==
  ASSUME NEW E, HasAmounts(E), NEW n \in Nat, n <= Cardinality(E)
  PROVE  \E P : UpClosed(P, E) /\ Cardinality(P) = n
  <1> DEFINE Long == {P \in SUBSET E : UpClosed(P, E) /\ n <= Cardinality(P)}
  <1>1. PICK P \in Long : \A Q \in SUBSET P : Q # P => Q \notin Long
    <2>1. Long \subseteq SUBSET E /\ IsFiniteSet(E)
      BY DEF HasAmounts
    <2>2. E \in Long
      BY DEF UpClosed
    <2> HIDE DEF Long
    <2> QED
      BY <2>1, <2>2, SmallestSubset
  <1>2. P \subseteq E /\ UpClosed(P, E) /\ n <= Cardinality(P)
    OBVIOUS
  <1>3. HasAmounts(P) /\ Cardinality(P) \in Nat
    BY <1>2, SubAmounts
  <1>4. CASE Cardinality(P) = n
    BY <1>2, <1>4
  <1>5. CASE Cardinality(P) # n
    <2>1. P # {}
      BY <1>2, <1>5, FS_EmptySet
    <2>2. PICK u \in P : \A x \in P : u.amount <= x.amount
      BY <1>3, <2>1, SmallestOutput
    <2> DEFINE Q == P \ {u}
    <2>3. Q \in SUBSET P /\ Q # P /\ Q \in SUBSET E
      BY <1>2
    <2>4. UpClosed(Q, E)
      <3>1. ASSUME NEW x \in Q, NEW y \in E \ Q PROVE x.amount >= y.amount
        <4>1. CASE y \in P
          BY <1>3, <2>2, <4>1 DEF HasAmounts
        <4>2. CASE y \notin P
          BY <1>2, <4>2 DEF UpClosed
        <4> QED
          BY <4>1, <4>2
      <3> QED
        BY <2>3, <3>1 DEF UpClosed
    <2>5. n <= Cardinality(Q)
      <3>1. Cardinality(P) = Cardinality(Q) + 1 /\ Cardinality(Q) \in Nat
        BY <1>3, TakeOut
      <3> QED
        BY <1>2, <1>5, <3>1
    <2> QED
      BY <1>1, <2>3, <2>4, <2>5
  <1> QED
    BY <1>4, <1>5

---------------------------------------------------------------------------
(* The selection.                                                          *)

LEMMA FeeIsNumber ==
  ASSUME NEW r, r.len \in Nat, r.priority \in Nat, NEW n \in Nat
  PROVE  RequiredFee(n, r) \in Nat
  <1>1. RawFee(n, r) \in Nat
    BY DEF RawFee, PredictedComputeMass, MinRelayFeePerGram, BaseTxBytes,
       SignedP2pkInputBytes, P2pkOutputBytes, SpkMass, GramsPerSigop
  <1>2. \A x \in Nat, y \in Nat \ {0} : x % y \in Nat
    OBVIOUS
  <1>3. U64Max + 1 \in Nat \ {0}
    BY U64Assumption
  <1> QED
    BY <1>1, <1>2, <1>3 DEF RequiredFee

LEMMA PicksAre ==
  ASSUME NEW E, NEW r
  PROVE  \A P : P \in PickUtxos(E, r) <=>
                  /\ P \in Prefixes(E) /\ Pays(P, r)
                  /\ \A Q \in Prefixes(E) : Q \subseteq P /\ Q # P => ~ Pays(Q, r)
  BY DEF PickUtxos, Tried

\* If some set pays, so does the prefix of its length.
LEMMA PrefixPays ==
  ASSUME NEW E, HasAmounts(E), NEW r, r.len \in Nat, r.priority \in Nat,
         NEW S, S \subseteq E, S # {}, Pays(S, r)
  PROVE  \A P : UpClosed(P, E) /\ Cardinality(P) = Cardinality(S) =>
                  P \in Prefixes(E) /\ Pays(P, r)
  <1> SUFFICES ASSUME NEW P, UpClosed(P, E), Cardinality(P) = Cardinality(S)
               PROVE  P \in Prefixes(E) /\ Pays(P, r)
    OBVIOUS
  <1>1. P \subseteq E
    BY DEF UpClosed
  <1>2. /\ HasAmounts(S) /\ HasAmounts(P)
        /\ Cardinality(S) \in Nat
    BY <1>1, SubAmounts
  <1>3. P # {}
    BY <1>2, FS_EmptySet DEF HasAmounts
  <1>4. TotalAmount(S) <= TotalAmount(P)
    BY <1>2, LargestFirst
  <1>5. TotalAmount(S) \in Nat /\ TotalAmount(P) \in Nat
    BY <1>2, TotalNat
  <1>6. RequiredFee(Cardinality(S), r) \in Nat
    BY <1>2, FeeIsNumber
  <1>7. TotalAmount(P) > RequiredFee(Cardinality(P), r)
    BY <1>4, <1>5, <1>6 DEF Pays
  <1> QED
    BY <1>3, <1>7, PrefixesAre DEF Pays

LEMMA Complete ==
  ASSUME NEW E, HasAmounts(E), NEW r, r.len \in Nat, r.priority \in Nat,
         NEW S, S \subseteq E, S # {}, Pays(S, r)
  PROVE  PickUtxos(E, r) # {}
  <1> DEFINE Paying == {P \in Prefixes(E) : Pays(P, r)}
  <1>1. Cardinality(S) \in Nat /\ Cardinality(S) <= Cardinality(E)
    BY FS_Subset, FS_CardinalityType DEF HasAmounts
  <1>2. Paying # {}
    BY <1>1, PrefixOfLength, PrefixPays
  <1>3. Paying \subseteq SUBSET E /\ IsFiniteSet(E)
    BY PrefixesAre DEF UpClosed, HasAmounts
  <1>4. PICK P \in Paying : \A Q \in SUBSET P : Q # P => Q \notin Paying
    <2> HIDE DEF Paying
    <2> QED
      BY <1>2, <1>3, SmallestSubset
  <1> QED
    BY <1>4, PicksAre

LEMMA Fewest ==
  ASSUME NEW E, HasAmounts(E), NEW r, r.len \in Nat, r.priority \in Nat,
         NEW P \in PickUtxos(E, r),
         NEW S, S \subseteq E, S # {}, Cardinality(S) < Cardinality(P)
  PROVE  ~ Pays(S, r)
  <1> SUFFICES ASSUME Pays(S, r) PROVE FALSE
    OBVIOUS
  <1>1. UpClosed(P, E) /\ P \subseteq E
    BY PicksAre, PrefixesAre DEF UpClosed
  <1>2. HasAmounts(P) /\ Cardinality(P) \in Nat /\ Cardinality(S) \in Nat
    BY <1>1, SubAmounts
  <1>3. PICK Q : UpClosed(Q, P) /\ Cardinality(Q) = Cardinality(S)
    BY <1>2, PrefixOfLength
  <1>4. UpClosed(Q, E)
    BY <1>1, <1>3 DEF UpClosed
  <1>5. Q \subseteq P /\ Q # P
    BY <1>2, <1>3 DEF UpClosed
  <1>6. Q \in Prefixes(E) /\ Pays(Q, r)
    BY <1>3, <1>4, PrefixPays
  <1> QED
    BY <1>5, <1>6, PicksAre

LEMMA SameCost ==
  ASSUME NEW E, HasAmounts(E), NEW r, r.len \in Nat, r.priority \in Nat,
         NEW P \in PickUtxos(E, r), NEW Q \in PickUtxos(E, r)
  PROVE  /\ ChangeOutput(P, r) = ChangeOutput(Q, r)
         /\ ChangeOutput(P, r) > 0
  <1>1. /\ P # {} /\ UpClosed(P, E) /\ P \subseteq E /\ Pays(P, r)
        /\ Q # {} /\ UpClosed(Q, E) /\ Q \subseteq E /\ Pays(Q, r)
    BY PicksAre, PrefixesAre DEF UpClosed
  <1>2. /\ HasAmounts(P) /\ Cardinality(P) \in Nat
        /\ HasAmounts(Q) /\ Cardinality(Q) \in Nat
    BY <1>1, SubAmounts
  <1>3. Cardinality(P) = Cardinality(Q)
    <2>1. ~ (Cardinality(P) < Cardinality(Q)) /\ ~ (Cardinality(Q) < Cardinality(P))
      BY <1>1, Fewest
    <2> QED
      BY <1>2, <2>1
  <1>4. TotalAmount(P) <= TotalAmount(Q) /\ TotalAmount(Q) <= TotalAmount(P)
    BY <1>1, <1>2, <1>3, LargestFirst
  <1>5. TotalAmount(P) \in Nat /\ TotalAmount(Q) \in Nat
    BY <1>2, TotalNat
  <1>6. RequiredFee(Cardinality(P), r) \in Nat
    BY <1>2, FeeIsNumber
  <1> QED
    BY <1>1, <1>3, <1>4, <1>5, <1>6 DEF ChangeOutput, Pays

---------------------------------------------------------------------------
(* The selection from a list as it grows.                                  *)

ListInv == HasAmounts(entries)

LEMMA ListHolds == Receiving => []ListInv
  <1>1. NoEntries => ListInv
    BY FS_EmptySet DEF NoEntries, ListInv, HasAmounts
  <1>2. ASSUME ListInv, [\E u \in Coins : Receive(u)]_entries PROVE ListInv'
    <2>1. ASSUME NEW u \in Coins, Receive(u) PROVE ListInv'
      BY <1>2, <2>1, CoinsAssumption, FS_AddElement DEF ListInv, HasAmounts, Receive
    <2>2. CASE UNCHANGED entries
      BY <1>2, <2>2 DEF ListInv
    <2> QED
      BY <1>2, <2>1, <2>2
  <1> QED
    BY <1>1, <1>2, PTL DEF Receiving

\* pick_utxos bails out only when no set of the address's outputs pays for its
\* own size: whatever the amounts and however the list was put together, taking
\* the largest first misses nothing (submit.rs:204-220).
THEOREM SelectionCompleteHolds == Receiving => []SelectionComplete
  <1>1. ListInv => SelectionComplete
    <2> SUFFICES ASSUME ListInv, NEW r \in Requests,
                        NEW S \in (SUBSET entries) \ {{}},
                        TotalAmount(S) > RequiredFee(Cardinality(S), r)
                 PROVE  PickUtxos(entries, r) # {}
      BY DEF SelectionComplete
    <2>1. HasAmounts(entries) /\ r.len \in Nat /\ r.priority \in Nat
      BY U64Assumption, RequestsAssumption DEF ListInv
    <2>2. S \subseteq entries /\ S # {} /\ Pays(S, r)
      BY DEF Pays
    <2> QED
      BY <2>1, <2>2, Complete
  <1> QED
    BY <1>1, ListHolds, PTL

\* No transaction with fewer inputs could have paid for the post.
THEOREM SelectionFewestHolds == Receiving => []SelectionFewest
  <1>1. ListInv => SelectionFewest
    <2> SUFFICES ASSUME ListInv, NEW r \in Requests, NEW P \in PickUtxos(entries, r),
                        NEW S \in SUBSET entries, S # {},
                        Cardinality(S) < Cardinality(P)
                 PROVE  TotalAmount(S) <= RequiredFee(Cardinality(S), r)
      BY DEF SelectionFewest
    <2>1. HasAmounts(entries) /\ r.len \in Nat /\ r.priority \in Nat
      BY U64Assumption, RequestsAssumption DEF ListInv
    <2>2. ~ (TotalAmount(S) > RequiredFee(Cardinality(S), r))
      BY <2>1, Fewest DEF Pays
    <2>3. HasAmounts(S) /\ Cardinality(S) \in Nat
      BY <2>1, SubAmounts
    <2>4. TotalAmount(S) \in Nat /\ RequiredFee(Cardinality(S), r) \in Nat
      BY <2>1, <2>3, TotalNat, FeeIsNumber
    <2> QED
      BY <2>2, <2>4
  <1> QED
    BY <1>1, ListHolds, PTL

\* The order in which the node lists outputs of equal amount changes neither the
\* fee nor the change, which is never nothing.
THEOREM TiesCostTheSameHolds == Receiving => []TiesCostTheSame
  <1>1. ListInv => TiesCostTheSame
    <2> SUFFICES ASSUME ListInv, NEW r \in Requests,
                        NEW P \in PickUtxos(entries, r), NEW Q \in PickUtxos(entries, r)
                 PROVE  /\ ChangeOutput(P, r) = ChangeOutput(Q, r)
                        /\ ChangeOutput(P, r) > 0
      BY DEF TiesCostTheSame
    <2>1. HasAmounts(entries) /\ r.len \in Nat /\ r.priority \in Nat
      BY U64Assumption, RequestsAssumption DEF ListInv
    <2> QED
      BY <2>1, SameCost
  <1> QED
    BY <1>1, ListHolds, PTL

---------------------------------------------------------------------------
(* Fees.                                                                   *)

NodeFloor(n, r) == MinRelayFeePerGram * PredictedComputeMass(n, 1, r.len)

LEMMA MassRange ==
  ASSUME NEW n \in Nat, NEW l \in Nat
  PROVE  PredictedComputeMass(n, 1, l) \in Nat
  BY DEF PredictedComputeMass, BaseTxBytes, SignedP2pkInputBytes,
         P2pkOutputBytes, SpkMass, GramsPerSigop

\* A fee that does not fit 64 bits wraps around to less than the node's floor,
\* whatever the inputs and the priority fee: kaspad refuses it, and the user
\* never pays a fee other than the one asked for (required_fee, submit.rs:68).
THEOREM WrappedFeeIsBelowFloor ==
  ASSUME NEW n \in Nat, NEW r \in Requests,
         RawFee(n, r) <= 2 * U64Max + 1
  PROVE  /\ RawFee(n, r) <= U64Max => RequiredFee(n, r) = RawFee(n, r)
         /\ RawFee(n, r) > U64Max => RequiredFee(n, r) < NodeFloor(n, r)
<1>1. U64Max \in Nat /\ r.len \in Nat /\ r.priority \in 0 .. U64Max
  BY U64Assumption, RequestsAssumption
<1>2. DEFINE f == NodeFloor(n, r)  raw == RawFee(n, r)  w == U64Max + 1
<1>3. f \in Nat /\ raw = f + r.priority
  <2>1. PredictedComputeMass(n, 1, r.len) \in Nat
    BY <1>1, MassRange
  <2>2. QED
    BY <2>1 DEF NodeFloor, RawFee, MinRelayFeePerGram
<1>4. RequiredFee(n, r) = raw % w
  BY DEF RequiredFee
<1>5. raw \in Nat /\ w \in Nat \ {0} /\ raw < 2 * w
  BY <1>1, <1>3
<1>6. ASSUME NEW x \in Nat, NEW y \in Nat \ {0}
      PROVE  /\ x < y => x % y = x
             /\ y <= x /\ x < 2 * y => x % y = x - y
  OBVIOUS
<1>7. CASE raw <= U64Max
  BY <1>1, <1>4, <1>5, <1>6, <1>7
<1>8. CASE raw > U64Max
  <2>1. raw % w = raw - w
    BY <1>1, <1>5, <1>6, <1>8
  <2>2. QED
    BY <1>1, <1>3, <1>4, <1>8, <2>1
<1>9. QED
  BY <1>1, <1>5, <1>7, <1>8

MaxOutputs == Cardinality(Genesis \cup Deposits)

\* No transaction of the address is so heavy that its floor wraps around.
LEMMA FeeFits ==
  ASSUME NEW n \in Nat, n <= MaxOutputs, NEW r \in Requests
  PROVE  /\ RawFee(n, r) \in Nat /\ RequiredFee(n, r) \in Nat
         /\ RawFee(n, r) <= 2 * U64Max + 1
<1>1. /\ U64Max \in Nat /\ r.len \in Nat /\ r.priority \in 0 .. U64Max
      /\ MaxOutputs \in Nat
  BY U64Assumption, RequestsAssumption, OutputsAssumption, FS_CardinalityType
     DEF MaxOutputs
<1>2. MinRelayFeePerGram * PredictedComputeMass(MaxOutputs, 1, r.len) <= U64Max
  BY FloorAssumption DEF MaxOutputs
<1>3. /\ NodeFloor(n, r) \in Nat
      /\ NodeFloor(n, r) <= MinRelayFeePerGram * PredictedComputeMass(MaxOutputs, 1, r.len)
  BY <1>1 DEF NodeFloor, MinRelayFeePerGram, PredictedComputeMass, BaseTxBytes,
     SignedP2pkInputBytes, P2pkOutputBytes, SpkMass, GramsPerSigop
<1>4. RawFee(n, r) = NodeFloor(n, r) + r.priority
  BY DEF RawFee, NodeFloor
<1>5. RawFee(n, r) \in Nat /\ RawFee(n, r) <= 2 * U64Max + 1
  <2>1. ASSUME NEW f \in Nat, NEW g \in Int, f <= g, g <= U64Max
        PROVE  f + r.priority \in Nat /\ f + r.priority <= 2 * U64Max + 1
    BY <1>1, <2>1
  <2>2. PredictedComputeMass(MaxOutputs, 1, r.len) \in Nat
    BY <1>1, MassRange
  <2>3. MinRelayFeePerGram * PredictedComputeMass(MaxOutputs, 1, r.len) \in Int
    BY <2>2 DEF MinRelayFeePerGram
  <2> QED
    BY <1>2, <1>3, <1>4, <2>1, <2>3
<1>6. \A x \in Nat, y \in Nat \ {0} : x % y \in Nat
  OBVIOUS
<1>7. RequiredFee(n, r) \in Nat
  BY <1>1, <1>5, <1>6 DEF RequiredFee
<1> QED
  BY <1>5, <1>7

---------------------------------------------------------------------------
(* Sums of fees.                                                           *)

\* What confirmed transactions paid, if each paid what it was asked for.
Fees(r, C) == [t \in C |-> RawFee(Cardinality(t.inputs), r[t.post])]

LEMMA FeesAreSum ==
  ASSUME NEW r, NEW C, IsFiniteSet(C)
  PROVE  MapThenSumSet(LAMBDA t : RawFee(Cardinality(t.inputs), r[t.post]), C)
           = SumOver(Fees(r, C), C)
  <1> DEFINE w == Fees(r, C)
             F(h) == [s \in SUBSET C |->
                        IF s = {} THEN 0
                        ELSE LET x == CHOOSE x \in s : TRUE
                             IN RawFee(Cardinality(x.inputs), r[x.post]) + h[s \ {x}]]
             G(h) == [s \in SUBSET C |->
                        IF s = {} THEN 0 ELSE w[Some(s)] + h[Rest(s)]]
             R(h) == h = F(h)
  <1>1. MapThenSumSet(LAMBDA t : RawFee(Cardinality(t.inputs), r[t.post]), C)
          = (CHOOSE h : R(h))[C]
    BY DEF MapThenSumSet, MapThenFoldSet
  <1>2. ASSUME NEW h PROVE F(h) = G(h)
    <2>1. ASSUME NEW s \in SUBSET C, s # {}
          PROVE  LET x == CHOOSE x \in s : TRUE
                 IN  w[Some(s)] = RawFee(Cardinality(x.inputs), r[x.post])
      BY <2>1, SomeIn DEF Some, Fees
    <2> QED
      BY <2>1 DEF Some, Rest
  <1>3. ASSUME NEW h PROVE R(h) <=> Adds(h, w, C)
    BY <1>2 DEF Adds
  <1>4. PICK h : Adds(h, w, C)
    BY AddsExists
  <1>5. R(h)
    BY <1>3, <1>4
  <1> HIDE DEF R
  <1>6. R(CHOOSE x : R(x))
    BY <1>5
  <1>7. Adds(CHOOSE x : R(x), w, C)
    BY <1>3, <1>6
  <1> QED
    BY <1>1, <1>7, SumIs

Whole(v, D) == \A x \in D : v[x] \in Int
Joins(t, C, D) == t \notin C /\ D = C \cup {t}

\* Weights of a set of transactions, with one more.
LEMMA OneMore ==
  ASSUME NEW C, IsFiniteSet(C), NEW t, NEW D, Joins(t, C, D),
         NEW w, NEW v, Agree(v, w, C), Whole(v, D)
  PROVE  /\ IsFiniteSet(D)
         /\ SumOver(v, D) = v[t] + SumOver(w, C)
         /\ SumOver(w, C) \in Int
  <1>1. /\ t \notin C /\ D = C \cup {t} /\ IsFiniteSet(D)
        /\ \A x \in C \cup {t} : v[x] \in Int
    BY FS_AddElement DEF Whole, Joins
  <1>2. SumOver(v, D) = v[t] + SumOver(v, C)
    BY <1>1, SumAdd
  <1>3. SumOver(v, C) = SumOver(w, C)
    BY SumSame
  <1>4. SumOver(v, C) \in Int
    BY <1>1, SumNumbers
  <1> QED
    BY <1>1, <1>2, <1>3, <1>4

---------------------------------------------------------------------------
(* The commands and their transactions.                                    *)

GaveUp(p) == \E i \in DOMAIN unanswered : unanswered[i] = p
Live == mempool \cup confirmed

\* Every run's bookkeeping is a function of the command.
Shape ==
  /\ req \in [Posts -> Requests]
  /\ pc \in [Posts -> States]
  /\ answer \in [Posts -> Answers]
  /\ tx = [p \in Posts |-> tx[p]]
  /\ view = [p \in Posts |-> view[p]]
  /\ unanswered \in Seq(Posts)
  /\ \A p \in Posts :
       /\ pc[p] \in {"sent", "answered", "done"} => tx[p] # {}
       /\ pc[p] \in {"start", "fetched", "sent"} => answer[p] = "none"

\* A transaction belongs to the command that built it.
Owned ==
  /\ \A p \in Posts : \A t \in tx[p] : t.post = p /\ tx[p] = {t}
  /\ \A t \in stray \cup Live : t.post \in Posts

\* Nothing arrives late unless its run gave up, and whatever the node holds for
\* a command that always got an answer is what its last run was told about.
Accounted ==
  \A p \in Posts : ~ GaveUp(p) =>
    /\ \A t \in stray : t.post # p
    /\ \A t \in Live : t.post = p =>
         /\ tx[p] = {t}
         /\ pc[p] = "done" \/ (pc[p] = "answered" /\ answer[p] = "ok")

RunsInv == Shape /\ Owned /\ Accounted

LEMMA AppendKeeps ==
  ASSUME NEW s \in Seq(Posts), NEW p \in Posts
  PROVE  /\ Append(s, p) \in Seq(Posts)
         /\ \A q : (\E i \in DOMAIN s : s[i] = q)
                  => \E i \in DOMAIN Append(s, p) : Append(s, p)[i] = q
         /\ \E i \in DOMAIN Append(s, p) : Append(s, p)[i] = p
<1>1. /\ Append(s, p) \in Seq(Posts)
      /\ DOMAIN Append(s, p) = 1 .. Len(s) + 1
      /\ \A i \in 1 .. Len(s) : Append(s, p)[i] = s[i]
      /\ Append(s, p)[Len(s) + 1] = p
      /\ DOMAIN s = 1 .. Len(s) /\ Len(s) \in Nat
  OBVIOUS
<1>2. QED
  BY <1>1

\* What a step of one run must do to keep the books of all of them.
LEMMA RunMoves ==
  ASSUME RunsInv, NEW p \in Posts, Shape',
         UNCHANGED <<stray, mempool, confirmed, unanswered>>,
         \A q \in Posts : q # p =>
           tx'[q] = tx[q] /\ pc'[q] = pc[q] /\ answer'[q] = answer[q],
         \A t \in tx'[p] : t.post = p /\ tx'[p] = {t},
         \A t \in Live : t.post = p /\ ~ GaveUp(p) =>
           /\ tx'[p] = {t}
           /\ pc'[p] = "done" \/ (pc'[p] = "answered" /\ answer'[p] = "ok")
  PROVE  RunsInv'
<1>1. Live' = Live /\ \A q : GaveUp(q)' <=> GaveUp(q)
  BY DEF Live, GaveUp
<1>2. Owned'
  BY <1>1 DEF RunsInv, Owned
<1>3. Accounted'
  <2> SUFFICES ASSUME NEW q \in Posts, ~ GaveUp(q)
               PROVE  /\ \A t \in stray : t.post # q
                      /\ \A t \in Live : t.post = q =>
                           /\ tx'[q] = {t}
                           /\ \/ pc'[q] = "done"
                              \/ pc'[q] = "answered" /\ answer'[q] = "ok"
    BY <1>1 DEF Accounted
  <2>1. CASE q = p
    BY <2>1 DEF RunsInv, Accounted
  <2>2. CASE q # p
    BY <2>2 DEF RunsInv, Accounted
  <2> QED
    BY <2>1, <2>2
<1> QED
  BY <1>2, <1>3 DEF RunsInv

\* A run that is still before its answer has nothing at the node.
LEMMA NothingYet ==
  ASSUME RunsInv, NEW p \in Posts, pc[p] \notin {"answered", "done"}
  PROVE  \A t \in Live : ~ (t.post = p /\ ~ GaveUp(p))
  BY DEF RunsInv, Accounted

LEMMA RunsInit == Init => RunsInv
<1> SUFFICES ASSUME Init PROVE RunsInv
  OBVIOUS
<1>1. Shape
  BY DEF Init, Shape, States, Answers
<1>2. Owned /\ Accounted
  BY DEF Init, Owned, Accounted, Live
<1> QED
  BY <1>1, <1>2 DEF RunsInv

LEMMA RunsStep == RunsInv /\ [Next]_vars => RunsInv'
<1> SUFFICES ASSUME RunsInv, [Next]_vars PROVE RunsInv'
  OBVIOUS
<1>0. Shape /\ Owned /\ Accounted
  BY DEF RunsInv
<1>1. ASSUME NEW p \in Posts, Fetch(p) PROVE RunsInv'
  <2>1. Shape'
    BY <1>0, <1>1 DEF Fetch, faults, Shape, States
  <2>2. /\ UNCHANGED <<stray, mempool, confirmed, unanswered, tx, answer>>
        /\ pc[p] = "start" /\ \A q \in Posts : q # p => pc'[q] = pc[q]
    BY <1>0, <1>1 DEF Fetch, node, faults, Shape
  <2>3. \A t \in tx[p] : t.post = p /\ tx[p] = {t}
    BY <1>0 DEF Owned
  <2> QED
    BY <2>1, <2>2, <2>3, NothingYet, RunMoves
<1>2. ASSUME NEW p \in Posts, Submit(p) PROVE RunsInv'
  <2>1. PICK P : LET t == [post |-> p, inputs |-> P, out |-> ChangeOutput(P, req[p])]
                 IN tx' = [tx EXCEPT ![p] = {t}]
    BY <1>2 DEF Submit
  <2>2. PICK t : t.post = p /\ tx' = [tx EXCEPT ![p] = {t}]
    BY <2>1
  <2>3. Shape'
    BY <1>0, <1>2, <2>2 DEF Submit, faults, Shape, States
  <2>4. /\ UNCHANGED <<stray, mempool, confirmed, unanswered, answer>>
        /\ pc[p] = "fetched" /\ tx'[p] = {t}
        /\ \A q \in Posts : q # p => pc'[q] = pc[q] /\ tx'[q] = tx[q]
    BY <1>0, <1>2, <2>2 DEF Submit, node, faults, Shape
  <2> QED
    BY <2>2, <2>3, <2>4, NothingYet, RunMoves
<1>3. ASSUME NEW p \in Posts, BailOut(p) \/ Panic(p) \/ FetchFails(p) PROVE RunsInv'
  <2>1. PICK why \in {"insufficient", "panic", "unreachable"} : Fail(p, why)
    BY <1>3 DEF BailOut, Panic, FetchFails
  <2>2. /\ view' \in {view, [view EXCEPT ![p] = {}]} /\ pc[p] \in {"start", "fetched"}
        /\ UNCHANGED <<req, tx, stray, mempool, confirmed, unanswered>>
    BY <1>3 DEF BailOut, Panic, FetchFails, node, faults
  <2>3. Shape'
    BY <1>0, <2>1, <2>2 DEF Fail, Shape, States, Answers
  <2>4. \A q \in Posts : q # p => pc'[q] = pc[q] /\ answer'[q] = answer[q]
    BY <1>0, <2>1 DEF Fail, Shape
  <2>5. \A t \in tx[p] : t.post = p /\ tx[p] = {t}
    BY <1>0 DEF Owned
  <2> QED
    BY <2>2, <2>3, <2>4, <2>5, NothingYet, RunMoves
<1>4. ASSUME NEW p \in Posts, Answer(p) PROVE RunsInv'
  <2>1. PICK t \in tx[p] :
          /\ answer' = [answer EXCEPT ![p] = Verdict(t)]
          /\ mempool' = mempool \cup Admitted(t)
    BY <1>4 DEF Answer
  <2>2. \A s \in Admitted(t) : s = t /\ Verdict(t) = "ok"
    BY DEF Admitted
  <2>3. Shape'
    <3>1. Verdict(t) \in Answers
      BY DEF Verdict, Answers
    <3> QED
      BY <1>0, <1>4, <2>1, <3>1 DEF Answer, faults, Shape, States
  <2>4. /\ stray' = stray /\ tx' = tx /\ unanswered' = unanswered
        /\ Live' = Live \cup Admitted(t)
    BY <1>4, <2>1 DEF Answer, faults, Live
  <2>5. t.post = p /\ tx[p] = {t}
    BY <1>0, <2>1 DEF Owned
  <2>6. Owned'
    BY <1>0, <2>2, <2>4, <2>5 DEF Owned
  <2>7. Accounted'
    <3> SUFFICES ASSUME NEW q \in Posts, ~ GaveUp(q)'
                 PROVE  /\ \A s \in stray' : s.post # q
                        /\ \A s \in Live' : s.post = q =>
                             /\ tx'[q] = {s}
                             /\ \/ pc'[q] = "done"
                                \/ pc'[q] = "answered" /\ answer'[q] = "ok"
      BY DEF Accounted
    <3>1. ~ GaveUp(q)
      BY <2>4 DEF GaveUp
    <3>2. pc[p] = "sent" /\ pc'[p] = "answered" /\ answer'[p] = Verdict(t)
      BY <1>0, <1>4, <2>1 DEF Answer, Shape
    <3>3. q # p => pc'[q] = pc[q] /\ answer'[q] = answer[q]
      BY <1>0, <1>4, <2>1 DEF Answer, Shape
    <3> QED
      BY <1>0, <2>2, <2>4, <2>5, <3>1, <3>2, <3>3 DEF Accounted
  <2> QED
    BY <2>3, <2>6, <2>7 DEF RunsInv
<1>5. ASSUME NEW p \in Posts, Finish(p) PROVE RunsInv'
  <2>1. /\ pc[p] = "answered"
        /\ pc' = [pc EXCEPT ![p] = IF answer[p] = "ok" THEN "done" ELSE "failed"]
        /\ UNCHANGED <<req, view, tx, answer, stray, mempool, confirmed, unanswered>>
    BY <1>5 DEF Finish, node, faults
  <2>2. Shape'
    BY <1>0, <2>1 DEF Shape, States
  <2>3. /\ pc'[p] = IF answer[p] = "ok" THEN "done" ELSE "failed"
        /\ \A q \in Posts : q # p => pc'[q] = pc[q]
    BY <1>0, <2>1 DEF Shape
  <2>4. \A t \in tx[p] : t.post = p /\ tx[p] = {t}
    BY <1>0 DEF Owned
  <2>5. \A t \in Live : t.post = p /\ ~ GaveUp(p) =>
          tx'[p] = {t} /\ pc'[p] = "done"
    BY <1>0, <2>1, <2>3 DEF Accounted
  <2> QED
    BY <2>1, <2>2, <2>3, <2>4, <2>5, RunMoves
<1>6. ASSUME NEW p \in Posts, Disconnect(p) PROVE RunsInv'
  <2>1. /\ stray' \subseteq stray \cup tx[p]
        /\ UNCHANGED <<req, view, tx, mempool, confirmed>>
        /\ unanswered' = Append(unanswered, p)
    BY <1>6 DEF Disconnect, node
  <2>2. /\ unanswered' \in Seq(Posts) /\ GaveUp(p)'
        /\ \A q : GaveUp(q) => GaveUp(q)'
    <3>1. unanswered \in Seq(Posts)
      BY <1>0 DEF Shape
    <3>2. /\ unanswered' \in Seq(Posts)
          /\ \A q : (\E i \in DOMAIN unanswered : unanswered[i] = q)
                   => \E i \in DOMAIN unanswered' : unanswered'[i] = q
          /\ \E i \in DOMAIN unanswered' : unanswered'[i] = p
      BY <2>1, <3>1, AppendKeeps
    <3> QED
      BY <3>2 DEF GaveUp
  <2>3. Shape'
    BY <1>0, <1>6, <2>1, <2>2 DEF Disconnect, Fail, Shape, States, Answers
  <2>4. Owned'
    BY <1>0, <2>1 DEF Owned, Live
  <2>5. Accounted'
    <3> SUFFICES ASSUME NEW q \in Posts, ~ GaveUp(q)'
                 PROVE  /\ \A s \in stray' : s.post # q
                        /\ \A s \in Live' : s.post = q =>
                             /\ tx'[q] = {s}
                             /\ \/ pc'[q] = "done"
                                \/ pc'[q] = "answered" /\ answer'[q] = "ok"
      BY DEF Accounted
    <3>1. q # p /\ ~ GaveUp(q)
      BY <2>2
    <3>2. pc'[q] = pc[q] /\ answer'[q] = answer[q]
      BY <1>0, <1>6, <3>1 DEF Disconnect, Fail, Shape
    <3>3. \A s \in stray' : s \in stray \/ s.post = p
      BY <1>0, <2>1 DEF Owned
    <3> QED
      BY <1>0, <2>1, <3>1, <3>2, <3>3 DEF Accounted, Live
  <2> QED
    BY <2>3, <2>4, <2>5 DEF RunsInv
<1>7. ASSUME NEW p \in Posts, Rerun(p) PROVE RunsInv'
  <2>1. /\ pc[p] = "failed"
        /\ pc' = [pc EXCEPT ![p] = "start"]
        /\ tx' = [tx EXCEPT ![p] = {}]
        /\ answer' = [answer EXCEPT ![p] = "none"]
        /\ UNCHANGED <<req, view, stray, mempool, confirmed, unanswered>>
    BY <1>7 DEF Rerun, node, faults
  <2>2. Shape'
    BY <1>0, <2>1 DEF Shape, States, Answers
  <2>3. /\ tx'[p] = {}
        /\ \A q \in Posts : q # p =>
             tx'[q] = tx[q] /\ pc'[q] = pc[q] /\ answer'[q] = answer[q]
    BY <1>0, <2>1 DEF Shape
  <2> QED
    BY <2>1, <2>2, <2>3, NothingYet, RunMoves
<1>8. ASSUME Live' \subseteq Live \cup stray, stray' \subseteq stray,
             UNCHANGED <<req, run, unanswered>>
      PROVE  RunsInv'
  <2>1. Shape'
    BY <1>0, <1>8 DEF run, Shape
  <2>2. Owned'
    BY <1>0, <1>8 DEF run, Owned
  <2>3. Accounted'
    BY <1>0, <1>8 DEF run, Accounted, GaveUp
  <2> QED
    BY <2>1, <2>2, <2>3 DEF RunsInv
<1>9. ASSUME NEW t \in stray, StrayArrives(t) PROVE RunsInv'
  <2>1. mempool' \subseteq mempool \cup {t}
    BY <1>9 DEF StrayArrives, Admitted
  <2>2. Live' \subseteq Live \cup stray /\ stray' \subseteq stray
    BY <1>9, <2>1 DEF StrayArrives, Live
  <2> QED
    BY <1>8, <1>9, <2>2 DEF StrayArrives, faults
<1>10. ASSUME NEW t \in mempool, Mine(t) \/ Evict(t) PROVE RunsInv'
  <2>1. Live' \subseteq Live /\ UNCHANGED <<req, run, stray, unanswered>>
    BY <1>10 DEF Mine, Evict, Live, faults
  <2> QED
    BY <1>8, <2>1
<1>11. ASSUME NEW t \in confirmed, Reorg(t) PROVE RunsInv'
  <2>1. Live' \subseteq Live /\ UNCHANGED <<req, run, stray, unanswered>>
    BY <1>11 DEF Reorg, Live
  <2> QED
    BY <1>8, <2>1
<1>12. ASSUME NEW u \in Deposits, Deposit(u) PROVE RunsInv'
  <2>1. Live' \subseteq Live /\ UNCHANGED <<req, run, stray, unanswered>>
    BY <1>12 DEF Deposit, Live, faults
  <2> QED
    BY <1>8, <2>1
<1>13. CASE UNCHANGED vars
  <2>1. Live' \subseteq Live /\ UNCHANGED <<req, run, stray, unanswered>>
    BY <1>13 DEF vars, Live, node, faults
  <2> QED
    BY <1>8, <2>1
<1> QED
  BY <1>1, <1>2, <1>3, <1>4, <1>5, <1>6, <1>7, <1>9, <1>10, <1>11, <1>12,
     <1>13 DEF Next, Step

LEMMA AlwaysRuns == Spec => []RunsInv
  BY RunsInit, RunsStep, PTL DEF Spec

LEMMA TwiceConsequence == RunsInv => TwiceOnlyUnanswered
<1> SUFFICES ASSUME RunsInv,
                    NEW s \in Live, NEW t \in Live, s.post = t.post, ~ GaveUp(s.post)
             PROVE  s = t
  BY DEF TwiceOnlyUnanswered, Live, GaveUp
<1>1. s.post \in Posts
  BY DEF RunsInv, Owned
<1>2. tx[s.post] = {s} /\ tx[s.post] = {t}
  BY <1>1 DEF RunsInv, Accounted
<1>3. QED
  BY <1>2

\* A message can be on chain twice only if a run of its command ended without
\* an answer: every error pick_utxos or the node reports is safe to retry, for
\* any number of commands, faults and outputs (submit_komms_payload).
THEOREM TwiceOnlyUnansweredHolds == Spec => []TwiceOnlyUnanswered
  BY AlwaysRuns, TwiceConsequence, PTL

---------------------------------------------------------------------------
(* The node's ledger.                                                      *)

Outside == Genesis \cup deposited
Created == Outside \cup {Change(t) : t \in confirmed}
Spent == UNION {t.inputs : t \in confirmed}

\* The address's outputs are what was made and not spent, every output spent
\* was made, and no two transactions the node holds spend the same one.
Ledger ==
  /\ utxos = Created \ Spent
  /\ Spent \subseteq Created
  /\ \A s, t \in Live : s # t => ~ Conflict(s, t)
  /\ mempool \cap confirmed = {}
  /\ deposited \subseteq Deposits /\ IsFiniteSet(confirmed)

Extra(C) == [t \in C |-> Cardinality(t.inputs) - 1]

\* A transaction turns its inputs into one output, so there are never more
\* outputs than were paid to the address.
Count ==
  /\ HasAmounts(utxos)
  /\ Cardinality(utxos) + SumOver(Extra(confirmed), confirmed) = Cardinality(Outside)

Books ==
  TotalAmount(utxos) + SumOver(Fees(req, confirmed), confirmed) = TotalAmount(Outside)

\* The node lets in no transaction under its floor.
Lands == \A t \in Live : Floor(t) <= FeeOf(t)

NodeInv == Ledger /\ Count /\ Books /\ Lands

\* What a run may read, and what it makes of it.
Sound(V) == HasAmounts(V) /\ Cardinality(V) <= MaxOutputs

Builds ==
  \A b \in built :
    /\ b.tx.post \in Posts /\ Sound(b.view)
    /\ b.tx.inputs \in Prefixes(b.view)
    /\ Pays(b.tx.inputs, req[b.tx.post])
    /\ b.tx.out = ChangeOutput(b.tx.inputs, req[b.tx.post])

\* Nothing is about that no run built.
Known ==
  /\ \A p \in Posts : \A t \in tx[p] : \E b \in built : b.tx = t
  /\ \A t \in stray \cup Live : \E b \in built : b.tx = t

Views == \A p \in Posts : Sound(view[p])

BuildsInv == Builds /\ Known /\ Views /\ UnderpaidOnlyOnOverflow

LEMMA Outsiders ==
  ASSUME deposited \subseteq Deposits
  PROVE  /\ HasAmounts(Outside) /\ Cardinality(Outside) \in Nat
         /\ Cardinality(Outside) <= MaxOutputs /\ MaxOutputs \in Nat
         /\ \A u \in Outside : u.src = {}
<1>1. Outside \in SUBSET (Genesis \cup Deposits)
  BY DEF Outside
<1>2. IsFiniteSet(Genesis \cup Deposits)
  BY OutputsAssumption
<1>3. IsFiniteSet(Outside) /\ Cardinality(Outside) <= MaxOutputs
  BY <1>1, <1>2, FS_Subset DEF MaxOutputs
<1>4. Cardinality(Outside) \in Nat /\ MaxOutputs \in Nat
  BY <1>2, <1>3, FS_CardinalityType DEF MaxOutputs
<1> QED
  BY <1>1, <1>3, <1>4, OutputsAssumption DEF HasAmounts

\* A transaction some run built.
Made(t) ==
  /\ t.post \in Posts /\ HasAmounts(t.inputs)
  /\ Cardinality(t.inputs) \in Nat /\ Cardinality(t.inputs) >= 1
  /\ Cardinality(t.inputs) <= MaxOutputs
  /\ t.out \in Nat /\ TotalAmount(t.inputs) \in Nat
  /\ FeeOf(t) = RequiredFee(Cardinality(t.inputs), req[t.post])
  /\ RawFee(Cardinality(t.inputs), req[t.post]) \in Nat

LEMMA BuiltIsMade ==
  ASSUME Shape, Builds, MaxOutputs \in Nat, NEW b \in built
  PROVE  Made(b.tx)
<1> DEFINE t == b.tx  n == Cardinality(t.inputs)  r == req[t.post]
<1>1. /\ t.post \in Posts /\ r \in Requests
      /\ IsFiniteSet(b.view) /\ \A u \in b.view : u.amount \in Nat
      /\ Cardinality(b.view) <= MaxOutputs
      /\ t.inputs \in SUBSET b.view /\ t.inputs # {}
      /\ TotalAmount(t.inputs) > RequiredFee(n, r)
      /\ t.out = TotalAmount(t.inputs) - RequiredFee(n, r)
  BY DEF Builds, Shape, Sound, HasAmounts, Prefixes, Pays, ChangeOutput
<1>2. IsFiniteSet(t.inputs) /\ n <= Cardinality(b.view)
  BY <1>1, FS_Subset
<1>3. n \in Nat /\ Cardinality(b.view) \in Nat /\ n # 0
  BY <1>1, <1>2, FS_CardinalityType, FS_EmptySet
<1>4. HasAmounts(t.inputs)
  BY <1>1, <1>2 DEF HasAmounts
<1>5. TotalAmount(t.inputs) \in Nat
  BY <1>4, TotalNat
<1> HIDE DEF n
<1>6. n >= 1 /\ n <= MaxOutputs
  BY <1>1, <1>2, <1>3
<1>7. RawFee(n, r) \in Nat /\ RequiredFee(n, r) \in Nat
  BY <1>1, <1>3, <1>6, FeeFits
<1> HIDE DEF t, r
<1>8. t.out \in Nat /\ TotalAmount(t.inputs) - t.out = RequiredFee(n, r)
  BY <1>1, <1>5, <1>7
<1> QED
  BY <1>1, <1>3, <1>4, <1>5, <1>6, <1>7, <1>8 DEF Made, FeeOf, n, r, t

LEMMA AllMade ==
  ASSUME Shape, BuildsInv, deposited \subseteq Deposits
  PROVE  /\ \A p \in Posts : \A t \in tx[p] : Made(t)
         /\ \A t \in stray \cup Live : Made(t)
  BY BuiltIsMade, Outsiders DEF BuildsInv, Known

\* The fee of a transaction is the one asked for, or it is below the floor.
LEMMA FeeOrFloor ==
  ASSUME Shape, NEW t, Made(t)
  PROVE  /\ Floor(t) <= FeeOf(t) => FeeOf(t) = RawFee(Cardinality(t.inputs), req[t.post])
         /\ FeeOf(t) < Floor(t) => RawFee(Cardinality(t.inputs), req[t.post]) > U64Max
<1> DEFINE n == Cardinality(t.inputs)  r == req[t.post]
<1>1. n \in Nat /\ n <= MaxOutputs /\ r \in Requests /\ FeeOf(t) = RequiredFee(n, r)
  BY DEF Made, Shape
<1>2. Floor(t) = NodeFloor(n, r)
  BY DEF Floor, NodeFloor
<1>3. /\ RawFee(n, r) \in Nat /\ RequiredFee(n, r) \in Nat
      /\ RawFee(n, r) <= 2 * U64Max + 1 /\ U64Max \in Nat
  BY <1>1, FeeFits, U64Assumption
<1>4. NodeFloor(n, r) \in Nat /\ NodeFloor(n, r) <= RawFee(n, r)
  <2>1. r.len \in Nat /\ r.priority \in Nat
    BY <1>1, RequestsAssumption, U64Assumption
  <2>2. PredictedComputeMass(n, 1, r.len) \in Nat
    BY <1>1, <2>1, MassRange
  <2> HIDE DEF n, r
  <2> QED
    BY <2>1, <2>2 DEF NodeFloor, RawFee, MinRelayFeePerGram
<1>5. /\ RawFee(n, r) <= U64Max => RequiredFee(n, r) = RawFee(n, r)
      /\ RawFee(n, r) > U64Max => RequiredFee(n, r) < NodeFloor(n, r)
  BY <1>1, <1>3, WrappedFeeIsBelowFloor
<1> HIDE DEF n, r
<1>6. /\ NodeFloor(n, r) <= RequiredFee(n, r) => RequiredFee(n, r) = RawFee(n, r)
      /\ RequiredFee(n, r) < NodeFloor(n, r) => RawFee(n, r) > U64Max
  BY <1>3, <1>4, <1>5
<1> QED
  BY <1>1, <1>2, <1>6 DEF n, r

LEMMA FloorNumber ==
  ASSUME Shape, NEW t, Made(t)
  PROVE  Floor(t) \in Nat /\ FeeOf(t) \in Int
<1>1. Cardinality(t.inputs) \in Nat /\ req[t.post].len \in Nat
  BY RequestsAssumption DEF Made, Shape
<1>2. PredictedComputeMass(Cardinality(t.inputs), 1, req[t.post].len) \in Nat
  BY <1>1, MassRange
<1>3. TotalAmount(t.inputs) \in Nat /\ t.out \in Nat
  BY DEF Made
<1> QED
  BY <1>2, <1>3 DEF Floor, FeeOf, MinRelayFeePerGram

\* There are never more outputs to read than were ever paid to the address.
LEMMA UtxosSound ==
  ASSUME Ledger, Count, \A t \in Live : Made(t)
  PROVE  Sound(utxos)
<1>1. Cardinality(utxos) \in Nat
  BY FS_CardinalityType DEF Count, HasAmounts
<1>2. \A t \in confirmed : Extra(confirmed)[t] \in Nat
  BY DEF Made, Live, Extra
<1>3. SumOver(Extra(confirmed), confirmed) \in Nat
  BY <1>2, SumNumbers DEF Ledger
<1>4. Cardinality(Outside) \in Nat /\ Cardinality(Outside) <= MaxOutputs
      /\ MaxOutputs \in Nat
  BY Outsiders DEF Ledger
<1>5. Cardinality(utxos) <= MaxOutputs
  <2>1. Cardinality(utxos) + SumOver(Extra(confirmed), confirmed) = Cardinality(Outside)
    BY DEF Count
  <2> HIDE DEF MaxOutputs
  <2> QED
    BY <1>1, <1>3, <1>4, <2>1
<1> QED
  BY <1>5 DEF Sound, Count

---------------------------------------------------------------------------
(* Moving outputs about.                                                   *)

\* t spends its inputs in U and leaves W.
Trades(t, U, W) ==
  /\ t.inputs \in SUBSET U /\ Change(t) \notin U /\ t.out \in Nat
  /\ W = (U \ t.inputs) \cup {Change(t)}

LEMMA Swap ==
  ASSUME NEW U, HasAmounts(U), NEW t, NEW W, Trades(t, U, W)
  PROVE  /\ HasAmounts(W)
         /\ Cardinality(W) = Cardinality(U) - Cardinality(t.inputs) + 1
         /\ TotalAmount(W) = TotalAmount(U) - TotalAmount(t.inputs) + t.out
         /\ TotalAmount(U) \in Nat /\ TotalAmount(t.inputs) \in Nat
         /\ Cardinality(U) \in Nat /\ Cardinality(t.inputs) \in Nat
         /\ t.out \in Nat
<1> DEFINE I == t.inputs  c == Change(t)  K == U \ I
<1>1. /\ I \in SUBSET U /\ c \notin U /\ c.amount = t.out /\ t.out \in Nat
      /\ W = K \cup {c}
      /\ K \cap I = {} /\ K \cup I = U /\ K \cap {c} = {} /\ c \notin K
  BY DEF Trades, Change
<1>2. HasAmounts(I) /\ HasAmounts(K) /\ HasAmounts({c})
  <2>1. IsFiniteSet(U) /\ K \in SUBSET U
    BY DEF HasAmounts
  <2>2. IsFiniteSet(I) /\ IsFiniteSet(K) /\ IsFiniteSet({c})
    BY <1>1, <2>1, FS_Subset, FS_Singleton
  <2> QED
    BY <1>1, <2>2 DEF HasAmounts
<1> HIDE DEF K, I, c
<1>3. TotalAmount(U) = TotalAmount(K) + TotalAmount(I)
  BY <1>1, <1>2, TotalDisjoint
<1>4. TotalAmount(W) = TotalAmount(K) + t.out
  BY <1>1, <1>2, TotalDisjoint, TotalOne
<1>5. /\ TotalAmount(K) \in Nat /\ TotalAmount(I) \in Nat
      /\ TotalAmount(U) \in Nat
  BY <1>2, TotalNat
<1>6. IsFiniteSet(K) /\ IsFiniteSet(I) /\ IsFiniteSet(U)
  BY <1>2 DEF HasAmounts
<1>7. Cardinality(U) = Cardinality(K) + Cardinality(I) - Cardinality({})
  BY <1>1, <1>6, FS_Union
<1>8. IsFiniteSet(W) /\ Cardinality(W) = Cardinality(K) + 1
  <2>1. /\ IsFiniteSet(K \cup {c})
        /\ Cardinality(K \cup {c}) = IF c \in K THEN Cardinality(K) ELSE Cardinality(K) + 1
    BY <1>6, FS_AddElement
  <2> QED
    BY <1>1, <2>1
<1>9. /\ Cardinality(K) \in Nat /\ Cardinality(I) \in Nat
      /\ Cardinality(U) \in Nat /\ Cardinality({}) = 0
  BY <1>6, FS_CardinalityType, FS_EmptySet
<1>10. HasAmounts(W)
  BY <1>1, <1>2, <1>8 DEF HasAmounts
<1>11. Cardinality(W) = Cardinality(U) - Cardinality(I) + 1
  BY <1>7, <1>8, <1>9
<1>12. TotalAmount(W) = TotalAmount(U) - TotalAmount(I) + t.out
  BY <1>1, <1>3, <1>4, <1>5
<1> QED
  BY <1>1, <1>5, <1>9, <1>10, <1>11, <1>12 DEF I

Weighed(r, t) ==
  /\ Cardinality(t.inputs) \in Nat
  /\ RawFee(Cardinality(t.inputs), r[t.post]) \in Nat

\* Mining a transaction, and undoing one, leave what the ledger counts and what
\* it adds up to as they were.
LEMMA SameBooks ==
  ASSUME NEW U, HasAmounts(U), NEW C, IsFiniteSet(C), NEW t,
         NEW W, Trades(t, U, W), NEW D, Joins(t, C, D),
         NEW r, \A x \in D : Weighed(r, x),
         TotalAmount(t.inputs) - t.out = RawFee(Cardinality(t.inputs), r[t.post])
  PROVE  /\ HasAmounts(W) /\ IsFiniteSet(D)
         /\ Cardinality(W) + SumOver(Extra(D), D)
              = Cardinality(U) + SumOver(Extra(C), C)
         /\ TotalAmount(W) + SumOver(Fees(r, D), D)
              = TotalAmount(U) + SumOver(Fees(r, C), C)
<1> DEFINE n == Cardinality(t.inputs)  f == RawFee(n, r[t.post])
<1>1. /\ HasAmounts(W)
      /\ Cardinality(W) = Cardinality(U) - n + 1
      /\ TotalAmount(W) = TotalAmount(U) - TotalAmount(t.inputs) + t.out
      /\ TotalAmount(U) \in Nat /\ TotalAmount(t.inputs) \in Nat
      /\ Cardinality(U) \in Nat /\ n \in Nat /\ t.out \in Nat
  BY Swap
<1>2. Agree(Extra(D), Extra(C), C) /\ Whole(Extra(D), D)
  BY DEF Agree, Whole, Extra, Weighed, Joins
<1>3. Agree(Fees(r, D), Fees(r, C), C) /\ Whole(Fees(r, D), D)
  BY DEF Agree, Whole, Fees, Weighed, Joins
<1> HIDE DEF n, f
<1>4. /\ IsFiniteSet(D) /\ SumOver(Extra(C), C) \in Int
      /\ SumOver(Extra(D), D) = Extra(D)[t] + SumOver(Extra(C), C)
  BY <1>2, OneMore
<1>5. /\ SumOver(Fees(r, C), C) \in Int
      /\ SumOver(Fees(r, D), D) = Fees(r, D)[t] + SumOver(Fees(r, C), C)
  BY <1>3, OneMore
<1>6. Cardinality(W) + SumOver(Extra(D), D) = Cardinality(U) + SumOver(Extra(C), C)
  <2>1. Extra(D)[t] = n - 1
    BY DEF Extra, n, Joins
  <2> QED
    BY <1>1, <1>4, <2>1
<1>7. TotalAmount(W) + SumOver(Fees(r, D), D) = TotalAmount(U) + SumOver(Fees(r, C), C)
  <2>1. TotalAmount(t.inputs) - t.out = f /\ Fees(r, D)[t] = f
    BY DEF Fees, f, n, Joins
  <2> QED
    BY <1>1, <1>5, <2>1
<1> QED
  BY <1>1, <1>4, <1>6, <1>7

LEMMA ChangeIsNew ==
  /\ \A s, t : Change(s) = Change(t) => s = t
  /\ deposited \subseteq Deposits => \A t : Change(t) \notin Outside
<1>1. ASSUME NEW s, NEW t, Change(s) = Change(t) PROVE s = t
  <2>1. Change(s).src = {s} /\ Change(t).src = {t}
    BY DEF Change
  <2>2. {s} = {t}
    BY <1>1, <2>1
  <2> QED
    BY <2>2
<1>2. ASSUME deposited \subseteq Deposits, NEW t PROVE Change(t) \notin Outside
  <2>1. Change(t).src = {t} /\ {t} # {}
    BY DEF Change
  <2> QED
    BY <1>2, <2>1, Outsiders
<1> QED
  BY <1>1, <1>2

\* What the ledger says of a set of confirmed transactions and one more.
LEMMA OneMoreConfirmed ==
  ASSUME Ledger, NEW t, t \notin confirmed
  PROVE  /\ Change(t) \notin Created /\ Change(t) \notin Spent
         /\ Change(t) \notin utxos
<1>1. Change(t) \notin Created
  BY ChangeIsNew DEF Created, Ledger
<1> QED
  BY <1>1 DEF Ledger

LEMMA RegularFee ==
  ASSUME Shape, Lands, \A t \in Live : Made(t)
  PROVE  /\ \A t \in Live : FeeOf(t) = RawFee(Cardinality(t.inputs), req[t.post])
         /\ \A t \in Live : Weighed(req, t)
<1>1. \A t \in Live : FeeOf(t) = RawFee(Cardinality(t.inputs), req[t.post])
  BY FeeOrFloor DEF Lands
<1>2. \A t \in Live : Weighed(req, t)
  BY DEF Made, Weighed
<1> QED
  BY <1>1, <1>2

LEMMA LandsStays ==
  ASSUME Lands, req' = req, Live' \subseteq Live
  PROVE  Lands'
<1>1. \A t : Floor(t)' = Floor(t) /\ FeeOf(t)' = FeeOf(t)
  BY DEF Floor, FeeOf
<1> QED
  BY <1>1 DEF Lands

LEMMA MineStep ==
  ASSUME Shape, NodeInv, \A t \in Live : Made(t), NEW t \in mempool, Mine(t)
  PROVE  NodeInv'
<1>1. /\ t \in Live /\ Live' = Live /\ t \notin confirmed
      /\ t.inputs \subseteq utxos /\ t.out \in Nat
      /\ utxos' = (utxos \ t.inputs) \cup {Change(t)}
      /\ mempool' = mempool \ {t} /\ confirmed' = confirmed \cup {t}
      /\ UNCHANGED <<req, deposited>>
  BY DEF Mine, Live, NodeInv, Ledger, Made
<1>2. Ledger /\ Count /\ Books /\ Lands
  BY DEF NodeInv
<1>3. /\ Change(t) \notin Created /\ Change(t) \notin Spent
      /\ Change(t) \notin utxos
  BY <1>1, <1>2, OneMoreConfirmed
<1>4. Ledger'
  <2>1. Created' = Created \cup {Change(t)} /\ Spent' = Spent \cup t.inputs
    BY <1>1 DEF Created, Spent, Outside
  <2>2. utxos = Created \ Spent /\ Spent \subseteq Created
    BY <1>2 DEF Ledger
  <2>3. utxos' = Created' \ Spent' /\ Spent' \subseteq Created'
    BY <1>1, <1>3, <2>1, <2>2
  <2>4. mempool' \cap confirmed' = {} /\ IsFiniteSet(confirmed')
    BY <1>1, <1>2, FS_AddElement DEF Ledger
  <2>5. \A x, y \in Live' : x # y => ~ Conflict(x, y)
    BY <1>1, <1>2 DEF Ledger
  <2> QED
    BY <1>1, <1>2, <2>3, <2>4, <2>5 DEF Ledger, Conflict
<1>5. Count' /\ Books'
  <2>1. /\ HasAmounts(utxos) /\ IsFiniteSet(confirmed)
        /\ Trades(t, utxos, utxos') /\ Joins(t, confirmed, confirmed')
    BY <1>1, <1>2, <1>3 DEF Count, Ledger, Trades, Joins
  <2>2. /\ \A x \in confirmed' : Weighed(req, x)
        /\ TotalAmount(t.inputs) - t.out
             = RawFee(Cardinality(t.inputs), req[t.post])
    BY <1>1, <1>2, RegularFee DEF FeeOf, Live
  <2>3. /\ HasAmounts(utxos')
        /\ Cardinality(utxos') + SumOver(Extra(confirmed'), confirmed')
             = Cardinality(utxos) + SumOver(Extra(confirmed), confirmed)
        /\ TotalAmount(utxos') + SumOver(Fees(req, confirmed'), confirmed')
             = TotalAmount(utxos) + SumOver(Fees(req, confirmed), confirmed)
    BY <2>1, <2>2, SameBooks
  <2>4. Outside' = Outside /\ req' = req
    BY <1>1 DEF Outside
  <2> QED
    BY <1>2, <2>3, <2>4 DEF Count, Books
<1>6. Lands'
  BY <1>1, <1>2, LandsStays
<1> QED
  BY <1>4, <1>5, <1>6 DEF NodeInv

LEMMA ReorgStep ==
  ASSUME Shape, NodeInv, \A t \in Live : Made(t), NEW t \in confirmed, Reorg(t)
  PROVE  NodeInv'
<1>1. /\ t \in Live /\ Live' = Live
      /\ Change(t) \in utxos /\ t.out \in Nat /\ HasAmounts(t.inputs)
      /\ utxos' = (utxos \ {Change(t)}) \cup t.inputs
      /\ mempool' = mempool \cup {t} /\ confirmed' = confirmed \ {t}
      /\ UNCHANGED <<req, deposited>>
  BY DEF Reorg, Live, Made
<1>2. Ledger /\ Count /\ Books /\ Lands
  BY DEF NodeInv
<1>3. /\ Created = Created' \cup {Change(t)} /\ Spent = Spent' \cup t.inputs
      /\ Change(t) \notin Created' /\ t.inputs \cap Spent' = {}
  <2>1. Created = Created' \cup {Change(t)} /\ Spent = Spent' \cup t.inputs
    BY <1>1 DEF Created, Spent, Outside
  <2>2. Change(t) \notin Created'
    BY <1>1, <1>2, ChangeIsNew DEF Created, Outside, Ledger
  <2>3. \A s \in confirmed' : s.inputs \cap t.inputs = {}
    BY <1>1, <1>2 DEF Ledger, Conflict, Live
  <2>4. t.inputs \cap Spent' = {}
    BY <2>3 DEF Spent
  <2> QED
    BY <2>1, <2>2, <2>4
<1>4. /\ utxos = Created \ Spent /\ Spent \subseteq Created
      /\ t.inputs \cap utxos = {} /\ Change(t) \notin t.inputs
      /\ t.inputs \subseteq Created'
  BY <1>1, <1>2, <1>3 DEF Ledger
<1>5. Ledger'
  <2>1. utxos' = Created' \ Spent' /\ Spent' \subseteq Created'
    BY <1>1, <1>3, <1>4
  <2>2. mempool' \cap confirmed' = {} /\ IsFiniteSet(confirmed')
    BY <1>1, <1>2, FS_RemoveElement DEF Ledger
  <2>3. \A x, y \in Live' : x # y => ~ Conflict(x, y)
    BY <1>1, <1>2 DEF Ledger
  <2> QED
    BY <1>1, <1>2, <2>1, <2>2, <2>3 DEF Ledger, Conflict
<1>6. Count' /\ Books'
  <2>1. HasAmounts(utxos')
    <3>1. IsFiniteSet(utxos) /\ IsFiniteSet(t.inputs)
      BY <1>1, <1>2 DEF Count, HasAmounts
    <3>2. IsFiniteSet(utxos')
      BY <1>1, <3>1, FS_RemoveElement, FS_Union
    <3> QED
      BY <1>1, <1>2, <3>2 DEF Count, HasAmounts
  <2>2. /\ IsFiniteSet(confirmed')
        /\ Trades(t, utxos', utxos) /\ Joins(t, confirmed', confirmed)
    BY <1>1, <1>4, <1>5 DEF Ledger, Trades, Joins
  <2>3. /\ \A x \in confirmed : Weighed(req, x)
        /\ TotalAmount(t.inputs) - t.out
             = RawFee(Cardinality(t.inputs), req[t.post])
    BY <1>1, <1>2, RegularFee DEF FeeOf, Live
  <2>4. /\ Cardinality(utxos) + SumOver(Extra(confirmed), confirmed)
             = Cardinality(utxos') + SumOver(Extra(confirmed'), confirmed')
        /\ TotalAmount(utxos) + SumOver(Fees(req, confirmed), confirmed)
             = TotalAmount(utxos') + SumOver(Fees(req, confirmed'), confirmed')
    BY <2>1, <2>2, <2>3, SameBooks
  <2>5. Outside' = Outside /\ req' = req
    BY <1>1 DEF Outside
  <2> QED
    BY <1>2, <2>1, <2>4, <2>5 DEF Count, Books
<1>7. Lands'
  BY <1>1, <1>2, LandsStays
<1> QED
  BY <1>5, <1>6, <1>7 DEF NodeInv

\* A transaction the node admits spends nothing that is spent already.
LEMMA AdmitStep ==
  ASSUME Shape, NodeInv, \A x \in Live : Made(x), NEW t, Made(t),
         mempool' = mempool \cup Admitted(t),
         UNCHANGED <<req, utxos, confirmed, deposited>>
  PROVE  NodeInv'
<1>1. Ledger /\ Count /\ Books /\ Lands
  BY DEF NodeInv
<1>2. /\ Created' = Created /\ Spent' = Spent /\ Outside' = Outside
      /\ Live' = Live \cup Admitted(t)
  BY DEF Created, Spent, Outside, Live
<1>3. Count' /\ Books'
  BY <1>1, <1>2 DEF Count, Books
<1>4. CASE Verdict(t) # "ok"
  <2>1. mempool' = mempool
    BY <1>4 DEF Admitted
  <2>2. Ledger'
    BY <1>1, <1>2, <2>1 DEF Ledger, Live, Conflict
  <2>3. Lands'
    BY <1>1, <2>1, LandsStays DEF Live
  <2> QED
    BY <1>3, <2>2, <2>3 DEF NodeInv
<1>5. CASE Verdict(t) = "ok"
  <2>1. /\ ~ (FeeOf(t) < Floor(t)) /\ t.inputs \subseteq utxos
        /\ \A s \in mempool : ~ Conflict(s, t)
        /\ mempool' = mempool \cup {t} /\ Live' = Live \cup {t}
    BY <1>2, <1>5 DEF Verdict, Admitted
  <2>2. t.inputs # {} /\ t.inputs \cap Spent = {}
    <3>1. t.inputs # {}
      BY FS_EmptySet DEF Made
    <3> QED
      BY <1>1, <2>1, <3>1 DEF Ledger
  <2>3. \A s \in confirmed : ~ Conflict(s, t) /\ s # t
    BY <2>2 DEF Spent, Conflict
  <2>4. \A x, y \in Live' : x # y => ~ Conflict(x, y)
    BY <1>1, <2>1, <2>3 DEF Ledger, Live, Conflict
  <2>5. mempool' \cap confirmed' = {}
    BY <1>1, <2>1, <2>3 DEF Ledger
  <2>6. Ledger'
    BY <1>1, <1>2, <2>4, <2>5 DEF Ledger, Conflict
  <2>7. Floor(t) <= FeeOf(t)
    BY <2>1, FloorNumber
  <2>8. \A x : Floor(x)' = Floor(x) /\ FeeOf(x)' = FeeOf(x)
    BY DEF Floor, FeeOf
  <2>9. Lands'
    BY <1>1, <2>1, <2>7, <2>8 DEF Lands
  <2> QED
    BY <1>3, <2>6, <2>9 DEF NodeInv
<1> QED
  BY <1>4, <1>5

LEMMA EvictStep ==
  ASSUME NodeInv, NEW t \in mempool, Evict(t)
  PROVE  NodeInv'
<1>1. /\ mempool' \subseteq mempool /\ Live' \subseteq Live
      /\ UNCHANGED <<req, utxos, confirmed, deposited>>
  BY DEF Evict, Live
<1>2. Created' = Created /\ Spent' = Spent /\ Outside' = Outside
  BY <1>1 DEF Created, Spent, Outside
<1>3. Ledger'
  BY <1>1, <1>2 DEF NodeInv, Ledger, Conflict
<1>4. Count' /\ Books'
  BY <1>1, <1>2 DEF NodeInv, Count, Books
<1>5. Lands'
  BY <1>1, LandsStays DEF NodeInv
<1> QED
  BY <1>3, <1>4, <1>5 DEF NodeInv

\* One more output from outside.
LEMMA OneMoreOutput ==
  ASSUME NEW U, HasAmounts(U), NEW u, u \notin U, u.amount \in Nat
  PROVE  /\ HasAmounts(U \cup {u})
         /\ Cardinality(U \cup {u}) = Cardinality(U) + 1
         /\ TotalAmount(U \cup {u}) = TotalAmount(U) + u.amount
         /\ TotalAmount(U) \in Nat /\ Cardinality(U) \in Nat
<1>1. IsFiniteSet(U) /\ IsFiniteSet({u}) /\ U \cap {u} = {}
  BY FS_Singleton DEF HasAmounts
<1>2. IsFiniteSet(U \cup {u}) /\ Cardinality(U \cup {u}) = Cardinality(U) + 1
  BY <1>1, FS_AddElement
<1>3. HasAmounts({u}) /\ HasAmounts(U \cup {u})
  BY <1>1, <1>2 DEF HasAmounts
<1>4. TotalAmount(U \cup {u}) = TotalAmount(U) + TotalAmount({u})
  BY <1>1, <1>3, TotalDisjoint
<1> QED
  BY <1>1, <1>2, <1>3, <1>4, TotalOne, TotalNat, FS_CardinalityType

LEMMA DepositStep ==
  ASSUME Shape, NodeInv, \A t \in Live : Made(t), NEW u \in Deposits, Deposit(u)
  PROVE  NodeInv'
<1>1. /\ u \notin deposited /\ utxos' = utxos \cup {u}
      /\ deposited' = deposited \cup {u} /\ Live' = Live
      /\ UNCHANGED <<req, mempool, confirmed>>
  BY DEF Deposit, Live
<1>2. Ledger /\ Count /\ Books /\ Lands
  BY DEF NodeInv
<1>3. u.src = {} /\ u.amount \in Nat /\ u \notin Outside
  BY <1>1, OutputsAssumption DEF Outside
<1>4. u \notin Created
  <2>1. \A t : Change(t) # u
    BY <1>3 DEF Change
  <2> QED
    BY <1>3, <2>1 DEF Created
<1>5. /\ Created' = Created \cup {u} /\ Spent' = Spent
      /\ Outside' = Outside \cup {u}
  BY <1>1 DEF Created, Spent, Outside
<1>6. u \notin utxos /\ u \notin Spent
  BY <1>2, <1>4 DEF Ledger
<1>7. Ledger'
  <2>1. utxos' = Created' \ Spent' /\ Spent' \subseteq Created'
    BY <1>1, <1>2, <1>5, <1>6 DEF Ledger
  <2> QED
    BY <1>1, <1>2, <2>1 DEF Ledger, Conflict
<1>8. Count' /\ Books'
  <2>1. HasAmounts(utxos) /\ HasAmounts(Outside)
    BY <1>2, Outsiders DEF Count, Ledger
  <2>2. /\ HasAmounts(utxos') /\ Cardinality(utxos') = Cardinality(utxos) + 1
        /\ TotalAmount(utxos') = TotalAmount(utxos) + u.amount
        /\ TotalAmount(utxos) \in Nat /\ Cardinality(utxos) \in Nat
    BY <1>1, <1>3, <1>6, <2>1, OneMoreOutput
  <2>3. /\ Cardinality(Outside') = Cardinality(Outside) + 1
        /\ TotalAmount(Outside') = TotalAmount(Outside) + u.amount
        /\ TotalAmount(Outside) \in Nat /\ Cardinality(Outside) \in Nat
    BY <1>3, <1>5, <2>1, OneMoreOutput
  <2>4. /\ SumOver(Extra(confirmed), confirmed) \in Int
        /\ SumOver(Fees(req, confirmed), confirmed) \in Int
    <3>1. \A t \in confirmed : Weighed(req, t)
      BY <1>2, RegularFee DEF Live
    <3>2. /\ \A t \in confirmed : Extra(confirmed)[t] \in Int
          /\ \A t \in confirmed : Fees(req, confirmed)[t] \in Int
      BY <3>1 DEF Weighed, Extra, Fees
    <3>3. IsFiniteSet(confirmed)
      BY <1>2 DEF Ledger
    <3>4. SumOver(Extra(confirmed), confirmed) \in Int
      BY <3>2, <3>3, SumNumbers
    <3>5. SumOver(Fees(req, confirmed), confirmed) \in Int
      BY <3>2, <3>3, SumNumbers
    <3> QED
      BY <3>4, <3>5
  <2>5. Cardinality(utxos') + SumOver(Extra(confirmed), confirmed) = Cardinality(Outside')
    BY <1>2, <2>2, <2>3, <2>4 DEF Count
  <2>6. TotalAmount(utxos') + SumOver(Fees(req, confirmed), confirmed) = TotalAmount(Outside')
    BY <1>2, <1>3, <2>2, <2>3, <2>4 DEF Books
  <2> QED
    BY <1>1, <2>2, <2>5, <2>6 DEF Count, Books
<1>9. Lands'
  BY <1>1, <1>2, LandsStays
<1> QED
  BY <1>7, <1>8, <1>9 DEF NodeInv

LEMMA Untouched ==
  ASSUME NodeInv, UNCHANGED <<req, node>>
  PROVE  NodeInv'
<1>1. Live' = Live /\ UNCHANGED <<req, utxos, mempool, confirmed, deposited>>
  BY DEF Live, node
<1>2. Created' = Created /\ Spent' = Spent /\ Outside' = Outside
  BY <1>1 DEF Created, Spent, Outside
<1>3. Ledger'
  BY <1>1, <1>2 DEF NodeInv, Ledger, Conflict
<1>4. Count' /\ Books'
  BY <1>1, <1>2 DEF NodeInv, Count, Books
<1>5. Lands'
  BY <1>1, LandsStays DEF NodeInv
<1> QED
  BY <1>3, <1>4, <1>5 DEF NodeInv

---------------------------------------------------------------------------
(* What the runs build.                                                    *)

LEMMA NothingIsSound == Sound({})
<1>1. IsFiniteSet({}) /\ Cardinality({}) = 0
  BY FS_EmptySet
<1>2. MaxOutputs \in Nat
  BY OutputsAssumption, FS_CardinalityType DEF MaxOutputs
<1> QED
  BY <1>1, <1>2 DEF Sound, HasAmounts

\* Steps that build nothing.
LEMMA BuildsKeep ==
  ASSUME BuildsInv, UNCHANGED <<req, built>>,
         \A p \in Posts : tx'[p] \subseteq tx[p],
         \A t \in stray' \cup Live' :
           t \in stray \cup Live \/ \E p \in Posts : t \in tx[p],
         \A p \in Posts : view'[p] = view[p] \/ Sound(view'[p]),
         \A p \in Posts :
           \/ answer'[p] = answer[p] /\ tx'[p] = tx[p]
           \/ answer'[p] # "underpaid"
           \/ \E t \in tx'[p] : RawFee(Cardinality(t.inputs), req[p]) > U64Max
  PROVE  BuildsInv'
<1>1. Builds /\ Known /\ Views /\ UnderpaidOnlyOnOverflow
  BY DEF BuildsInv
<1>2. Builds'
  BY <1>1 DEF Builds
<1>3. Known'
  BY <1>1 DEF Known
<1>4. Views'
  BY <1>1 DEF Views
<1>5. UnderpaidOnlyOnOverflow'
  <2> SUFFICES ASSUME NEW p \in Posts, answer'[p] = "underpaid"
               PROVE  \E t \in tx'[p] : RawFee(Cardinality(t.inputs), req[p]) > U64Max
    BY DEF UnderpaidOnlyOnOverflow
  <2> QED
    BY <1>1 DEF UnderpaidOnlyOnOverflow
<1> QED
  BY <1>2, <1>3, <1>4, <1>5 DEF BuildsInv

Inv == RunsInv /\ NodeInv /\ BuildsInv

LEMMA InvFacts ==
  ASSUME Inv
  PROVE  /\ Shape /\ Owned /\ NodeInv /\ BuildsInv
         /\ \A p \in Posts : \A t \in tx[p] : Made(t)
         /\ \A t \in stray \cup Live : Made(t)
         /\ Sound(utxos)
<1>1. Shape /\ Owned /\ NodeInv /\ BuildsInv
  BY DEF Inv, RunsInv
<1>2. /\ \A p \in Posts : \A t \in tx[p] : Made(t)
      /\ \A t \in stray \cup Live : Made(t)
  BY <1>1, AllMade DEF NodeInv, Ledger
<1>3. Sound(utxos)
  BY <1>1, <1>2, UtxosSound DEF NodeInv
<1> QED
  BY <1>1, <1>2, <1>3

LEMMA SubmitBuilds ==
  ASSUME Inv, NEW p \in Posts, Submit(p)
  PROVE  BuildsInv'
<1>1. /\ Shape /\ Builds /\ Known /\ Views /\ UnderpaidOnlyOnOverflow
      /\ pc[p] = "fetched" /\ answer[p] = "none"
      /\ view' = [view EXCEPT ![p] = {}]
      /\ UNCHANGED <<req, answer, stray, mempool, confirmed>>
  BY InvFacts DEF Submit, BuildsInv, Shape, node
<1>2. PICK P \in PickUtxos(view[p], req[p]) :
        LET t == [post |-> p, inputs |-> P, out |-> ChangeOutput(P, req[p])] IN
        /\ tx' = [tx EXCEPT ![p] = {t}]
        /\ built' = built \cup {[tx |-> t, view |-> view[p]]}
  BY DEF Submit
<1> DEFINE t == [post |-> p, inputs |-> P, out |-> ChangeOutput(P, req[p])]
           b == [tx |-> t, view |-> view[p]]
<1>3. /\ b.tx = t /\ b.view = view[p] /\ t.post = p /\ t.inputs = P
      /\ t.out = ChangeOutput(P, req[p])
  OBVIOUS
<1>4. P \in Prefixes(view[p]) /\ Pays(P, req[p])
  BY DEF PickUtxos, Tried
<1>5. tx' = [tx EXCEPT ![p] = {t}] /\ built' = built \cup {b}
  BY <1>2
<1> HIDE DEF t, b
<1>6. Builds'
  <2>1. Sound(view[p])
    BY <1>1 DEF Views
  <2> QED
    BY <1>1, <1>3, <1>4, <1>5, <2>1 DEF Builds
<1>7. \A q \in Posts : tx'[q] = IF q = p THEN {t} ELSE tx[q]
  BY <1>1, <1>5 DEF Shape
<1>8. Known'
  BY <1>1, <1>3, <1>5, <1>7 DEF Known, Live
<1>9. Views'
  <2>1. \A q \in Posts : view'[q] = IF q = p THEN {} ELSE view[q]
    BY <1>1 DEF Shape
  <2> QED
    BY <1>1, <2>1, NothingIsSound DEF Views
<1>10. UnderpaidOnlyOnOverflow'
  <2> SUFFICES ASSUME NEW q \in Posts, answer[q] = "underpaid"
               PROVE  \E x \in tx'[q] : RawFee(Cardinality(x.inputs), req[q]) > U64Max
    BY <1>1 DEF UnderpaidOnlyOnOverflow
  <2>1. tx'[q] = tx[q]
    BY <1>1, <1>7
  <2> QED
    BY <1>1, <2>1 DEF UnderpaidOnlyOnOverflow
<1> QED
  BY <1>6, <1>8, <1>9, <1>10 DEF BuildsInv

LEMMA AnswerBuilds ==
  ASSUME Inv, NEW p \in Posts, NEW t \in tx[p],
         answer' = [answer EXCEPT ![p] = Verdict(t)],
         mempool' = mempool \cup Admitted(t),
         UNCHANGED <<req, tx, view, stray, confirmed, built>>
  PROVE  BuildsInv'
<1>1. Shape /\ Owned /\ BuildsInv /\ Made(t)
  BY InvFacts
<1>2. t.post = p /\ Live' \subseteq Live \cup {t}
  BY <1>1 DEF Owned, Admitted, Live
<1>3. \A q \in Posts : answer'[q] = IF q = p THEN Verdict(t) ELSE answer[q]
  BY <1>1 DEF Shape
<1>4. ASSUME Verdict(t) = "underpaid"
      PROVE  RawFee(Cardinality(t.inputs), req[p]) > U64Max
  <2>1. FeeOf(t) < Floor(t)
    BY <1>4 DEF Verdict
  <2> QED
    BY <1>1, <1>2, <2>1, FeeOrFloor
<1> QED
  BY <1>1, <1>2, <1>3, <1>4, BuildsKeep

---------------------------------------------------------------------------
(* The whole invariant.                                                    *)

LEMMA InvInit == Init => Inv
<1> SUFFICES ASSUME Init PROVE Inv
  OBVIOUS
<1>1. /\ utxos = Genesis /\ mempool = {} /\ confirmed = {} /\ deposited = {}
      /\ stray = {} /\ built = {}
  BY DEF Init
<1>2. Outside = Genesis /\ Created = Genesis /\ Spent = {} /\ Live = {}
  BY <1>1 DEF Outside, Created, Spent, Live
<1>3. HasAmounts(Genesis) /\ Cardinality(Genesis) \in Nat
  BY <1>1, <1>2, Outsiders
<1>4. Ledger
  BY <1>1, <1>2, FS_EmptySet DEF Ledger
<1>5. Count /\ Books
  <2>1. TotalAmount(Genesis) \in Nat
    BY <1>3, TotalNat
  <2>2. SumOver(Extra({}), {}) = 0 /\ SumOver(Fees(req, {}), {}) = 0
    BY SumEmpty
  <2> QED
    BY <1>1, <1>2, <1>3, <2>1, <2>2 DEF Count, Books
<1>6. Lands
  BY <1>2 DEF Lands
<1>7. BuildsInv
  <2>1. Views
    BY NothingIsSound DEF Init, Views
  <2>2. UnderpaidOnlyOnOverflow
    BY DEF Init, UnderpaidOnlyOnOverflow
  <2>3. Builds /\ Known
    BY <1>1, <1>2 DEF Init, Builds, Known
  <2> QED
    BY <2>1, <2>2, <2>3 DEF BuildsInv
<1> QED
  BY <1>4, <1>5, <1>6, <1>7, RunsInit DEF Inv, NodeInv

LEMMA InvStep == Inv /\ [Next]_vars => Inv'
<1> SUFFICES ASSUME Inv, [Next]_vars PROVE Inv'
  OBVIOUS
<1>0. /\ Shape /\ NodeInv /\ BuildsInv /\ Sound(utxos)
      /\ \A p \in Posts : \A t \in tx[p] : Made(t)
      /\ \A t \in stray \cup Live : Made(t)
  BY InvFacts
<1> SUFFICES NodeInv' /\ BuildsInv'
  BY RunsStep DEF Inv
<1>1. ASSUME NEW p \in Posts, Fetch(p) PROVE NodeInv' /\ BuildsInv'
  <2>1. UNCHANGED <<req, tx, answer, stray, built, node>>
    BY <1>1 DEF Fetch
  <2>2. NodeInv' /\ Live' = Live
    BY <1>0, <2>1, Untouched DEF Live, node
  <2>3. \A q \in Posts : view'[q] = view[q] \/ Sound(view'[q])
    BY <1>0, <1>1 DEF Fetch, Shape
  <2> QED
    BY <1>0, <2>1, <2>2, <2>3, BuildsKeep
<1>2. ASSUME NEW p \in Posts, Submit(p) PROVE NodeInv' /\ BuildsInv'
  BY <1>0, <1>2, Untouched, SubmitBuilds DEF Submit
<1>3. ASSUME NEW p \in Posts, BailOut(p) \/ Panic(p) \/ FetchFails(p) PROVE NodeInv' /\ BuildsInv'
  <2>1. UNCHANGED <<req, tx, stray, built, node>>
    BY <1>3 DEF BailOut, Panic, FetchFails
  <2>2. NodeInv' /\ Live' = Live
    BY <1>0, <2>1, Untouched DEF Live, node
  <2>3. \A q \in Posts : view'[q] = view[q] \/ Sound(view'[q])
    BY <1>0, <1>3, NothingIsSound DEF BailOut, Panic, FetchFails, Shape
  <2>4. \A q \in Posts : answer'[q] = answer[q] \/ answer'[q] # "underpaid"
    BY <1>0, <1>3 DEF BailOut, Panic, FetchFails, Fail, Shape
  <2> QED
    BY <1>0, <2>1, <2>2, <2>3, <2>4, BuildsKeep
<1>4. ASSUME NEW p \in Posts, Answer(p) PROVE NodeInv' /\ BuildsInv'
  <2>1. PICK t \in tx[p] :
          /\ answer' = [answer EXCEPT ![p] = Verdict(t)]
          /\ mempool' = mempool \cup Admitted(t)
    BY <1>4 DEF Answer
  <2>2. UNCHANGED <<req, view, tx, stray, utxos, confirmed, deposited, built>>
    BY <1>4 DEF Answer
  <2> QED
    BY <1>0, <2>1, <2>2, AdmitStep, AnswerBuilds
<1>5. ASSUME NEW p \in Posts, Finish(p) PROVE NodeInv' /\ BuildsInv'
  <2>1. UNCHANGED <<req, view, tx, answer, stray, built, node>>
    BY <1>5 DEF Finish
  <2>2. NodeInv' /\ Live' = Live
    BY <1>0, <2>1, Untouched DEF Live, node
  <2> QED
    BY <1>0, <2>1, <2>2, BuildsKeep
<1>6. ASSUME NEW p \in Posts, Disconnect(p) PROVE NodeInv' /\ BuildsInv'
  <2>1. /\ UNCHANGED <<req, view, tx, built, node>>
        /\ stray' \subseteq stray \cup tx[p]
    BY <1>6 DEF Disconnect
  <2>2. NodeInv' /\ Live' = Live
    BY <1>0, <2>1, Untouched DEF Live, node
  <2>3. \A q \in Posts : answer'[q] = answer[q] \/ answer'[q] # "underpaid"
    BY <1>0, <1>6 DEF Disconnect, Fail, Shape
  <2> QED
    BY <1>0, <2>1, <2>2, <2>3, BuildsKeep
<1>7. ASSUME NEW p \in Posts, Rerun(p) PROVE NodeInv' /\ BuildsInv'
  <2>1. UNCHANGED <<req, view, stray, built, node>>
    BY <1>7 DEF Rerun
  <2>2. NodeInv' /\ Live' = Live
    BY <1>0, <2>1, Untouched DEF Live, node
  <2>3. \A q \in Posts :
          \/ answer'[q] = answer[q] /\ tx'[q] = tx[q]
          \/ answer'[q] # "underpaid"
    BY <1>0, <1>7 DEF Rerun, Shape
  <2>4. \A q \in Posts : tx'[q] \subseteq tx[q]
    BY <1>0, <1>7 DEF Rerun, Shape
  <2> QED
    BY <1>0, <2>1, <2>2, <2>3, <2>4, BuildsKeep
<1>8. ASSUME UNCHANGED <<req, run, built>>, stray' \cup Live' \subseteq stray \cup Live
      PROVE  BuildsInv'
  <2>1. UNCHANGED <<view, tx, answer>>
    BY <1>8 DEF run
  <2> QED
    BY <1>0, <1>8, <2>1, BuildsKeep
<1>9. ASSUME NEW t \in stray, StrayArrives(t) PROVE NodeInv' /\ BuildsInv'
  <2>1. /\ mempool' = mempool \cup Admitted(t) /\ stray' \subseteq stray
        /\ UNCHANGED <<req, run, utxos, confirmed, deposited, built>>
    BY <1>9 DEF StrayArrives
  <2>2. stray' \cup Live' \subseteq stray \cup Live
    BY <2>1 DEF Live, Admitted
  <2> QED
    BY <1>0, <1>8, <2>1, <2>2, AdmitStep
<1>10. ASSUME NEW t \in mempool, Mine(t) PROVE NodeInv' /\ BuildsInv'
  <2>1. Live' \subseteq Live /\ UNCHANGED <<req, run, stray, built>>
    BY <1>10 DEF Mine, Live
  <2> QED
    BY <1>0, <1>8, <1>10, <2>1, MineStep
<1>11. ASSUME NEW t \in mempool, Evict(t) PROVE NodeInv' /\ BuildsInv'
  <2>1. Live' \subseteq Live /\ UNCHANGED <<req, run, stray, built>>
    BY <1>11 DEF Evict, Live
  <2> QED
    BY <1>0, <1>8, <1>11, <2>1, EvictStep
<1>12. ASSUME NEW t \in confirmed, Reorg(t) PROVE NodeInv' /\ BuildsInv'
  <2>1. Live' \subseteq Live /\ UNCHANGED <<req, run, stray, built>>
    BY <1>12 DEF Reorg, Live
  <2> QED
    BY <1>0, <1>8, <1>12, <2>1, ReorgStep
<1>13. ASSUME NEW u \in Deposits, Deposit(u) PROVE NodeInv' /\ BuildsInv'
  <2>1. Live' \subseteq Live /\ UNCHANGED <<req, run, stray, built>>
    BY <1>13 DEF Deposit, Live
  <2> QED
    BY <1>0, <1>8, <1>13, <2>1, DepositStep
<1>14. CASE UNCHANGED vars
  <2>1. UNCHANGED <<req, run, stray, built, node>>
    BY <1>14 DEF vars
  <2>2. NodeInv' /\ Live' = Live
    BY <1>0, <2>1, Untouched DEF Live, node
  <2> QED
    BY <1>8, <2>1, <2>2
<1> QED
  BY <1>1, <1>2, <1>3, <1>4, <1>5, <1>6, <1>7, <1>9, <1>10, <1>11, <1>12,
     <1>13, <1>14 DEF Next, Step

LEMMA AlwaysInv == Spec => []Inv
  BY InvInit, InvStep, PTL DEF Spec

---------------------------------------------------------------------------
(* What follows for users.                                                 *)

\* A command's run that waits has one transaction of its own, and nothing is
\* about that no run built (submit_komms_payload).
THEOREM TypeCorrect == Spec => []TypeOK
<1>1. Inv => TypeOK
  <2> SUFFICES ASSUME Inv PROVE TypeOK
    OBVIOUS
  <2>1. /\ Shape /\ Owned /\ Known
        /\ \A p \in Posts : \A t \in tx[p] : Made(t)
        /\ \A t \in stray \cup Live : Made(t)
    BY InvFacts DEF BuildsInv
  <2>2. ASSUME NEW t, Made(t) PROVE IsTx(t)
    BY <2>2, FS_EmptySet DEF Made, IsTx
  <2>3. \A t \in (UNION {tx[p] : p \in Posts}) \cup stray \cup mempool \cup confirmed :
          IsTx(t) /\ \E b \in built : b.tx = t
    <3> SUFFICES ASSUME NEW t, (t \in stray \cup Live) \/ \E p \in Posts : t \in tx[p]
                 PROVE  IsTx(t) /\ \E b \in built : b.tx = t
      BY DEF Live
    <3> QED
      BY <2>1, <2>2 DEF Known
  <2>4. \A p \in Posts : \A s, t \in tx[p] : s = t /\ t.post = p
    BY <2>1 DEF Owned
  <2> QED
    BY <2>1, <2>3, <2>4 DEF TypeOK, Shape
<1> QED
  BY <1>1, AlwaysInv, PTL

\* Only a fee that does not fit 64 bits makes the node find a post underpaid:
\* required_fee never asks for less than the node's floor (submit.rs:31-35).
THEOREM UnderpaidOnlyOnOverflowHolds == Spec => []UnderpaidOnlyOnOverflow
<1>1. Inv => UnderpaidOnlyOnOverflow
  BY DEF Inv, BuildsInv
<1> QED
  BY <1>1, AlwaysInv, PTL

\* Whatever the node holds paid its floor and the whole priority fee: a fee that
\* wrapped around never gets a transaction in (required_fee, submit.rs:68).
THEOREM WrappedNeverLandsHolds == Spec => []WrappedNeverLands
<1>1. Inv => WrappedNeverLands
  BY InvFacts, RegularFee DEF NodeInv, WrappedNeverLands, Live
<1> QED
  BY <1>1, AlwaysInv, PTL

\* What the address lost is, to the sompi, what required_fee asks for each post
\* on chain, however many runs raced, were retried, evicted or undone (change
\* computed at submit.rs:211-216).
THEOREM BalanceHolds == Spec => []Balance
<1>1. Inv => Balance
  <2> SUFFICES ASSUME Inv PROVE Balance
    OBVIOUS
  <2>1. IsFiniteSet(confirmed) /\ Books
    BY DEF Inv, NodeInv, Ledger
  <2>2. MapThenSumSet(LAMBDA t : RawFee(Cardinality(t.inputs), req[t.post]), confirmed)
          = SumOver(Fees(req, confirmed), confirmed)
    BY <2>1, FeesAreSum
  <2> QED
    BY <2>1, <2>2 DEF Balance, Books, Outside
<1> QED
  BY <1>1, AlwaysInv, PTL

LEMMA LargestExists ==
  ASSUME NEW S, HasAmounts(S), S # {}
  PROVE  Largest(S) # {}
<1> DEFINE B == {T \in SUBSET S : T # {} /\ Largest(T) = {}}
<1> SUFFICES ASSUME B # {} PROVE FALSE
  OBVIOUS
<1>1. PICK T \in B : \A U \in SUBSET T : U # T => U \notin B
  <2>1. B \subseteq SUBSET S /\ IsFiniteSet(S)
    BY DEF HasAmounts
  <2> HIDE DEF B
  <2> QED
    BY <2>1, SmallestSubset
<1>2. T \subseteq S /\ T # {} /\ Largest(T) = {}
  OBVIOUS
<1>3. PICK x \in T : TRUE
  BY <1>2
<1>4. \A y \in T : y.amount \in Nat
  BY <1>2 DEF HasAmounts
<1>5. CASE T \ {x} = {}
  <2>1. x \in Largest(T)
    BY <1>4, <1>5 DEF Largest
  <2> QED
    BY <1>2, <2>1
<1>6. CASE T \ {x} # {}
  <2>1. Largest(T \ {x}) # {}
    BY <1>1, <1>6
  <2>2. PICK y : y \in T \ {x} /\ \A w \in T \ {x} : y.amount >= w.amount
    BY <2>1 DEF Largest
  <2>3. x.amount >= y.amount => x \in Largest(T)
    BY <1>4, <2>2 DEF Largest
  <2>4. y.amount >= x.amount => y \in Largest(T)
    BY <1>4, <2>2 DEF Largest
  <2> QED
    BY <1>2, <1>4, <2>2, <2>3, <2>4
<1> QED
  BY <1>5, <1>6

\* A message gets on chain twice only if each of the two runs saw an output, as
\* large as any, that the other did not spend (sort at submit.rs:204).
THEOREM TwiceOnlyOnNewViewHolds == Spec => []TwiceOnlyOnNewView
<1>1. Inv => TwiceOnlyOnNewView
  <2> SUFFICES ASSUME Inv, NEW a \in built, NEW b \in built,
                      a.tx # b.tx, a.tx \in Live, b.tx \in Live,
                      Largest(b.view) \subseteq a.tx.inputs
               PROVE  FALSE
    BY DEF TwiceOnlyOnNewView, Live
  <2> DEFINE P == b.tx.inputs
  <2>1. Builds /\ Ledger /\ Made(b.tx)
    BY InvFacts DEF BuildsInv, NodeInv
  <2>2. P # {} /\ HasAmounts(P)
    <3>1. HasAmounts(P) /\ Cardinality(P) >= 1
      BY <2>1 DEF Made
    <3>2. Cardinality({}) = 0
      BY FS_EmptySet
    <3> HIDE DEF P
    <3> QED
      BY <3>1, <3>2
  <2>3. PICK m \in P : \A w \in P : m.amount >= w.amount
    BY <2>2, LargestExists DEF Largest
  <2>4. P \subseteq b.view /\ \A x \in P, y \in b.view \ P : x.amount >= y.amount
    BY <2>1 DEF Builds, Prefixes
  <2>5. m \in Largest(b.view)
    BY <2>3, <2>4 DEF Largest
  <2>6. Conflict(a.tx, b.tx)
    BY <2>3, <2>5 DEF Conflict
  <2> QED
    BY <2>1, <2>6 DEF Ledger
<1> QED
  BY <1>1, AlwaysInv, PTL

---------------------------------------------------------------------------
(* Counting copies.                                                        *)

Of(S, p) == {t \in S : t.post = p}

LEMMA CopiesAre ==
  ASSUME NEW S, IsFiniteSet(S)
  PROVE  /\ Copies(S) \in [Posts -> Nat]
         /\ \A p \in Posts : Copies(S)[p] = Cardinality(Of(S, p))
         /\ \A p \in Posts : IsFiniteSet(Of(S, p))
<1>1. ASSUME NEW p \in Posts PROVE IsFiniteSet(Of(S, p)) /\ Cardinality(Of(S, p)) \in Nat
  <2>1. Of(S, p) \in SUBSET S
    BY DEF Of
  <2> QED
    BY <2>1, FS_Subset, FS_CardinalityType
<1> QED
  BY <1>1 DEF Copies, Of

LEMMA CopiesAdd ==
  ASSUME NEW S, IsFiniteSet(S), NEW t, t \notin S, t.post \in Posts
  PROVE  /\ IsFiniteSet(S \cup {t})
         /\ Copies(S \cup {t}) = [Copies(S) EXCEPT ![t.post] = @ + 1]
         /\ Copies(S)[t.post] \in Nat
<1> DEFINE T == S \cup {t}
<1>1. IsFiniteSet(T)
  BY FS_AddElement
<1>2. Copies(S) \in [Posts -> Nat] /\ Copies(T) \in [Posts -> Nat]
  BY <1>1, CopiesAre
<1>3. ASSUME NEW p \in Posts
      PROVE  Copies(T)[p] = IF p = t.post THEN Copies(S)[p] + 1 ELSE Copies(S)[p]
  <2>1. /\ Copies(T)[p] = Cardinality(Of(T, p)) /\ Copies(S)[p] = Cardinality(Of(S, p))
        /\ IsFiniteSet(Of(S, p))
    BY <1>1, CopiesAre
  <2>2. CASE p = t.post
    <3>1. Of(T, p) = Of(S, p) \cup {t} /\ t \notin Of(S, p)
      BY <2>2 DEF Of
    <3> QED
      BY <2>1, <2>2, <3>1, FS_AddElement
  <2>3. CASE p # t.post
    <3>1. Of(T, p) = Of(S, p)
      BY <2>3 DEF Of
    <3> QED
      BY <2>1, <2>3, <3>1
  <2> QED
    BY <2>2, <2>3
<1> HIDE DEF T
<1>4. Copies(T) = [Copies(S) EXCEPT ![t.post] = @ + 1]
  BY <1>2, <1>3
<1> QED
  BY <1>1, <1>2, <1>4 DEF T

LEMMA CopiesRemove ==
  ASSUME NEW S, IsFiniteSet(S), NEW t \in S, t.post \in Posts
  PROVE  /\ IsFiniteSet(S \ {t})
         /\ Copies(S \ {t}) = [Copies(S) EXCEPT ![t.post] = @ - 1]
         /\ Copies(S)[t.post] > 0
<1> DEFINE R == S \ {t}
<1>1. IsFiniteSet(R) /\ t \notin R /\ R \cup {t} = S
  BY FS_RemoveElement
<1> HIDE DEF R
<1>2. Copies(S) = [Copies(R) EXCEPT ![t.post] = @ + 1] /\ Copies(R)[t.post] \in Nat
  BY <1>1, CopiesAdd
<1>3. Copies(R) \in [Posts -> Nat] /\ Copies(S) \in [Posts -> Nat]
  BY <1>1, CopiesAre
<1>4. /\ Copies(S)[t.post] = Copies(R)[t.post] + 1
      /\ \A p \in Posts : p # t.post => Copies(S)[p] = Copies(R)[p]
  BY <1>2, <1>3
<1>5. Copies(S)[t.post] > 0 /\ Copies(R)[t.post] = Copies(S)[t.post] - 1
  BY <1>2, <1>4
<1>6. Copies(R) = [Copies(S) EXCEPT ![t.post] = @ - 1]
  BY <1>3, <1>4, <1>5
<1> QED
  BY <1>1, <1>5, <1>6 DEF R

LEMMA FewerCopies ==
  ASSUME NEW S, IsFiniteSet(S), NEW R \in SUBSET S
  PROVE  /\ IsFiniteSet(R) /\ Copies(R) \in [Posts -> Nat]
         /\ \A p \in Posts : Copies(R)[p] <= Copies(S)[p]
<1>1. IsFiniteSet(R) /\ Copies(R) \in [Posts -> Nat]
  BY FS_Subset, CopiesAre
<1>2. ASSUME NEW p \in Posts PROVE Copies(R)[p] <= Copies(S)[p]
  <2>1. Of(R, p) \in SUBSET Of(S, p)
    BY DEF Of
  <2>2. /\ Copies(R)[p] = Cardinality(Of(R, p)) /\ Copies(S)[p] = Cardinality(Of(S, p))
        /\ IsFiniteSet(Of(S, p))
    BY <1>1, CopiesAre
  <2> QED
    BY <2>1, <2>2, FS_Subset
<1> QED
  BY <1>1, <1>2

---------------------------------------------------------------------------
(* What users see.                                                         *)

TakenBy(c, a) == c # "failed" /\ a = "ok"
ToldBy(c, a) ==
  CASE c = "done" -> "posted"
    [] c = "failed" -> IF a = "disconnected" THEN "unknown" ELSE "failed"
    [] OTHER -> "nothing"

LEMMA ToldCases ==
  ASSUME NEW c, NEW a
  PROVE  /\ c = "done" => ToldBy(c, a) = "posted"
         /\ c = "failed" /\ a = "disconnected" => ToldBy(c, a) = "unknown"
         /\ c = "failed" /\ a # "disconnected" => ToldBy(c, a) = "failed"
         /\ c \notin {"done", "failed"} => ToldBy(c, a) = "nothing"
  BY DEF ToldBy

LEMMA SeenAt ==
  ASSUME NEW p \in Posts
  PROVE  /\ Taken[p] = TakenBy(pc[p], answer[p])
         /\ Taken'[p] = TakenBy(pc'[p], answer'[p])
         /\ Told[p] = ToldBy(pc[p], answer[p])
         /\ Told'[p] = ToldBy(pc'[p], answer'[p])
<1>1. Taken[p] = TakenBy(pc[p], answer[p]) /\ Taken'[p] = TakenBy(pc'[p], answer'[p])
  BY DEF Taken, TakenBy
<1>2. Told[p] = ToldBy(pc[p], answer[p]) /\ Told'[p] = ToldBy(pc'[p], answer'[p])
  BY DEF Told, ToldBy
<1> QED
  BY <1>1, <1>2

LEMMA SeenMoves ==
  ASSUME NEW p \in Posts,
         \A q \in Posts : q # p => pc'[q] = pc[q] /\ answer'[q] = answer[q]
  PROVE  /\ Taken' = [Taken EXCEPT ![p] = Taken'[p]]
         /\ Told' = [Told EXCEPT ![p] = Told'[p]]
         /\ Taken'[p] = Taken[p] => Taken' = Taken
         /\ Told'[p] = Told[p] => Told' = Told
<1>1. /\ \A q \in Posts : q # p => Told'[q] = Told[q]
      /\ \A q \in Posts : q # p => Taken'[q] = Taken[q]
  BY SeenAt
<1>2. /\ Told = [q \in Posts |-> Told[q]] /\ Told' = [q \in Posts |-> Told'[q]]
      /\ Taken = [q \in Posts |-> Taken[q]] /\ Taken' = [q \in Posts |-> Taken'[q]]
  BY DEF Told, Taken
<1>3. /\ Told' = [Told EXCEPT ![p] = Told'[p]]
      /\ Told'[p] = Told[p] => Told' = Told
  BY <1>1, <1>2
<1>4. /\ Taken' = [Taken EXCEPT ![p] = Taken'[p]]
      /\ Taken'[p] = Taken[p] => Taken' = Taken
  BY <1>1, <1>2
<1> QED
  BY <1>3, <1>4

---------------------------------------------------------------------------
(* The invariant the mapping needs, beside that of PostSubmit.             *)

\* What the node has and what may reach it late can be counted, and a run that
\* has an answer has the node's.
Countable ==
  /\ IsFiniteSet(mempool) /\ IsFiniteSet(stray)
  /\ \A p \in Posts : pc[p] = "answered" => answer[p] # "disconnected"

LEMMA CountableInit == Init => Countable
  BY FS_EmptySet DEF Init, Countable

LEMMA CountableStep == Inv /\ Countable /\ [Next]_vars => Countable'
<1> SUFFICES ASSUME Inv, Countable, [Next]_vars PROVE Countable'
  OBVIOUS
<1>0. /\ Shape /\ Owned /\ IsFiniteSet(mempool) /\ IsFiniteSet(stray)
      /\ \A p \in Posts : pc[p] = "answered" => answer[p] # "disconnected"
  BY InvFacts DEF Countable
<1>1. ASSUME UNCHANGED <<pc, answer>>, IsFiniteSet(mempool'), IsFiniteSet(stray')
      PROVE  Countable'
  BY <1>0, <1>1 DEF Countable
<1>2. ASSUME NEW p \in Posts, pc'[p] # "answered", UNCHANGED <<mempool, stray>>,
             \A q \in Posts : q # p => pc'[q] = pc[q] /\ answer'[q] = answer[q]
      PROVE  Countable'
  BY <1>0, <1>2 DEF Countable
<1>3. ASSUME NEW p \in Posts,
             \/ Fetch(p) \/ FetchFails(p) \/ Submit(p) \/ BailOut(p) \/ Panic(p)
             \/ Finish(p) \/ Rerun(p)
      PROVE  Countable'
  <2>1. UNCHANGED <<mempool, stray>>
    BY <1>3 DEF Fetch, Submit, BailOut, Panic, FetchFails, Finish, Rerun, node
  <2>2. PICK c \in {"fetched", "sent", "failed", "done", "start"} :
          pc' = [pc EXCEPT ![p] = c]
    BY <1>3 DEF Fetch, Submit, BailOut, Panic, FetchFails, Fail, Finish, Rerun
  <2>3. answer' = answer \/ \E w : answer' = [answer EXCEPT ![p] = w]
    BY <1>3 DEF Fetch, Submit, BailOut, Panic, FetchFails, Fail, Finish, Rerun
  <2>4. pc'[p] = c /\ \A q \in Posts : q # p => pc'[q] = pc[q] /\ answer'[q] = answer[q]
    BY <1>0, <2>2, <2>3 DEF Shape
  <2> QED
    BY <1>2, <2>1, <2>2, <2>4
<1>4. ASSUME NEW p \in Posts, Answer(p) PROVE Countable'
  <2>1. PICK t \in tx[p] :
          /\ answer' = [answer EXCEPT ![p] = Verdict(t)]
          /\ mempool' = mempool \cup Admitted(t)
    BY <1>4 DEF Answer
  <2>2. IsFiniteSet(mempool') /\ stray' = stray
    BY <1>0, <1>4, <2>1, FS_AddElement, mempool \cup {} = mempool DEF Admitted, Answer
  <2>3. Verdict(t) # "disconnected"
    BY DEF Verdict
  <2>4. \A q \in Posts : pc'[q] = "answered" => answer'[q] # "disconnected"
    BY <1>0, <1>4, <2>1, <2>3 DEF Answer, Shape
  <2> QED
    BY <1>0, <2>2, <2>4 DEF Countable
<1>5. ASSUME NEW p \in Posts, Disconnect(p) PROVE Countable'
  <2>1. stray' \in {stray, stray \cup (IF pc[p] = "sent" THEN tx[p] ELSE {})}
        /\ mempool' = mempool
    BY <1>5 DEF Disconnect, node
  <2>2. IsFiniteSet(tx[p])
    <3>1. tx[p] = {} \/ \E t : tx[p] = {t}
      BY <1>0 DEF Owned
    <3> QED
      BY <3>1, FS_EmptySet, FS_Singleton
  <2>3. IsFiniteSet(stray')
    <3> DEFINE X == IF pc[p] = "sent" THEN tx[p] ELSE {}
    <3>1. IsFiniteSet(X)
      BY <2>2, FS_EmptySet
    <3>2. stray' = stray \/ stray' = stray \cup X
      BY <2>1
    <3> HIDE DEF X
    <3> QED
      BY <1>0, <3>1, <3>2, FS_Union
  <2>4. \A q \in Posts : pc'[q] = "answered" => answer'[q] # "disconnected"
    BY <1>0, <1>5 DEF Disconnect, Fail, Shape
  <2> QED
    BY <1>0, <2>1, <2>3, <2>4 DEF Countable
<1>6. ASSUME NEW t \in stray, StrayArrives(t) PROVE Countable'
  <2>1. /\ mempool' = mempool \cup Admitted(t) /\ stray' = stray \ {t}
        /\ UNCHANGED <<pc, answer>>
    BY <1>6 DEF StrayArrives, run
  <2>2. IsFiniteSet(mempool') /\ IsFiniteSet(stray')
    BY <1>0, <2>1, FS_AddElement, FS_RemoveElement, mempool \cup {} = mempool DEF Admitted
  <2> QED
    BY <1>1, <2>1, <2>2
<1>7. ASSUME NEW t \in mempool, Mine(t) \/ Evict(t) PROVE Countable'
  <2>1. mempool' \in SUBSET mempool /\ UNCHANGED <<stray, pc, answer>>
    BY <1>7 DEF Mine, Evict, run
  <2> QED
    BY <1>0, <1>1, <2>1, FS_Subset
<1>8. ASSUME NEW t \in confirmed, Reorg(t) PROVE Countable'
  <2>1. mempool' = mempool \cup {t} /\ UNCHANGED <<stray, pc, answer>>
    BY <1>8 DEF Reorg, run
  <2> QED
    BY <1>0, <1>1, <2>1, FS_AddElement
<1>9. CASE UNCHANGED <<mempool, stray, pc, answer>>
  BY <1>0, <1>1, <1>9
<1>10. ASSUME NEW u \in Deposits, Deposit(u) PROVE Countable'
  BY <1>9, <1>10 DEF Deposit, run
<1>11. CASE UNCHANGED vars
  BY <1>9, <1>11 DEF vars, run, node
<1> QED
  BY <1>3, <1>4, <1>5, <1>6, <1>7, <1>8, <1>10, <1>11 DEF Next, Step

---------------------------------------------------------------------------
(* Every step is one of the board's, or none.                              *)

BoardStep == [Board!Next]_(Board!vars)

LEMMA Unseen ==
  ASSUME NEW p \in Posts, UNCHANGED <<mempool, confirmed, stray>>,
         \A q \in Posts : q # p => pc'[q] = pc[q] /\ answer'[q] = answer[q],
         Taken'[p] = Taken[p], Told'[p] = Told[p]
  PROVE  BoardStep
<1>1. Taken' = Taken /\ Told' = Told
  BY SeenMoves
<1>2. UNCHANGED <<Copies(mempool), Copies(confirmed), Copies(stray), Taken, Told>>
  BY <1>1
<1> QED
  BY <1>2 DEF BoardStep, Board!vars

\* What the node admits it did not have.
LEMMA NewAtNode ==
  ASSUME NEW t, Made(t), Verdict(t) = "ok"
  PROVE  t \notin mempool
<1>1. t.inputs # {}
  BY FS_EmptySet DEF Made
<1>2. \A s \in mempool : ~ Conflict(s, t)
  BY DEF Verdict
<1> QED
  BY <1>1, <1>2 DEF Conflict

LEMMA AnswerTakes ==
  ASSUME Inv, Countable, NEW p \in Posts, Answer(p)
  PROVE  BoardStep
<1>1. PICK t \in tx[p] :
        /\ answer' = [answer EXCEPT ![p] = Verdict(t)]
        /\ mempool' = mempool \cup Admitted(t)
  BY DEF Answer
<1>2. /\ pc[p] = "sent" /\ pc'[p] = "answered" /\ answer[p] = "none"
      /\ answer'[p] = Verdict(t) /\ t.post = p /\ Made(t)
      /\ UNCHANGED <<stray, confirmed>>
      /\ \A q \in Posts : q # p => pc'[q] = pc[q] /\ answer'[q] = answer[q]
  BY <1>1, InvFacts DEF Answer, Shape, Owned
<1>3. /\ Told[p] = "nothing" /\ Told'[p] = "nothing" /\ Taken[p] = FALSE
      /\ Verdict(t) = "ok" => Taken'[p] = TRUE
      /\ Verdict(t) # "ok" => Taken'[p] = FALSE
  <2>1. Told[p] = "nothing" /\ Told'[p] = "nothing"
    BY <1>2, SeenAt, ToldCases
  <2>2. Taken[p] = TakenBy("sent", "none") /\ Taken'[p] = TakenBy("answered", Verdict(t))
    BY <1>2, SeenAt
  <2>3. Taken[p] = FALSE
    BY <2>2 DEF TakenBy
  <2>4. ASSUME Verdict(t) = "ok" PROVE Taken'[p] = TRUE
    BY <2>2, <2>4 DEF TakenBy
  <2>5. Verdict(t) # "ok" => Taken'[p] = FALSE
    BY <2>2 DEF TakenBy
  <2> QED
    BY <2>1, <2>3, <2>4, <2>5
<1>4. CASE Verdict(t) # "ok"
  <2>1. mempool' = mempool
    BY <1>1, <1>4 DEF Admitted
  <2> QED
    BY <1>2, <1>3, <1>4, <2>1, Unseen
<1>5. CASE Verdict(t) = "ok"
  <2>1. t \notin mempool /\ mempool' = mempool \cup {t}
    BY <1>1, <1>2, <1>5, NewAtNode DEF Admitted
  <2>2. Copies(mempool') = [Copies(mempool) EXCEPT ![p] = @ + 1]
    BY <1>2, <2>1, CopiesAdd DEF Countable
  <2>3. Taken' = [Taken EXCEPT ![p] = TRUE] /\ Told' = Told
    BY <1>2, <1>3, <1>5, SeenMoves
  <2>4. Board!Take(p)
    BY <1>2, <1>3, <2>2, <2>3 DEF Board!Take
  <2> QED
    BY <2>4 DEF BoardStep, Board!Next
<1> QED
  BY <1>4, <1>5

LEMMA FinishTells ==
  ASSUME Inv, Countable, NEW p \in Posts, Finish(p)
  PROVE  BoardStep
<1>1. /\ pc[p] = "answered" /\ answer[p] # "disconnected" /\ answer' = answer
      /\ pc'[p] = IF answer[p] = "ok" THEN "done" ELSE "failed"
      /\ UNCHANGED <<stray, mempool, confirmed>>
      /\ \A q \in Posts : q # p => pc'[q] = pc[q] /\ answer'[q] = answer[q]
  BY InvFacts DEF Finish, Shape, node, Countable
<1>2. Told[p] = "nothing"
  BY <1>1, SeenAt, ToldCases
<1>3. CASE answer[p] = "ok"
  <2>1. Told'[p] = "posted"
    BY <1>1, <1>3, SeenAt, ToldCases
  <2>2. Taken[p] = TakenBy("answered", "ok") /\ Taken'[p] = TakenBy("done", "ok")
    BY <1>1, <1>3, SeenAt
  <2>3. Taken[p] /\ Taken'[p] = Taken[p]
    BY <2>2 DEF TakenBy
  <2>4. Taken' = Taken /\ Told' = [Told EXCEPT ![p] = "posted"]
    BY <1>1, <2>1, <2>3, SeenMoves
  <2>5. Board!Confirm(p)
    BY <1>1, <1>2, <2>3, <2>4 DEF Board!Confirm, Board!Tells
  <2> QED
    BY <2>5 DEF BoardStep, Board!Next
<1>4. CASE answer[p] # "ok"
  <2>1. Told'[p] = "failed"
    BY <1>1, <1>4, SeenAt, ToldCases
  <2>2. Taken[p] = TakenBy("answered", answer[p]) /\ Taken'[p] = TakenBy("failed", answer[p])
    BY <1>1, <1>4, SeenAt
  <2>3. ~ Taken[p] /\ Taken'[p] = Taken[p]
    BY <1>4, <2>2 DEF TakenBy
  <2>4. Taken' = Taken /\ Told' = [Told EXCEPT ![p] = "failed"]
    BY <1>1, <2>1, <2>3, SeenMoves
  <2>5. Board!Refuse(p)
    BY <1>1, <1>2, <2>3, <2>4 DEF Board!Refuse, Board!Tells
  <2> QED
    BY <2>5 DEF BoardStep, Board!Next
<1> QED
  BY <1>3, <1>4

\* A run that ends before it sends anything.
LEMMA FailTells ==
  ASSUME Inv, NEW p \in Posts, BailOut(p) \/ Panic(p) \/ FetchFails(p)
  PROVE  BoardStep
<1>1. PICK why \in {"insufficient", "panic", "unreachable"} : Fail(p, why)
  BY DEF BailOut, Panic, FetchFails
<1>2. /\ pc[p] \in {"start", "fetched"} /\ answer[p] = "none"
      /\ pc'[p] = "failed" /\ answer'[p] = why
      /\ UNCHANGED <<stray, mempool, confirmed>>
      /\ \A q \in Posts : q # p => pc'[q] = pc[q] /\ answer'[q] = answer[q]
  BY <1>1, InvFacts DEF BailOut, Panic, FetchFails, Fail, Shape, node
<1>3. Told[p] = "nothing" /\ Told'[p] = "failed"
  BY <1>2, SeenAt, ToldCases
<1>4. Taken[p] = TakenBy(pc[p], "none") /\ Taken'[p] = TakenBy("failed", why)
  BY <1>2, SeenAt
<1>5. ~ Taken[p] /\ Taken'[p] = Taken[p]
  BY <1>4 DEF TakenBy
<1>6. Taken' = Taken /\ Told' = [Told EXCEPT ![p] = "failed"]
  BY <1>2, <1>3, <1>5, SeenMoves
<1>7. Board!Refuse(p)
  BY <1>2, <1>3, <1>5, <1>6 DEF Board!Refuse, Board!Tells
<1> QED
  BY <1>7 DEF BoardStep, Board!Next

LEMMA RerunRepeats ==
  ASSUME Inv, NEW p \in Posts, Rerun(p)
  PROVE  BoardStep
<1>1. /\ pc[p] = "failed" /\ pc'[p] = "start" /\ answer'[p] = "none"
      /\ UNCHANGED <<stray, mempool, confirmed>>
      /\ \A q \in Posts : q # p => pc'[q] = pc[q] /\ answer'[q] = answer[q]
  BY InvFacts DEF Rerun, Shape, node
<1>2. Told[p] \in {"failed", "unknown"} /\ Told'[p] = "nothing"
  BY <1>1, SeenAt, ToldCases
<1>3. Taken[p] = TakenBy("failed", answer[p]) /\ Taken'[p] = TakenBy("start", "none")
  BY <1>1, SeenAt
<1>4. Taken'[p] = Taken[p]
  BY <1>3 DEF TakenBy
<1>5. Taken' = Taken /\ Told' = [Told EXCEPT ![p] = "nothing"]
  BY <1>1, <1>2, <1>4, SeenMoves
<1>6. Board!Repeat(p)
  BY <1>1, <1>2, <1>5 DEF Board!Repeat
<1> QED
  BY <1>6 DEF BoardStep, Board!Next

LEMMA DisconnectLoses ==
  ASSUME Inv, Countable, NEW p \in Posts, Disconnect(p)
  PROVE  BoardStep
<1>1. /\ pc[p] \in {"sent", "answered"} /\ pc[p] = "sent" => answer[p] = "none"
      /\ pc'[p] = "failed" /\ answer'[p] = "disconnected"
      /\ UNCHANGED <<mempool, confirmed>>
      /\ \A q \in Posts : q # p => pc'[q] = pc[q] /\ answer'[q] = answer[q]
      /\ stray' \in {stray, stray \cup (IF pc[p] = "sent" THEN tx[p] ELSE {})}
  BY InvFacts DEF Disconnect, Fail, Shape, node
<1>2. Told[p] = "nothing" /\ Told'[p] = "unknown"
  <2>1. pc[p] \notin {"done", "failed"}
    BY DEF Disconnect
  <2>2. Told[p] = ToldBy(pc[p], answer[p]) /\ Told'[p] = ToldBy("failed", "disconnected")
    BY <1>1, SeenAt
  <2> QED
    BY <2>1, <2>2, ToldCases
<1>3. /\ Taken[p] = TakenBy(pc[p], answer[p])
      /\ Taken'[p] = TakenBy("failed", "disconnected")
  BY <1>1, SeenAt
<1>4. Taken'[p] = FALSE
  BY <1>3 DEF TakenBy
<1>5. pc[p] = "sent" => ~ Taken[p]
  BY <1>1, <1>3 DEF TakenBy
<1>6. /\ Taken' = [Taken EXCEPT ![p] = FALSE]
      /\ Told' = [Told EXCEPT ![p] = "unknown"]
  BY <1>1, <1>2, <1>4, SeenMoves
<1>7. \E n \in {0, 1} : /\ n = 0 \/ ~ Taken[p]
                       /\ Copies(stray') = [Copies(stray) EXCEPT ![p] = @ + n]
  <2>1. Copies(stray) \in [Posts -> Nat] /\ IsFiniteSet(stray)
    BY CopiesAre DEF Countable
  <2>2. CASE stray' = stray
    BY <2>1, <2>2
  <2>3. CASE stray' # stray
    <3>1. pc[p] = "sent" /\ stray' = stray \cup tx[p]
      BY <1>1, <2>3
    <3>2. PICK t \in tx[p] : t \notin stray
      BY <2>3, <3>1
    <3>3. tx[p] = {t} /\ t.post = p
      BY <3>2, InvFacts DEF Owned
    <3>4. Copies(stray') = [Copies(stray) EXCEPT ![p] = @ + 1]
      BY <2>1, <3>1, <3>2, <3>3, CopiesAdd
    <3> QED
      BY <1>5, <3>1, <3>4
  <2> QED
    BY <2>2, <2>3
<1>8. Board!Lose(p)
  BY <1>1, <1>2, <1>6, <1>7 DEF Board!Lose, Board!Tells
<1> QED
  BY <1>8 DEF BoardStep, Board!Next

LEMMA NotYetSeen ==
  ASSUME Inv, NEW p \in Posts, Fetch(p) \/ Submit(p)
  PROVE  BoardStep
<1>1. /\ pc[p] \in {"start", "fetched"} /\ pc'[p] \in {"fetched", "sent"}
      /\ answer' = answer /\ UNCHANGED <<stray, mempool, confirmed>>
      /\ \A q \in Posts : q # p => pc'[q] = pc[q] /\ answer'[q] = answer[q]
  BY InvFacts DEF Fetch, Submit, Shape, node
<1>2. pc[p] \notin {"done", "failed"} /\ pc'[p] \notin {"done", "failed"}
  BY <1>1
<1>3. Told[p] = "nothing" /\ Told'[p] = "nothing"
  BY <1>2, SeenAt, ToldCases
<1>4. Taken[p] = TakenBy(pc[p], answer[p]) /\ Taken'[p] = TakenBy(pc'[p], answer[p])
  BY <1>1, SeenAt
<1>5. Taken'[p] = Taken[p]
  BY <1>2, <1>4 DEF TakenBy
<1> QED
  BY <1>1, <1>3, <1>5, Unseen

LEMMA SeenStays ==
  ASSUME UNCHANGED run
  PROVE  Taken' = Taken /\ Told' = Told
  BY DEF run, Taken, Told

LEMMA StrayIsTaken ==
  ASSUME Inv, Countable, NEW t \in stray, StrayArrives(t)
  PROVE  BoardStep
<1>1. /\ mempool' = mempool \cup Admitted(t) /\ stray' = stray \ {t}
      /\ UNCHANGED <<run, confirmed>>
      /\ t.post \in Posts /\ Made(t) /\ IsFiniteSet(mempool) /\ IsFiniteSet(stray)
  BY InvFacts DEF StrayArrives, Countable, Owned
<1>2. /\ Copies(stray)[t.post] > 0
      /\ Copies(stray') = [Copies(stray) EXCEPT ![t.post] = @ - 1]
  BY <1>1, CopiesRemove
<1>3. \E n \in {0, 1} : Copies(mempool') = [Copies(mempool) EXCEPT ![t.post] = @ + n]
  <2>1. Copies(mempool) \in [Posts -> Nat]
    BY <1>1, CopiesAre
  <2>2. CASE Verdict(t) # "ok"
    <3>1. mempool' = mempool
      BY <1>1, <2>2 DEF Admitted
    <3>2. Copies(mempool) = [Copies(mempool) EXCEPT ![t.post] = @ + 0]
      BY <1>1, <2>1
    <3> QED
      BY <3>1, <3>2
  <2>3. CASE Verdict(t) = "ok"
    <3>1. t \notin mempool /\ mempool' = mempool \cup {t}
      BY <1>1, <2>3, NewAtNode DEF Admitted
    <3>2. Copies(mempool') = [Copies(mempool) EXCEPT ![t.post] = @ + 1]
      BY <1>1, <3>1, CopiesAdd
    <3> QED
      BY <3>2
  <2> QED
    BY <2>2, <2>3
<1>4. Board!TakeLoose(t.post)
  BY <1>1, <1>2, <1>3, SeenStays DEF Board!TakeLoose
<1> QED
  BY <1>1, <1>4 DEF BoardStep, Board!Next

LEMMA MineLands ==
  ASSUME Inv, Countable, NEW t \in mempool, Mine(t)
  PROVE  BoardStep
<1>1. /\ mempool' = mempool \ {t} /\ confirmed' = confirmed \cup {t}
      /\ UNCHANGED <<run, stray>>
      /\ t.post \in Posts /\ t \notin confirmed
      /\ IsFiniteSet(mempool) /\ IsFiniteSet(confirmed)
  BY InvFacts DEF Mine, Countable, Owned, NodeInv, Ledger, Live
<1>2. /\ Copies(mempool)[t.post] > 0
      /\ Copies(mempool') = [Copies(mempool) EXCEPT ![t.post] = @ - 1]
  BY <1>1, CopiesRemove
<1>3. Copies(confirmed') = [Copies(confirmed) EXCEPT ![t.post] = @ + 1]
  BY <1>1, CopiesAdd
<1>4. Board!Land(t.post)
  BY <1>1, <1>2, <1>3, SeenStays DEF Board!Land
<1> QED
  BY <1>1, <1>4 DEF BoardStep, Board!Next

LEMMA ReorgTakesBack ==
  ASSUME Inv, Countable, NEW t \in confirmed, Reorg(t)
  PROVE  BoardStep
<1>1. /\ mempool' = mempool \cup {t} /\ confirmed' = confirmed \ {t}
      /\ UNCHANGED <<run, stray>>
      /\ t.post \in Posts /\ t \notin mempool
      /\ IsFiniteSet(mempool) /\ IsFiniteSet(confirmed)
  BY InvFacts DEF Reorg, Countable, Owned, NodeInv, Ledger, Live
<1>2. /\ Copies(confirmed)[t.post] > 0
      /\ Copies(confirmed') = [Copies(confirmed) EXCEPT ![t.post] = @ - 1]
  BY <1>1, CopiesRemove
<1>3. Copies(mempool') = [Copies(mempool) EXCEPT ![t.post] = @ + 1]
  BY <1>1, CopiesAdd
<1>4. Board!TakeBack(t.post)
  BY <1>1, <1>2, <1>3, SeenStays DEF Board!TakeBack
<1> QED
  BY <1>1, <1>4 DEF BoardStep, Board!Next

LEMMA EvictDrops ==
  ASSUME Countable, NEW t \in mempool, Evict(t)
  PROVE  BoardStep
<1>1. /\ mempool' \in SUBSET mempool /\ UNCHANGED <<run, stray, confirmed>>
      /\ IsFiniteSet(mempool)
  BY DEF Evict, Countable
<1>2. /\ Copies(mempool') \in [Posts -> Nat]
      /\ \A p \in Posts : Copies(mempool')[p] <= Copies(mempool)[p]
  BY <1>1, FewerCopies
<1>3. Board!Drop
  BY <1>1, <1>2, SeenStays DEF Board!Drop
<1> QED
  BY <1>3 DEF BoardStep, Board!Next

LEMMA BoardSteps == Inv /\ Countable /\ [Next]_vars => BoardStep
<1> SUFFICES ASSUME Inv, Countable, [Next]_vars PROVE BoardStep
  OBVIOUS
<1>1. ASSUME UNCHANGED <<run, stray, mempool, confirmed>> PROVE BoardStep
  <2>1. UNCHANGED <<Copies(mempool), Copies(confirmed), Copies(stray), Taken, Told>>
    BY <1>1, SeenStays
  <2> QED
    BY <2>1 DEF BoardStep, Board!vars
<1>2. ASSUME NEW p \in Posts, Step(p) \/ FetchFails(p) \/ Disconnect(p) PROVE BoardStep
  BY <1>2, NotYetSeen, FailTells, AnswerTakes, FinishTells, RerunRepeats,
     DisconnectLoses DEF Step
<1>3. ASSUME NEW t \in mempool, Mine(t) \/ Evict(t) PROVE BoardStep
  BY <1>3, MineLands, EvictDrops
<1>4. ASSUME NEW u \in Deposits, Deposit(u) PROVE BoardStep
  BY <1>1, <1>4 DEF Deposit
<1>5. CASE UNCHANGED vars
  BY <1>1, <1>5 DEF vars, node
<1> QED
  BY <1>2, <1>3, <1>4, <1>5, StrayIsTaken, ReorgTakesBack DEF Next

LEMMA BoardInit == Init => Board!Init
<1> SUFFICES ASSUME Init PROVE Board!Init
  OBVIOUS
<1>1. /\ mempool = {} /\ confirmed = {} /\ stray = {}
      /\ \A p \in Posts : pc[p] = "start" /\ answer[p] = "none"
  BY DEF Init
<1>2. Copies({}) = [p \in Posts |-> 0]
  BY FS_EmptySet DEF Copies
<1>3. Taken = [p \in Posts |-> FALSE]
  BY <1>1 DEF Taken
<1>4. Told = [p \in Posts |-> "nothing"]
  <2>1. \A p \in Posts : Told[p] = "nothing"
    BY <1>1, SeenAt, ToldCases
  <2> QED
    BY <2>1 DEF Told
<1> QED
  BY <1>1, <1>2, <1>3, <1>4 DEF Board!Init

\* `komms post --submit` keeps what MessageBoard promises its users, for any
\* number of commands, faults and outputs: a message comes to the board at most
\* once for each run, an error is told only of a run the node took nothing from
\* and success only of one it did, and only lost answers leave something that
\* may still arrive (submit_komms_payload, submit.rs:87-196).
THEOREM ImplementsBoardHolds == Spec => ImplementsBoard
<1>1. Init /\ [][Next]_vars /\ []Inv => []Countable
  BY CountableInit, CountableStep, PTL
<1>2. Spec => Board!Init /\ [][Board!Next]_(Board!vars)
  BY <1>1, AlwaysInv, BoardInit, BoardSteps, PTL DEF Spec, BoardStep
<1> QED
  BY <1>2 DEF ImplementsBoard, Board!Spec
=============================================================================
