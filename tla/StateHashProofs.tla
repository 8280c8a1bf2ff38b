-------------------------- MODULE StateHashProofs ---------------------------
(***************************************************************************)
(* What the state hash guarantees for every set of indexers, every tree of *)
(* blocks and every projection of their events: hashes tell two histories  *)
(* apart exactly when projections do, and comparing them implements the    *)
(* comparison of whole histories (StateLog).                               *)
(***************************************************************************)
EXTENDS StateHash, DataLemmas

---------------------------------------------------------------------------
(* Ranks: the place of a number in the order of a finite set of them.      *)

Numbers(S) == IsFiniteSet(S) /\ S \subseteq Nat

Rank(S, t) == Cardinality({u \in S : u < t})

LEMMA RankLess ==
  ASSUME NEW S, Numbers(S), NEW t \in S
  PROVE  /\ Rank(S, t) \in Nat /\ Rank(S, t) < Cardinality(S)
         /\ \A u \in S : t < u => Rank(S, t) < Rank(S, u)
  <1> DEFINE Below(x) == {u \in S : u < x}
  <1>1. ASSUME NEW x PROVE IsFiniteSet(Below(x)) /\ Rank(S, x) = Cardinality(Below(x))
    BY FS_Subset DEF Numbers, Rank
  <1>2. ASSUME NEW T, IsFiniteSet(T), Below(t) \subseteq T, Below(t) # T
        PROVE  Rank(S, t) \in Nat /\ Rank(S, t) < Cardinality(T)
    <2> HIDE DEF Below
    <2>1. Cardinality(Below(t)) \in Nat /\ Cardinality(T) \in Nat
      BY <1>1, <1>2, FS_CardinalityType
    <2>2. Cardinality(Below(t)) <= Cardinality(T) /\ Cardinality(Below(t)) # Cardinality(T)
      BY <1>2, FS_Subset
    <2> QED
      BY <1>1, <2>1, <2>2
  <1>3. t \in Nat /\ t \notin Below(t) /\ Below(t) \subseteq S
    BY DEF Numbers
  <1>4. Rank(S, t) \in Nat /\ Rank(S, t) < Cardinality(S)
    BY <1>2, <1>3 DEF Numbers
  <1>5. ASSUME NEW u \in S, t < u PROVE Rank(S, t) < Rank(S, u)
    <2>1. u \in Nat /\ \A x \in S : x \in Nat
      BY DEF Numbers
    <2>2. t \in Below(u)
      BY <1>5
    <2>3. \A x \in S : x < t => x < u
      BY <1>3, <1>5, <2>1
    <2>4. Below(t) \subseteq Below(u)
      BY <2>3
    <2> QED
      BY <1>1, <1>2, <1>3, <2>2, <2>4
  <1> QED
    BY <1>4, <1>5

LEMMA RankOnto ==
  ASSUME NEW S, Numbers(S), NEW k \in 1 .. Cardinality(S)
  PROVE  \E t \in S : Rank(S, t) = k - 1
  <1> DEFINE n == Cardinality(S)
             f == [t \in S |-> Rank(S, t) + 1]
  <1>1. n \in Nat /\ IsFiniteSet(1 .. n) /\ Cardinality(1 .. n) = n
    <2>1. n \in Nat
      BY FS_CardinalityType DEF Numbers
    <2> QED
      BY <2>1, FS_Interval
  <1>2. ASSUME NEW t \in S
        PROVE  /\ Rank(S, t) \in Nat /\ Rank(S, t) < n
               /\ \A u \in S : t < u => Rank(S, t) < Rank(S, u)
    BY RankLess
  <1>3. f \in [S -> 1 .. n]
    BY <1>1, <1>2
  <1>4. ASSUME NEW t \in S, NEW u \in S, f[t] = f[u] PROVE t = u
    <2>1. Rank(S, t) = Rank(S, u)
      BY <1>2, <1>4
    <2>2. t \in Nat /\ u \in Nat
      BY DEF Numbers
    <2> QED
      BY <1>2, <2>1, <2>2
  <1> HIDE DEF f
  <1>5. f \in Injection(S, 1 .. n)
    BY <1>3, <1>4 DEF Injection, IsInjective
  <1>6. f \in Surjection(S, 1 .. n)
    BY <1>1, <1>5, FS_Injection
  <1>7. PICK t \in S : f[t] = k
    BY <1>6 DEF Surjection
  <1> QED
    BY <1>2, <1>7 DEF f

\* The k-th smallest number of S.
At(S, k) == CHOOSE t \in S : Rank(S, t) = k - 1

LEMMA AtIs ==
  ASSUME NEW S, Numbers(S), NEW k \in 1 .. Cardinality(S)
  PROVE  /\ At(S, k) \in S /\ Rank(S, At(S, k)) = k - 1
         /\ \A t \in S : Rank(S, t) = k - 1 => t = At(S, k)
         /\ \A l \in 1 .. Cardinality(S) : k < l => At(S, k) < At(S, l)
  <1>1. ASSUME NEW l \in 1 .. Cardinality(S)
        PROVE  At(S, l) \in S /\ Rank(S, At(S, l)) = l - 1
    BY RankOnto DEF At
  <1>2. \A t \in S : t \in Nat /\ \A u \in S : t < u => Rank(S, t) < Rank(S, u)
    BY RankLess DEF Numbers
  <1>3. \A t \in S : Rank(S, t) \in Nat
    BY RankLess
  <1>4. ASSUME NEW t \in S, Rank(S, t) = k - 1 PROVE t = At(S, k)
    BY <1>1, <1>2, <1>3, <1>4
  <1>5. ASSUME NEW l \in 1 .. Cardinality(S), k < l PROVE At(S, k) < At(S, l)
    <2>1. Rank(S, At(S, k)) < Rank(S, At(S, l))
      BY <1>1, <1>5
    <2>2. ~ (At(S, l) < At(S, k)) /\ At(S, l) # At(S, k)
      BY <1>1, <1>2, <1>3, <2>1
    <2> QED
      BY <1>1, <1>2, <2>2
  <1> QED
    BY <1>1, <1>4, <1>5

\* A rising enumeration takes each number at its rank.
LEMMA RisingIsAt ==
  ASSUME NEW S, Numbers(S), NEW g \in [1 .. Cardinality(S) -> S],
         \A k, l \in 1 .. Cardinality(S) : k < l => g[k] < g[l]
  PROVE  \A k \in 1 .. Cardinality(S) : g[k] = At(S, k)
  <1> DEFINE n == Cardinality(S)
  <1>1. n \in Nat /\ IsFiniteSet(1 .. n) /\ Cardinality(1 .. n) = n
    <2>1. n \in Nat
      BY FS_CardinalityType DEF Numbers
    <2> QED
      BY <2>1, FS_Interval
  <1>2. \A k \in 1 .. n : g[k] \in Nat
    BY DEF Numbers
  <1>3. ASSUME NEW k \in 1 .. n, NEW l \in 1 .. n, g[k] <= g[l] PROVE k <= l
    BY <1>1, <1>2, <1>3
  <1> HIDE DEF n
  <1>4. g \in Injection(1 .. n, S)
    <2>1. \A k, l \in 1 .. n : g[k] = g[l] => k = l
      BY <1>1, <1>2, <1>3
    <2> QED
      BY <2>1 DEF Injection, IsInjective, n
  <1>5. g \in Surjection(1 .. n, S)
    BY <1>1, <1>4, FS_Injection DEF n, Numbers
  <1> SUFFICES ASSUME NEW k \in 1 .. n PROVE g[k] = At(S, k)
    BY DEF n
  <1> DEFINE T == {u \in S : u < g[k]}
             h == [j \in 1 .. k - 1 |-> g[j]]
  <1>6. \A j \in 1 .. k - 1 : j \in 1 .. n /\ g[j] \in T
    BY <1>1 DEF n
  <1>7. \A u \in T : \E j \in 1 .. k - 1 : g[j] = u
    <2> SUFFICES ASSUME NEW u \in T PROVE \E j \in 1 .. k - 1 : g[j] = u
      OBVIOUS
    <2>1. PICK j \in 1 .. n : g[j] = u
      BY <1>5 DEF Surjection
    <2>2. j <= k /\ j # k
      BY <1>2, <1>3, <2>1
    <2> QED
      BY <1>1, <2>1, <2>2
  <1>8. h \in Bijection(1 .. k - 1, T)
    <2>1. h \in [1 .. k - 1 -> T]
      BY <1>6
    <2>2. \A i, j \in 1 .. k - 1 : h[i] = h[j] => i = j
      BY <1>4, <1>6 DEF Injection, IsInjective
    <2>3. \A u \in T : \E j \in 1 .. k - 1 : h[j] = u
      BY <1>7
    <2> HIDE DEF h, T
    <2> QED
      BY <2>1, <2>2, <2>3 DEF Bijection, Injection, IsInjective, Surjection
  <1>9. Cardinality(T) = k - 1
    <2>1. IsFiniteSet(1 .. k - 1) /\ Cardinality(1 .. k - 1) = k - 1
      BY <1>1, FS_Interval
    <2> HIDE DEF h, T
    <2> QED
      BY <1>8, <2>1, FS_Bijection DEF ExistsBijection
  <1>10. Rank(S, g[k]) = k - 1 /\ g[k] \in S
    BY <1>9 DEF Rank, n
  <1> QED
    BY <1>10, AtIs DEF n

---------------------------------------------------------------------------
(* What is hashed of a block: its projections in the order of the          *)
(* transaction ids, whatever order they arrived in.                        *)

BodiesOf(i, b) ==
  [k \in 1 .. Cardinality(Accepted[b]) |-> Projection[i][At(Accepted[b], k)]]

BlockBytes(i, b) ==
  EncodeCborUintHeader(128, Cardinality(Accepted[b])) \o FlattenSeq(BodiesOf(i, b))

LEMMA AcceptedNumbers ==
  ASSUME NEW b \in Blocks
  PROVE  /\ Numbers(Accepted[b])
         /\ Cardinality(Accepted[b]) \in Nat
         /\ IsFiniteSet(1 .. Cardinality(Accepted[b]))
         /\ Cardinality(1 .. Cardinality(Accepted[b])) = Cardinality(Accepted[b])
  <1>1. Numbers(Accepted[b])
    BY BlocksAssumption DEF Numbers
  <1>2. Cardinality(Accepted[b]) \in Nat
    BY <1>1, FS_CardinalityType DEF Numbers
  <1> QED
    BY <1>1, <1>2, FS_Interval

LEMMA ArrivalsAre ==
  ASSUME NEW i \in Indexers, NEW b \in Blocks, NEW events \in Arrivals(i, b)
  PROVE  \E s \in [1 .. Cardinality(Accepted[b]) -> Accepted[b]] :
           /\ IsInjective(s)
           /\ events = [k \in 1 .. Cardinality(Accepted[b]) |-> ProjectedEvent(i, s[k])]
  <1>1. PICK s \in SetToSeqs(Accepted[b]) :
          events = [k \in DOMAIN s |-> ProjectedEvent(i, s[k])]
    BY DEF Arrivals
  <1>2. s \in [1 .. Cardinality(Accepted[b]) -> Accepted[b]] /\ IsInjective(s)
    BY DEF SetToSeqs, IsInjective
  <1> QED
    BY <1>1, <1>2

\* The indices of these events, in the order of the ids s.
Sorts(p, s, n) ==
  \A k, l \in 1 .. n : k < l =>
    \/ s[p[k]] < s[p[l]]
    \/ s[p[k]] = s[p[l]] /\ p[k] < p[l]

LEMMA SortExists ==
  ASSUME NEW S, Numbers(S), NEW s \in [1 .. Cardinality(S) -> S], IsInjective(s)
  PROVE  \E p \in [1 .. Cardinality(S) -> 1 .. Cardinality(S)] :
           IsInjective(p) /\ Sorts(p, s, Cardinality(S))
  <1> DEFINE n == Cardinality(S)
             p == [k \in 1 .. n |-> CHOOSE j \in 1 .. n : s[j] = At(S, k)]
  <1>1. n \in Nat /\ IsFiniteSet(1 .. n) /\ Cardinality(1 .. n) = n
    <2>1. n \in Nat
      BY FS_CardinalityType DEF Numbers
    <2> QED
      BY <2>1, FS_Interval
  <1>2. s \in Surjection(1 .. n, S)
    <2>1. s \in Injection(1 .. n, S)
      BY DEF Injection
    <2> QED
      BY <1>1, <2>1, FS_Injection DEF Numbers
  <1>3. ASSUME NEW k \in 1 .. n PROVE p[k] \in 1 .. n /\ s[p[k]] = At(S, k)
    <2>1. At(S, k) \in S
      BY AtIs
    <2>2. \E j \in 1 .. n : s[j] = At(S, k)
      BY <1>2, <2>1 DEF Surjection
    <2> QED
      BY <2>2
  <1>4. \A k, l \in 1 .. n : k < l => At(S, k) < At(S, l) /\ At(S, k) \in Nat /\ At(S, l) \in Nat
    BY AtIs DEF Numbers
  <1>5. p \in [1 .. n -> 1 .. n]
    BY <1>3
  <1> HIDE DEF p
  <1>6. Sorts(p, s, n)
    BY <1>3, <1>4 DEF Sorts
  <1>7. ASSUME NEW k \in 1 .. n, NEW l \in 1 .. n, p[k] = p[l] PROVE k = l
    <2>1. At(S, k) = At(S, l)
      BY <1>3, <1>7
    <2>2. ~ (k < l) /\ ~ (l < k)
      BY <1>4, <2>1
    <2> QED
      BY <1>1, <2>2
  <1> QED
    BY <1>5, <1>6, <1>7 DEF IsInjective

LEMMA SortedIsAt ==
  ASSUME NEW S, Numbers(S), NEW s \in [1 .. Cardinality(S) -> S], IsInjective(s),
         NEW p \in [1 .. Cardinality(S) -> 1 .. Cardinality(S)],
         IsInjective(p), Sorts(p, s, Cardinality(S))
  PROVE  \A k \in 1 .. Cardinality(S) : s[p[k]] = At(S, k)
  <1> DEFINE n == Cardinality(S)
             g == [k \in 1 .. n |-> s[p[k]]]
  <1>1. n \in Nat
    BY FS_CardinalityType DEF Numbers
  <1>2. ASSUME NEW k \in 1 .. n, NEW l \in 1 .. n, k < l PROVE g[k] < g[l]
    <2>1. p[k] # p[l] /\ p[k] \in 1 .. n /\ p[l] \in 1 .. n
      BY <1>2, <1>1 DEF IsInjective
    <2>2. s[p[k]] # s[p[l]]
      BY <2>1 DEF IsInjective
    <2> QED
      BY <1>2, <2>2 DEF Sorts
  <1>3. g \in [1 .. n -> S]
    OBVIOUS
  <1> HIDE DEF g
  <1>4. \A k \in 1 .. n : g[k] = At(S, k)
    BY <1>2, <1>3, RisingIsAt
  <1> QED
    BY <1>4 DEF g

LEMMA SortedBytes ==
  ASSUME NEW i \in Indexers, NEW b \in Blocks, NEW events \in Arrivals(i, b)
  PROVE  ArrayBytes(events, SortedIndices(events)) = BlockBytes(i, b)
  <1> DEFINE A == Accepted[b]
             n == Cardinality(A)
  <1>1. Numbers(A) /\ n \in Nat /\ IsFiniteSet(1 .. n) /\ Cardinality(1 .. n) = n
    BY AcceptedNumbers
  <1>2. PICK s \in [1 .. n -> A] :
          IsInjective(s) /\ events = [k \in 1 .. n |-> ProjectedEvent(i, s[k])]
    BY ArrivalsAre
  <1> HIDE DEF A, n
  <1>3. DOMAIN events = 1 .. n /\ Len(events) = n
    <2>1. events = [k \in 1 .. n |-> events[k]]
      BY <1>2
    <2> QED
      BY <1>1, <2>1, FunIsSeq
  <1>4. \A k \in 1 .. n : /\ events[k].tx_id = s[k]
                          /\ events[k].canonical_cbor = Projection[i][s[k]]
    BY <1>2 DEF ProjectedEvent
  <1> DEFINE P == {q \in [1 .. n -> 1 .. n] : IsInjective(q)}
             Chosen(q) ==
               \A k, l \in DOMAIN q : k < l =>
                 \/ events[q[k]].tx_id < events[q[l]].tx_id
                 \/ events[q[k]].tx_id = events[q[l]].tx_id /\ q[k] < q[l]
             p == SortedIndices(events)
  <1>5. SetToSeqs(DOMAIN events) = P
    BY <1>1, <1>3 DEF SetToSeqs, IsInjective
  <1>6. ASSUME NEW q \in P PROVE Chosen(q) <=> Sorts(q, s, n)
    <2>1. DOMAIN q = 1 .. n /\ \A k \in 1 .. n : q[k] \in 1 .. n
      OBVIOUS
    <2>2. \A k \in 1 .. n : events[q[k]].tx_id = s[q[k]]
      BY <1>4, <2>1
    <2> DEFINE E(k, l) ==
                 k < l => \/ events[q[k]].tx_id < events[q[l]].tx_id
                          \/ events[q[k]].tx_id = events[q[l]].tx_id /\ q[k] < q[l]
               F(k, l) ==
                 k < l => \/ s[q[k]] < s[q[l]]
                          \/ s[q[k]] = s[q[l]] /\ q[k] < q[l]
    <2>3. ASSUME NEW k \in 1 .. n, NEW l \in 1 .. n PROVE E(k, l) <=> F(k, l)
      <3>1. events[q[k]].tx_id = s[q[k]] /\ events[q[l]].tx_id = s[q[l]]
        BY <2>2
      <3> QED
        BY <3>1
    <2>4. Chosen(q) <=> \A k, l \in 1 .. n : E(k, l)
      BY <2>1
    <2>5. Sorts(q, s, n) <=> \A k, l \in 1 .. n : F(k, l)
      BY DEF Sorts
    <2> HIDE DEF P, E, F, Chosen
    <2> QED
      BY <2>3, <2>4, <2>5
  <1>7. p = CHOOSE q \in P : Chosen(q)
    BY <1>5 DEF SortedIndices
  <1>8. \E q \in P : Sorts(q, s, n)
    BY <1>1, <1>2, SortExists DEF n
  <1> HIDE DEF Chosen, p, P
  <1>9. p \in P /\ Chosen(p)
    BY <1>6, <1>7, <1>8
  <1>10. p \in [1 .. n -> 1 .. n] /\ IsInjective(p) /\ Sorts(p, s, n)
    BY <1>6, <1>9 DEF P
  <1>11. \A k \in 1 .. n : s[p[k]] = At(A, k)
    BY <1>1, <1>2, <1>10, SortedIsAt DEF n
  <1>12. \A k \in 1 .. n : p[k] \in 1 .. n /\ events[p[k]].canonical_cbor = Projection[i][At(A, k)]
    BY <1>4, <1>10, <1>11
  <1>13. [k \in DOMAIN p |-> events[p[k]].canonical_cbor] = BodiesOf(i, b)
    BY <1>10, <1>12 DEF BodiesOf, A, n
  <1> QED
    BY <1>3, <1>13 DEF ArrayBytes, BlockBytes, A, n, p

---------------------------------------------------------------------------
(* Flattening, and what can be read back from it.                          *)

Flats(f, ss, m) ==
  f = [k \in 1 .. m |-> IF k = 1 THEN ss[k] ELSE f[k - 1] \o ss[k]]

LEMMA FlatsExist ==
  ASSUME NEW ss, NEW m \in Nat
  PROVE  \E f : Flats(f, ss, m)
  <1> DEFINE A == {n \in 0 .. m : ~ \E f : Flats(f, ss, n)}
  <1> SUFFICES ASSUME A # {} PROVE FALSE
    OBVIOUS
  <1>1. PICK a \in A : \A b \in A : a <= b
    <2>1. A \in SUBSET (0 .. m)
      OBVIOUS
    <2> HIDE DEF A
    <2> QED
      BY <2>1, LeastIn
  <1>2. a \in 0 .. m /\ ~ \E f : Flats(f, ss, a)
    OBVIOUS
  <1>3. a # 0
    <2> DEFINE f == [k \in 1 .. 0 |-> <<>>]
    <2>1. 1 .. 0 = {}
      OBVIOUS
    <2>2. Flats(f, ss, 0)
      BY <2>1 DEF Flats
    <2> QED
      BY <2>2, <1>2
  <1>4. a - 1 \in 0 .. m /\ a - 1 \notin A
    BY <1>1, <1>2, <1>3
  <1>5. PICK h : Flats(h, ss, a - 1)
    BY <1>4
  <1> DEFINE G(k) == IF k = 1 THEN ss[k] ELSE h[k - 1] \o ss[k]
             f == [k \in 1 .. a |-> G(k)]
  <1>6. ASSUME NEW k \in 1 .. a - 1 PROVE h[k] = G(k)
    BY <1>5 DEF Flats
  <1>7. ASSUME NEW k \in 1 .. a PROVE G(k) = IF k = 1 THEN ss[k] ELSE f[k - 1] \o ss[k]
    <2>1. k # 1 => k - 1 \in 1 .. a - 1 /\ k - 1 \in 1 .. a
      BY <1>2
    <2>2. k # 1 => f[k - 1] = h[k - 1]
      BY <1>6, <2>1
    <2> HIDE DEF f
    <2> QED
      BY <2>2
  <1>8. Flats(f, ss, a)
    <2>1. f = [k \in 1 .. a |-> G(k)]
      OBVIOUS
    <2> HIDE DEF f, G
    <2> QED
      BY <1>7, <2>1 DEF Flats
  <1> QED
    BY <1>2, <1>8

\* g[k] is the first k of the sequences ss, one after the other.
Joins(g, ss, n) ==
  /\ g[0] = <<>>
  /\ \A k \in 1 .. n : g[k] = g[k - 1] \o ss[k]

LEMMA FlattenIs ==
  ASSUME NEW n \in Nat, NEW ss, ss = [k \in 1 .. n |-> ss[k]],
         \A k \in 1 .. n : IsSeq(ss[k])
  PROVE  \E g : Joins(g, ss, n) /\ FlattenSeq(ss) = g[n]
  <1>1. IsSeq(ss) /\ Len(ss) = n
    BY FunIsSeq
  <1>2. IsSeq(<<>>) /\ Len(<<>>) = 0
    BY EmptySeq, SeqIsSeq
  <1>3. CASE n = 0
    <2> DEFINE g == [k \in 0 .. 0 |-> <<>>]
    <2>1. ss = <<>>
      BY <1>1, <1>2, <1>3, SeqSame
    <2>2. g[0] = <<>>
      OBVIOUS
    <2>3. Joins(g, ss, n)
      BY <1>3, <2>2 DEF Joins
    <2>4. FlattenSeq(ss) = <<>>
      BY <1>1, <1>3, <2>1 DEF FlattenSeq
    <2> QED
      BY <1>3, <2>2, <2>3, <2>4
  <1>4. CASE n # 0
    <2> DEFINE f == CHOOSE f : Flats(f, ss, n)
               g == [k \in 0 .. n |-> IF k = 0 THEN <<>> ELSE f[k]]
    <2>1. Flats(f, ss, n)
      BY FlatsExist
    <2>2. FlattenSeq(ss) = f[n]
      BY <1>1, <1>4 DEF FlattenSeq, Flats
    <2> HIDE DEF f
    <2>3. g[0] = <<>> /\ \A k \in 1 .. n : g[k] = f[k]
      OBVIOUS
    <2>4. \A k \in 1 .. n : f[k] = IF k = 1 THEN ss[k] ELSE f[k - 1] \o ss[k]
      BY <2>1 DEF Flats
    <2>5. ASSUME NEW k \in 1 .. n PROVE g[k] = g[k - 1] \o ss[k]
      <3>1. CASE k = 1
        <4>1. <<>> \o ss[1] = ss[1]
          BY <3>1, ConcatEmptySeq DEF IsSeq
        <4>2. g[1] = ss[1]
          BY <2>3, <2>4, <3>1
        <4>3. g[k] = ss[1] /\ g[k - 1] = <<>> /\ ss[k] = ss[1]
          <5>1. k - 1 = 0
            BY <3>1
          <5> HIDE DEF g
          <5> QED
            BY <2>3, <3>1, <4>2, <5>1
        <4> HIDE DEF g
        <4> QED
          BY <4>1, <4>3
      <3>2. CASE k # 1
        <4>1. k - 1 \in 1 .. n
          BY <3>2
        <4>2. g[k] = f[k] /\ g[k - 1] = f[k - 1]
          BY <2>3, <4>1
        <4> HIDE DEF g
        <4> QED
          BY <2>4, <3>2, <4>2
      <3> QED
        BY <3>1, <3>2
    <2>6. n \in 1 .. n
      BY <1>4
    <2> HIDE DEF g
    <2>7. Joins(g, ss, n)
      BY <2>3, <2>5 DEF Joins
    <2>8. FlattenSeq(ss) = g[n]
      BY <2>2, <2>3, <2>6
    <2> QED
      BY <2>7, <2>8
  <1> QED
    BY <1>3, <1>4

\* t starts with s.
Starts(s, t) ==
  /\ IsSeq(s) /\ IsSeq(t)
  /\ Len(s) <= Len(t)
  /\ \A k \in 1 .. Len(s) : t[k] = s[k]

LEMMA StartsPrefix ==
  ASSUME NEW s, NEW t, Starts(s, t)
  PROVE  IsPrefix(s, t)
  <1>1. Len(s) \in Nat /\ Len(t) \in Nat
    BY SeqLen DEF Starts
  <1>2. /\ IsSeq(SubSeq(s, 1, Len(s))) /\ Len(SubSeq(s, 1, Len(s))) = Len(s) - 1 + 1
        /\ \A k \in 1 .. Len(s) - 1 + 1 : SubSeq(s, 1, Len(s))[k] = s[1 + k - 1]
    BY <1>1, SeqPart DEF Starts
  <1>3. /\ IsSeq(SubSeq(t, 1, Len(s))) /\ Len(SubSeq(t, 1, Len(s))) = Len(s) - 1 + 1
        /\ \A k \in 1 .. Len(s) - 1 + 1 : SubSeq(t, 1, Len(s))[k] = t[1 + k - 1]
    BY <1>1, SeqPart DEF Starts
  <1>4. Len(s) - 1 + 1 = Len(s) /\ \A k \in 1 .. Len(s) : 1 + k - 1 = k
    BY <1>1
  <1>5. SubSeq(s, 1, Len(s)) = SubSeq(t, 1, Len(s))
    <2>1. \A k \in 1 .. Len(s) : SubSeq(s, 1, Len(s))[k] = SubSeq(t, 1, Len(s))[k]
      BY <1>2, <1>3, <1>4 DEF Starts
    <2> QED
      BY <1>2, <1>3, <1>4, <2>1, SeqSame
  <1> QED
    BY <1>5 DEF IsPrefix, Starts

LEMMA StartsTrans ==
  ASSUME NEW s, NEW t, NEW u, Starts(s, t), Starts(t, u)
  PROVE  Starts(s, u)
  <1>1. Len(s) \in Nat /\ Len(t) \in Nat /\ Len(u) \in Nat
    BY SeqLen DEF Starts
  <1>2. \A k \in 1 .. Len(s) : k \in 1 .. Len(t)
    BY <1>1 DEF Starts
  <1> QED
    BY <1>1, <1>2 DEF Starts

LEMMA CatStarts ==
  ASSUME NEW s, NEW t, IsSeq(s), IsSeq(t)
  PROVE  Starts(s, s \o t) /\ IsSeq(s \o t) /\ Len(s \o t) = Len(s) + Len(t)
  BY SeqCat, SeqLen DEF IsCat, Starts

\* What follows s in u starts with what follows it in w, or the other way.
LEMMA StartsAfter ==
  ASSUME NEW s, NEW t, NEW v, NEW u, IsSeq(s), IsSeq(t), IsSeq(v),
         Starts(s \o t, u), Starts(s \o v, u)
  PROVE  Starts(t, v) \/ Starts(v, t)
  <1>1. Len(s) \in Nat /\ Len(t) \in Nat /\ Len(v) \in Nat
    BY SeqLen
  <1>2. IsCat(s, t, s \o t) /\ IsCat(s, v, s \o v)
    BY SeqCat
  <1>3. ASSUME NEW k \in Nat, k \in 1 .. Len(t), k \in 1 .. Len(v) PROVE t[k] = v[k]
    <2>1. Len(s) + k \in 1 .. Len(s) + Len(t) /\ Len(s) + k \in 1 .. Len(s) + Len(v)
      BY <1>1, <1>3
    <2>2. u[Len(s) + k] = (s \o t)[Len(s) + k] /\ u[Len(s) + k] = (s \o v)[Len(s) + k]
      BY <1>2, <2>1 DEF Starts, IsCat
    <2> QED
      BY <1>2, <1>3, <2>2 DEF IsCat
  <1>4. CASE Len(t) <= Len(v)
    <2>1. \A k \in 1 .. Len(t) : k \in Nat /\ k \in 1 .. Len(v)
      BY <1>1, <1>4
    <2> QED
      BY <1>3, <1>4, <2>1 DEF Starts
  <1>5. CASE Len(v) <= Len(t)
    <2>1. \A k \in 1 .. Len(v) : k \in Nat /\ k \in 1 .. Len(t)
      BY <1>1, <1>5
    <2> QED
      BY <1>3, <1>5, <2>1 DEF Starts
  <1> QED
    BY <1>1, <1>4, <1>5

LEMMA StartsWhole ==
  ASSUME NEW s, NEW t, Starts(s, t), Len(t) <= Len(s)
  PROVE  s = t
  <1>1. Len(s) = Len(t)
    BY SeqLen DEF Starts
  <1> QED
    BY <1>1, SeqSame DEF Starts

LEMMA StartsSelf ==
  ASSUME NEW s, IsSeq(s)
  PROVE  Starts(s, s)
  BY SeqLen DEF Starts

LEMMA JoinSeqs ==
  ASSUME NEW n \in Nat, NEW ss, NEW g, Joins(g, ss, n),
         \A k \in 1 .. n : IsSeq(ss[k]),
         NEW m \in 0 .. n
  PROVE  IsSeq(g[m])
  <1> DEFINE A == {k \in 0 .. n : ~ IsSeq(g[k])}
  <1> SUFFICES ASSUME A # {} PROVE FALSE
    OBVIOUS
  <1>1. PICK a \in A : \A b \in A : a <= b
    <2>1. A \in SUBSET (0 .. n)
      OBVIOUS
    <2> HIDE DEF A
    <2> QED
      BY <2>1, LeastIn
  <1>2. a # 0
    <2>1. IsSeq(<<>>)
      BY EmptySeq, SeqIsSeq
    <2> QED
      BY <2>1 DEF Joins
  <1>3. a \in 1 .. n /\ a - 1 \in 0 .. n /\ a - 1 \notin A
    BY <1>1, <1>2
  <1>4. IsSeq(g[a - 1]) /\ IsSeq(ss[a]) /\ g[a] = g[a - 1] \o ss[a]
    BY <1>3 DEF Joins
  <1>5. IsSeq(g[a])
    BY <1>4, CatStarts
  <1> QED
    BY <1>5

LEMMA JoinStarts ==
  ASSUME NEW n \in Nat, NEW ss, NEW g, Joins(g, ss, n),
         \A k \in 1 .. n : IsSeq(ss[k]),
         NEW m \in 0 .. n
  PROVE  Starts(g[m], g[n])
  <1> DEFINE A == {k \in 0 .. n : ~ Starts(g[n - k], g[n])}
  <1>1. SUFFICES ASSUME A # {} PROVE FALSE
    <2>1. n - m \in 0 .. n /\ n - (n - m) = m
      OBVIOUS
    <2> QED
      BY <2>1
  <1>2. PICK a \in A : \A b \in A : a <= b
    <2>1. A \in SUBSET (0 .. n)
      OBVIOUS
    <2> HIDE DEF A
    <2> QED
      BY <1>1, <2>1, LeastIn
  <1>3. a # 0
    <2>1. Starts(g[n], g[n])
      BY JoinSeqs, StartsSelf
    <2> QED
      BY <2>1
  <1>4. a - 1 \in 0 .. n /\ a - 1 \notin A /\ a \in 1 .. n
    BY <1>2, <1>3
  <1> DEFINE k == n - a + 1
  <1>5. k \in 1 .. n /\ k - 1 = n - a /\ k - 1 \in 0 .. n /\ k = n - (a - 1)
    BY <1>4
  <1>6. Starts(g[k], g[n])
    BY <1>4, <1>5
  <1> HIDE DEF k
  <1>7. Starts(g[k - 1], g[k])
    <2>1. IsSeq(g[k - 1]) /\ IsSeq(ss[k]) /\ g[k] = g[k - 1] \o ss[k]
      BY <1>5, JoinSeqs DEF Joins
    <2> QED
      BY <2>1, CatStarts
  <1>8. Starts(g[n - a], g[n])
    BY <1>5, <1>6, <1>7, StartsTrans
  <1> QED
    BY <1>8

\* None of these starts with another.
PrefixFree(ss, m, tt, n) ==
  /\ \A k \in 1 .. m : IsSeq(ss[k]) /\ ss[k] # <<>>
  /\ \A k \in 1 .. n : IsSeq(tt[k]) /\ tt[k] # <<>>
  /\ \A k \in 1 .. m, l \in 1 .. n :
       Starts(ss[k], tt[l]) \/ Starts(tt[l], ss[k]) => ss[k] = tt[l]

LEMMA SameParts ==
  ASSUME NEW m \in Nat, NEW ss, NEW g, Joins(g, ss, m),
         NEW n \in Nat, NEW tt, NEW h, Joins(h, tt, n),
         PrefixFree(ss, m, tt, n), g[m] = h[n]
  PROVE  \A k \in 1 .. m : k <= n => ss[k] = tt[k] /\ g[k] = h[k]
  <1>1. ASSUME NEW k \in 1 .. m, k <= n, g[k - 1] = h[k - 1]
        PROVE  ss[k] = tt[k] /\ g[k] = h[k]
    <2>1. k \in 1 .. n /\ k \in 0 .. n /\ k \in 0 .. m /\ k - 1 \in 0 .. m
      BY <1>1
    <2>2. /\ Starts(g[k], g[m]) /\ Starts(h[k], g[m]) /\ IsSeq(g[k - 1])
          /\ IsSeq(ss[k]) /\ IsSeq(tt[k])
      BY <2>1, JoinStarts, JoinSeqs DEF PrefixFree
    <2>3. g[k] = g[k - 1] \o ss[k] /\ h[k] = g[k - 1] \o tt[k]
      BY <1>1, <2>1 DEF Joins
    <2>4. Starts(ss[k], tt[k]) \/ Starts(tt[k], ss[k])
      BY <2>2, <2>3, StartsAfter
    <2> QED
      BY <2>1, <2>3, <2>4 DEF PrefixFree
  <1> DEFINE A == {k \in 0 .. m : k <= n /\ g[k] # h[k]}
  <1>2. A = {}
    <2> SUFFICES ASSUME A # {} PROVE FALSE
      OBVIOUS
    <2>1. PICK a \in A : \A b \in A : a <= b
      <3>1. A \in SUBSET (0 .. m)
        OBVIOUS
      <3> HIDE DEF A
      <3> QED
        BY <3>1, LeastIn
    <2>2. a # 0
      BY DEF Joins
    <2>3. a \in 1 .. m /\ a <= n /\ a - 1 \in 0 .. m /\ a - 1 <= n /\ a - 1 \notin A
      BY <2>1, <2>2
    <2>4. g[a - 1] = h[a - 1]
      BY <2>3
    <2>5. g[a] = h[a]
      BY <1>1, <2>3, <2>4
    <2> QED
      BY <2>5
  <1>3. ASSUME NEW k \in 1 .. m, k <= n PROVE g[k - 1] = h[k - 1]
    <2>1. k - 1 \in 0 .. m /\ k - 1 <= n
      BY <1>3
    <2> QED
      BY <1>2, <2>1
  <1> QED
    BY <1>1, <1>3

LEMMA NoMoreParts ==
  ASSUME NEW m \in Nat, NEW ss, NEW g, Joins(g, ss, m),
         NEW n \in Nat, NEW tt, NEW h, Joins(h, tt, n),
         PrefixFree(ss, m, tt, n), g[m] = h[n]
  PROVE  ~ (m < n)
  <1> SUFFICES ASSUME m < n PROVE FALSE
    OBVIOUS
  <1> DEFINE k == m + 1
  <1>1. k \in 1 .. n /\ k \in 0 .. n /\ k - 1 = m
    OBVIOUS
  <1> HIDE DEF k
  <1>2. g[m] = h[m]
    <2>1. CASE m = 0
      BY <2>1 DEF Joins
    <2>2. CASE m # 0
      BY <2>2, SameParts
    <2> QED
      BY <2>1, <2>2
  <1>3. IsSeq(g[m]) /\ IsSeq(tt[k]) /\ tt[k] # <<>> /\ IsSeq(<<>>) /\ Len(<<>>) = 0
    <2>1. IsSeq(g[m])
      BY JoinSeqs DEF PrefixFree
    <2> QED
      BY <1>1, <2>1, EmptySeq, SeqIsSeq DEF PrefixFree
  <1>4. h[k] = g[m] \o tt[k]
    BY <1>1, <1>2 DEF Joins
  <1>5. Starts(h[k], g[m])
    BY <1>1, JoinStarts DEF PrefixFree
  <1>6. Len(tt[k]) \in Nat /\ Len(tt[k]) # 0 /\ Len(g[m]) \in Nat
    <2>1. Len(tt[k]) = 0 => tt[k] = <<>>
      BY <1>3, SeqSame
    <2> QED
      BY <1>3, <2>1, SeqLen
  <1>7. Len(h[k]) = Len(g[m]) + Len(tt[k])
    BY <1>3, <1>4, CatStarts
  <1>8. Len(h[k]) <= Len(g[m])
    BY <1>5 DEF Starts
  <1>9. \A x \in Nat, y \in Nat : x # 0 /\ y + x <= y => FALSE
    OBVIOUS
  <1>10. Len(g[m]) + Len(tt[k]) <= Len(g[m])
    BY <1>7, <1>8
  <1> QED
    BY <1>6, <1>9, <1>10

\* Sequences of which none starts with another are told from their flattening.
LEMMA Unflatten ==
  ASSUME NEW m \in Nat, NEW ss, ss = [k \in 1 .. m |-> ss[k]],
         NEW n \in Nat, NEW tt, tt = [k \in 1 .. n |-> tt[k]],
         PrefixFree(ss, m, tt, n), FlattenSeq(ss) = FlattenSeq(tt)
  PROVE  m = n /\ ss = tt
  <1>1. PICK g : Joins(g, ss, m) /\ FlattenSeq(ss) = g[m]
    BY FlattenIs DEF PrefixFree
  <1>2. PICK h : Joins(h, tt, n) /\ FlattenSeq(tt) = h[n]
    BY FlattenIs DEF PrefixFree
  <1>3. g[m] = h[n]
    BY <1>1, <1>2
  <1>4. PrefixFree(tt, n, ss, m)
    BY DEF PrefixFree
  <1>5. ~ (m < n)
    BY <1>1, <1>2, <1>3, NoMoreParts
  <1>6. ~ (n < m)
    BY <1>1, <1>2, <1>3, <1>4, NoMoreParts
  <1>7. m = n
    BY <1>5, <1>6
  <1>8. \A k \in 1 .. m : ss[k] = tt[k]
    BY <1>1, <1>2, <1>3, <1>7, SameParts
  <1> QED
    BY <1>7, <1>8

---------------------------------------------------------------------------
(* The header: its first byte says how long it is.                         *)

HeadSize(x) ==
  IF x = 155 THEN 9 ELSE IF x = 154 THEN 5 ELSE IF x = 153 THEN 3
  ELSE IF x = 152 THEN 2 ELSE 1

LEMMA HeaderIs ==
  ASSUME NEW v \in Nat
  PROVE  LET h == EncodeCborUintHeader(128, v)
         IN  IsSeq(h) /\ 1 \in 1 .. Len(h) /\ Len(h) = HeadSize(h[1])
  <1> DEFINE h == EncodeCborUintHeader(128, v)
  <1>1. \/ v < 24 /\ h = <<128 + v>>
        \/ h = <<152, v>>
        \/ h = <<153>> \o BeBytes(v, 2)
        \/ h = <<154>> \o BeBytes(v, 4)
        \/ h = <<155>> \o BeBytes(v, 8)
    <2> DEFINE A == v < 24
               B == v \in 24 .. 2^8 - 1
               C == v \in 2^8 .. 2^16 - 1
               D == v \div 2^16 \in 1 .. 2^16 - 1
               at(x, w) == <<x>> \o BeBytes(v, w)
    <2>1. h = CASE A -> <<128 + v>>
                [] B -> <<128 + 24, v>>
                [] C -> at(128 + 25, 2)
                [] D -> at(128 + 26, 4)
                [] OTHER -> at(128 + 27, 8)
      BY Zenon DEF EncodeCborUintHeader
    <2> HIDE DEF A, B, C, D, h, at
    <2>2. \/ A /\ h = <<128 + v>>
          \/ h = <<128 + 24, v>>
          \/ h = at(128 + 25, 2) \/ h = at(128 + 26, 4) \/ h = at(128 + 27, 8)
      BY <2>1
    <2>3. 128 + 24 = 152 /\ 128 + 25 = 153 /\ 128 + 26 = 154 /\ 128 + 27 = 155
      OBVIOUS
    <2> QED
      BY <2>2, <2>3 DEF A, at
  <1> HIDE DEF h
  <1>2. ASSUME NEW w \in Nat, NEW x, h = <<x>> \o BeBytes(v, w)
        PROVE  IsSeq(h) /\ Len(h) = 1 + w /\ h[1] = x
    <2>1. IsSeq(BeBytes(v, w)) /\ Len(BeBytes(v, w)) = w
      <3>1. BeBytes(v, w) = [k \in 1 .. w |-> BeBytes(v, w)[k]]
        BY DEF BeBytes
      <3> QED
        BY <3>1, FunIsSeq
    <2>2. IsSeq(<<x>>) /\ Len(<<x>>) = 1 /\ <<x>>[1] = x
      BY OneIsSeq
    <2>3. IsCat(<<x>>, BeBytes(v, w), h)
      BY <1>2, <2>1, <2>2, SeqCat
    <2> QED
      BY <2>1, <2>2, <2>3 DEF IsCat
  <1> DEFINE Known == IsSeq(h) /\ 1 \in 1 .. Len(h) /\ Len(h) = HeadSize(h[1])
  <1> SUFFICES Known
    BY DEF h
  <1>3. CASE v < 24 /\ h = <<128 + v>>
    <2>1. IsSeq(h) /\ Len(h) = 1 /\ h[1] = 128 + v
      BY <1>3, OneIsSeq
    <2> QED
      BY <1>3, <2>1 DEF HeadSize
  <1>4. CASE h = <<152, v>>
    <2>1. <<152, v>> \in Seq({152, v}) /\ Len(<<152, v>>) = 2 /\ <<152, v>>[1] = 152
      OBVIOUS
    <2>2. IsSeq(h) /\ Len(h) = 2 /\ h[1] = 152
      BY <1>4, <2>1, SeqIsSeq
    <2> QED
      BY <2>2 DEF HeadSize
  <1>5. CASE h = <<153>> \o BeBytes(v, 2)
    <2>1. IsSeq(h) /\ Len(h) = 3 /\ h[1] = 153
      BY <1>2, <1>5
    <2> QED
      BY <2>1 DEF HeadSize
  <1>6. CASE h = <<154>> \o BeBytes(v, 4)
    <2>1. IsSeq(h) /\ Len(h) = 5 /\ h[1] = 154
      BY <1>2, <1>6
    <2> QED
      BY <2>1 DEF HeadSize
  <1>7. CASE h = <<155>> \o BeBytes(v, 8)
    <2>1. IsSeq(h) /\ Len(h) = 9 /\ h[1] = 155
      BY <1>2, <1>7
    <2> QED
      BY <2>1 DEF HeadSize
  <1> QED
    BY <1>1, <1>3, <1>4, <1>5, <1>6, <1>7

\* Where two concatenations are the same and their first parts as long, so are
\* their parts.
LEMMA SameCats ==
  ASSUME NEW s, NEW t, NEW u, NEW v, IsSeq(s), IsSeq(t), IsSeq(u), IsSeq(v),
         s \o t = u \o v, Len(s) = Len(u)
  PROVE  s = u /\ t = v
  <1>1. IsCat(s, t, s \o t) /\ IsCat(u, v, s \o t)
    BY SeqCat
  <1>2. Len(s) \in Nat /\ Len(t) \in Nat /\ Len(v) \in Nat
    BY SeqLen
  <1>3. s = u
    BY <1>1, SeqSame DEF IsCat
  <1>4. Len(t) = Len(v)
    <2>1. Len(s) + Len(t) = Len(s) + Len(v)
      BY <1>1 DEF IsCat
    <2> QED
      BY <1>2, <2>1
  <1>5. t = v
    BY <1>1, <1>4, SeqSame DEF IsCat
  <1> QED
    BY <1>3, <1>5

LEMMA SameHeads ==
  ASSUME NEW g, NEW s, NEW h, NEW t, IsSeq(s), IsSeq(t), g \o s = h \o t,
         IsSeq(g), 1 \in 1 .. Len(g), Len(g) = HeadSize(g[1]),
         IsSeq(h), 1 \in 1 .. Len(h), Len(h) = HeadSize(h[1])
  PROVE  s = t
  <1>1. IsCat(g, s, g \o s) /\ IsCat(h, t, g \o s)
    BY SeqCat
  <1>2. g[1] = h[1]
    BY <1>1 DEF IsCat
  <1>3. Len(g) = Len(h)
    BY <1>2
  <1> QED
    BY <1>3, SameCats

LEMMA HeadersApart ==
  ASSUME NEW m \in Nat, NEW n \in Nat, NEW s, NEW t, IsSeq(s), IsSeq(t),
         EncodeCborUintHeader(128, m) \o s = EncodeCborUintHeader(128, n) \o t
  PROVE  s = t
  BY HeaderIs, SameHeads

---------------------------------------------------------------------------
(* What is hashed of a block tells its projections.                        *)

LEMMA BodiesAre ==
  ASSUME NEW i \in Indexers, NEW b \in Blocks, NEW k \in 1 .. Cardinality(Accepted[b])
  PROVE  /\ BodiesOf(i, b)[k] = Projection[i][At(Accepted[b], k)]
         /\ At(Accepted[b], k) \in Accepted[b]
         /\ IsSeq(BodiesOf(i, b)[k]) /\ BodiesOf(i, b)[k] # <<>>
  <1>1. BodiesOf(i, b)[k] = Projection[i][At(Accepted[b], k)]
    BY DEF BodiesOf
  <1>2. At(Accepted[b], k) \in Accepted[b]
    BY AcceptedNumbers, AtIs
  <1>3. At(Accepted[b], k) \in UNION {Accepted[a] : a \in Blocks}
    BY <1>2
  <1>4. BodiesOf(i, b)[k] \in Seq(0 .. 255) /\ BodiesOf(i, b)[k] # <<>>
    <2> DEFINE t == At(Accepted[b], k)
    <2> HIDE DEF t
    <2>1. t \in UNION {Accepted[a] : a \in Blocks}
      BY <1>3 DEF t
    <2>2. Projection[i][t] \in Seq(0 .. 255) \ {<<>>}
      BY <2>1, SelfDelimiting
    <2> QED
      BY <1>1, <2>2 DEF t
  <1> QED
    BY <1>1, <1>2, <1>4, SeqIsSeq

LEMMA BodiesFree ==
  ASSUME NEW i \in Indexers, NEW b \in Blocks, NEW j \in Indexers, NEW c \in Blocks
  PROVE  PrefixFree(BodiesOf(i, b), Cardinality(Accepted[b]),
                    BodiesOf(j, c), Cardinality(Accepted[c]))
  <1>1. ASSUME NEW k \in 1 .. Cardinality(Accepted[b]), NEW l \in 1 .. Cardinality(Accepted[c]),
               Starts(BodiesOf(i, b)[k], BodiesOf(j, c)[l])
                 \/ Starts(BodiesOf(j, c)[l], BodiesOf(i, b)[k])
        PROVE  BodiesOf(i, b)[k] = BodiesOf(j, c)[l]
    <2> DEFINE t == At(Accepted[b], k)
               u == At(Accepted[c], l)
    <2>1. t \in UNION {Accepted[a] : a \in Blocks} /\ u \in UNION {Accepted[a] : a \in Blocks}
      BY BodiesAre
    <2>2. BodiesOf(i, b)[k] = Projection[i][t] /\ BodiesOf(j, c)[l] = Projection[j][u]
      BY BodiesAre
    <2> HIDE DEF t, u
    <2>3. \/ IsPrefix(Projection[i][t], Projection[j][u])
          \/ IsPrefix(Projection[j][u], Projection[i][t])
      BY <1>1, <2>2, StartsPrefix
    <2> QED
      BY <2>1, <2>2, <2>3, SelfDelimiting
  <1> QED
    BY <1>1, BodiesAre DEF PrefixFree

LEMMA BodiesFlat ==
  ASSUME NEW i \in Indexers, NEW b \in Blocks
  PROVE  /\ BodiesOf(i, b) = [k \in 1 .. Cardinality(Accepted[b]) |-> BodiesOf(i, b)[k]]
         /\ IsSeq(FlattenSeq(BodiesOf(i, b)))
  <1> DEFINE n == Cardinality(Accepted[b])
             ss == BodiesOf(i, b)
  <1>1. ss = [k \in 1 .. n |-> ss[k]]
    BY DEF BodiesOf
  <1>2. n \in Nat
    BY AcceptedNumbers
  <1>3. \A k \in 1 .. n : IsSeq(ss[k])
    BY BodiesAre
  <1> HIDE DEF n, ss
  <1>4. PICK g : Joins(g, ss, n) /\ FlattenSeq(ss) = g[n]
    BY <1>1, <1>2, <1>3, FlattenIs
  <1>5. IsSeq(g[n])
    BY <1>2, <1>3, <1>4, JoinSeqs
  <1> QED
    BY <1>1, <1>4, <1>5 DEF n, ss

\* The projections and their places are the bodies and their indices.
LEMMA ProjectedIs ==
  ASSUME NEW i \in Indexers, NEW b \in Blocks
  PROVE  Projected(i, b) =
           {<<k - 1, BodiesOf(i, b)[k]>> : k \in 1 .. Cardinality(Accepted[b])}
  <1> DEFINE A == Accepted[b]
             n == Cardinality(A)
             R == {<<k - 1, BodiesOf(i, b)[k]>> : k \in 1 .. n}
  <1>1. Projected(i, b) = {<<Rank(A, t), Projection[i][t]>> : t \in A}
    BY DEF Projected, Rank
  <1>2. Numbers(A) /\ n \in Nat
    BY AcceptedNumbers
  <1>3. ASSUME NEW k \in 1 .. n
        PROVE  /\ At(A, k) \in A /\ Rank(A, At(A, k)) = k - 1
               /\ BodiesOf(i, b)[k] = Projection[i][At(A, k)]
    BY <1>2, AtIs, BodiesAre
  <1>4. ASSUME NEW t \in A
        PROVE  Rank(A, t) + 1 \in 1 .. n /\ t = At(A, Rank(A, t) + 1)
    <2>1. Rank(A, t) \in Nat /\ Rank(A, t) < n
      BY <1>2, RankLess
    <2> DEFINE k == Rank(A, t) + 1
    <2>2. k \in 1 .. n /\ Rank(A, t) = k - 1
      BY <1>2, <2>1
    <2> HIDE DEF k
    <2>3. t = At(A, k)
      BY <1>2, <2>2, AtIs
    <2> QED
      BY <2>2, <2>3 DEF k
  <1> HIDE DEF A, n
  <1>5. ASSUME NEW t \in A PROVE <<Rank(A, t), Projection[i][t]>> \in R
    <2> DEFINE k == Rank(A, t) + 1
    <2>1. k \in 1 .. n /\ t = At(A, k)
      BY <1>4
    <2> HIDE DEF k
    <2>2. Rank(A, t) = k - 1 /\ BodiesOf(i, b)[k] = Projection[i][t]
      BY <1>3, <2>1
    <2> QED
      BY <2>1, <2>2
  <1>6. ASSUME NEW k \in 1 .. n
        PROVE  <<k - 1, BodiesOf(i, b)[k]>> \in {<<Rank(A, t), Projection[i][t]>> : t \in A}
    BY <1>3
  <1> HIDE DEF R
  <1>7. {<<Rank(A, t), Projection[i][t]>> : t \in A} \subseteq R
    BY <1>5
  <1>8. R \subseteq {<<Rank(A, t), Projection[i][t]>> : t \in A}
    BY <1>6 DEF R
  <1> QED
    BY <1>1, <1>7, <1>8 DEF R, n, A

LEMMA BytesTell ==
  ASSUME NEW i \in Indexers, NEW b \in Blocks, NEW j \in Indexers, NEW c \in Blocks
  PROVE  BlockBytes(i, b) = BlockBytes(j, c) <=> Projected(i, b) = Projected(j, c)
  <1> DEFINE m == Cardinality(Accepted[b])
             n == Cardinality(Accepted[c])
             ss == BodiesOf(i, b)
             tt == BodiesOf(j, c)
  <1>1. m \in Nat /\ n \in Nat
    BY AcceptedNumbers
  <1>2. /\ ss = [k \in 1 .. m |-> ss[k]] /\ IsSeq(FlattenSeq(ss))
        /\ tt = [k \in 1 .. n |-> tt[k]] /\ IsSeq(FlattenSeq(tt))
    BY BodiesFlat
  <1>3. PrefixFree(ss, m, tt, n)
    BY BodiesFree
  <1>4. /\ BlockBytes(i, b) = EncodeCborUintHeader(128, m) \o FlattenSeq(ss)
        /\ BlockBytes(j, c) = EncodeCborUintHeader(128, n) \o FlattenSeq(tt)
    BY DEF BlockBytes
  <1>5. /\ Projected(i, b) = {<<k - 1, ss[k]>> : k \in 1 .. m}
        /\ Projected(j, c) = {<<k - 1, tt[k]>> : k \in 1 .. n}
    BY ProjectedIs
  <1> HIDE DEF m, n, ss, tt
  <1>6. ASSUME BlockBytes(i, b) = BlockBytes(j, c)
        PROVE  Projected(i, b) = Projected(j, c)
    <2>1. FlattenSeq(ss) = FlattenSeq(tt)
      <3> DEFINE s == FlattenSeq(ss)  t == FlattenSeq(tt)
      <3>1. EncodeCborUintHeader(128, m) \o s = EncodeCborUintHeader(128, n) \o t
        BY <1>4, <1>6
      <3>2. IsSeq(s) /\ IsSeq(t)
        BY <1>2
      <3> HIDE DEF s, t
      <3>3. s = t
        BY <1>1, <3>1, <3>2, HeadersApart
      <3> QED
        BY <3>3 DEF s, t
    <2>2. m = n /\ ss = tt
      BY <1>1, <1>2, <1>3, <2>1, Unflatten
    <2> QED
      BY <1>5, <2>2
  <1>7. ASSUME Projected(i, b) = Projected(j, c)
        PROVE  BlockBytes(i, b) = BlockBytes(j, c)
    <2>1. ASSUME NEW k \in 1 .. m PROVE k \in 1 .. n /\ ss[k] = tt[k]
      <3>1. <<k - 1, ss[k]>> \in {<<l - 1, tt[l]>> : l \in 1 .. n}
        BY <1>5, <1>7
      <3>2. PICK l \in 1 .. n : k - 1 = l - 1 /\ ss[k] = tt[l]
        BY <3>1
      <3>3. k = l
        BY <3>2
      <3> QED
        BY <3>2, <3>3
    <2>2. ASSUME NEW k \in 1 .. n PROVE k \in 1 .. m
      <3>1. <<k - 1, tt[k]>> \in {<<l - 1, ss[l]>> : l \in 1 .. m}
        BY <1>5, <1>7
      <3>2. PICK l \in 1 .. m : k - 1 = l - 1
        BY <3>1
      <3>3. k = l
        BY <3>2
      <3> QED
        BY <3>2, <3>3
    <2>3. m = n
      BY <1>1, <2>1, <2>2
    <2>4. ss = tt
      BY <1>2, <2>1, <2>3
    <2> QED
      BY <1>4, <2>3, <2>4
  <1> QED
    BY <1>6, <1>7

---------------------------------------------------------------------------
(* A chain of hashes tells the history it was made from.                   *)

Before(h, k) == IF k = 1 THEN StateHashGenesis ELSE h[k - 1]

\* h are the hashes of indexer i along the blocks c.
Chained(i, c, h) ==
  /\ IsSeq(h) /\ Len(h) = Len(c)
  /\ \A k \in 1 .. Len(c) : h[k] = Blake2b256({Before(h, k)}, BlockBytes(i, c[k]))

LEMMA HashIs ==
  ASSUME NEW p, NEW q, NEW x, NEW y, Blake2b256({p}, x) = Blake2b256({q}, y)
  PROVE  p = q /\ x = y
  <1>1. /\ Blake2b256({p}, x).prior = {p} /\ Blake2b256({p}, x).bytes = x
        /\ Blake2b256({q}, y).prior = {q} /\ Blake2b256({q}, y).bytes = y
    BY DEF Blake2b256
  <1>2. {p} = {q} => p = q
    OBVIOUS
  <1> QED
    BY <1>1, <1>2

LEMMA NotGenesis ==
  ASSUME NEW p, NEW x
  PROVE  Blake2b256({p}, x) # StateHashGenesis
  <1>1. Blake2b256({p}, x).prior = {p} /\ StateHashGenesis.prior = {}
    BY DEF Blake2b256, StateHashGenesis
  <1>2. {p} # {}
    OBVIOUS
  <1> QED
    BY <1>1, <1>2

\* The first k blocks were projected alike.
Alike(i, c, j, d, k) == \A m \in 1 .. k : Projected(i, c[m]) = Projected(j, d[m])

LEMMA LinkTells ==
  ASSUME NEW i \in Indexers, NEW c \in Seq(Blocks), NEW g, Chained(i, c, g),
         NEW j \in Indexers, NEW d \in Seq(Blocks), NEW h, Chained(j, d, h),
         NEW k \in 1 .. Len(c), NEW l \in 1 .. Len(d)
  PROVE  g[k] = h[l] <=> /\ Before(g, k) = Before(h, l)
                         /\ Projected(i, c[k]) = Projected(j, d[l])
  <1>1. c[k] \in Blocks /\ d[l] \in Blocks
    BY ElementOfSeq
  <1>2. /\ g[k] = Blake2b256({Before(g, k)}, BlockBytes(i, c[k]))
        /\ h[l] = Blake2b256({Before(h, l)}, BlockBytes(j, d[l]))
    BY DEF Chained
  <1>3. BlockBytes(i, c[k]) = BlockBytes(j, d[l]) <=> Projected(i, c[k]) = Projected(j, d[l])
    BY <1>1, BytesTell
  <1>4. g[k] = h[l] <=> /\ Before(g, k) = Before(h, l)
                        /\ BlockBytes(i, c[k]) = BlockBytes(j, d[l])
    <2> DEFINE p == Before(g, k)  x == BlockBytes(i, c[k])
               q == Before(h, l)  y == BlockBytes(j, d[l])
    <2>1. g[k] = Blake2b256({p}, x) /\ h[l] = Blake2b256({q}, y)
      BY <1>2
    <2> HIDE DEF p, q, x, y
    <2>2. ASSUME g[k] = h[l] PROVE p = q /\ x = y
      BY <2>1, <2>2, HashIs
    <2>3. p = q /\ x = y => g[k] = h[l]
      BY <2>1
    <2> QED
      BY <2>2, <2>3 DEF p, q, x, y
  <1> QED
    BY <1>3, <1>4

LEMMA NoLinkIsGenesis ==
  ASSUME NEW i, NEW c, NEW g, Chained(i, c, g), NEW k \in 1 .. Len(c)
  PROVE  g[k] # StateHashGenesis
  BY NotGenesis DEF Chained

LEMMA HashesTell ==
  ASSUME NEW i \in Indexers, NEW c \in Seq(Blocks), NEW g, Chained(i, c, g),
         NEW j \in Indexers, NEW d \in Seq(Blocks), NEW h, Chained(j, d, h),
         NEW k \in 1 .. Len(c), NEW l \in 1 .. Len(d), g[k] = h[l]
  PROVE  k = l /\ Alike(i, c, j, d, k)
  <1> DEFINE Known(x, y) == x = y /\ Alike(i, c, j, d, x)
             A == {x \in 0 .. Len(c) : x # 0 /\ \E y \in 1 .. Len(d) : g[x] = h[y] /\ ~ Known(x, y)}
  <1>1. Len(c) \in Nat /\ Len(d) \in Nat
    BY LenProperties
  <1>2. A = {}
    <2> SUFFICES ASSUME A # {} PROVE FALSE
      OBVIOUS
    <2>1. PICK a \in A : \A b \in A : a <= b
      <3>1. A \in SUBSET (0 .. Len(c))
        OBVIOUS
      <3> HIDE DEF A
      <3> QED
        BY <1>1, <3>1, LeastIn
    <2>2. PICK y \in 1 .. Len(d) : g[a] = h[y] /\ ~ Known(a, y)
      OBVIOUS
    <2>3. a \in 1 .. Len(c) /\ a \in Nat /\ y \in Nat
      BY <1>1
    <2>4. Before(g, a) = Before(h, y) /\ Projected(i, c[a]) = Projected(j, d[y])
      BY <2>2, <2>3, LinkTells
    <2>5. CASE a = 1
      <3>1. y = 1
        <4> SUFFICES ASSUME y # 1 PROVE FALSE
          OBVIOUS
        <4>1. y - 1 \in 1 .. Len(d)
          BY <1>1, <2>3
        <4>2. h[y - 1] = StateHashGenesis
          BY <2>4, <2>5 DEF Before
        <4> QED
          BY <4>1, <4>2, NoLinkIsGenesis
      <3>2. Alike(i, c, j, d, a)
        BY <2>4, <2>5, <3>1 DEF Alike
      <3> QED
        BY <2>2, <2>5, <3>1, <3>2
    <2>6. CASE a # 1
      <3>1. a - 1 \in 1 .. Len(c) /\ a - 1 \in 0 .. Len(c) /\ a - 1 # 0
        BY <1>1, <2>3, <2>6
      <3>2. y # 1
        <4> SUFFICES ASSUME y = 1 PROVE FALSE
          OBVIOUS
        <4>1. g[a - 1] = StateHashGenesis
          BY <2>4, <2>6 DEF Before
        <4> QED
          BY <3>1, <4>1, NoLinkIsGenesis
      <3>3. y - 1 \in 1 .. Len(d) /\ g[a - 1] = h[y - 1]
        BY <1>1, <2>3, <2>4, <2>6, <3>2 DEF Before
      <3>4. a - 1 \notin A
        BY <2>1, <3>1
      <3>5. Known(a - 1, y - 1)
        BY <3>1, <3>3, <3>4
      <3>6. a = y
        BY <2>3, <3>5
      <3>7. ASSUME NEW m \in 1 .. a PROVE Projected(i, c[m]) = Projected(j, d[m])
        <4>1. m = a \/ m \in 1 .. a - 1
          BY <2>3
        <4> QED
          BY <2>4, <3>5, <3>6, <4>1 DEF Alike
      <3>8. Alike(i, c, j, d, a)
        BY <3>7 DEF Alike
      <3> QED
        BY <2>2, <3>6, <3>8
    <2> QED
      BY <2>5, <2>6
  <1>3. k \in 0 .. Len(c) /\ k # 0
    BY <1>1
  <1> HIDE DEF Known
  <1>4. Known(k, l)
    BY <1>2, <1>3
  <1> QED
    BY <1>4 DEF Known

LEMMA AlikeHashes ==
  ASSUME NEW i \in Indexers, NEW c \in Seq(Blocks), NEW g, Chained(i, c, g),
         NEW j \in Indexers, NEW d \in Seq(Blocks), NEW h, Chained(j, d, h),
         NEW k \in 1 .. Len(c), k \in 1 .. Len(d), Alike(i, c, j, d, k)
  PROVE  g[k] = h[k]
  <1> DEFINE A == {x \in 0 .. k : x # 0 /\ g[x] # h[x]}
  <1>1. Len(c) \in Nat /\ Len(d) \in Nat /\ k \in Nat
    BY LenProperties
  <1>2. A = {}
    <2> SUFFICES ASSUME A # {} PROVE FALSE
      OBVIOUS
    <2>1. PICK a \in A : \A b \in A : a <= b
      <3>1. A \in SUBSET (0 .. k)
        OBVIOUS
      <3> HIDE DEF A
      <3> QED
        BY <1>1, <3>1, LeastIn
    <2>2. a \in 1 .. Len(c) /\ a \in 1 .. Len(d) /\ a \in 1 .. k /\ g[a] # h[a]
      BY <1>1
    <2>3. Projected(i, c[a]) = Projected(j, d[a])
      BY <2>2 DEF Alike
    <2>4. Before(g, a) = Before(h, a)
      <3>1. CASE a = 1
        BY <3>1 DEF Before
      <3>2. CASE a # 1
        <4>1. a - 1 \in 0 .. k /\ a - 1 # 0 /\ a - 1 \notin A
          BY <2>1, <2>2, <3>2
        <4>2. g[a - 1] = h[a - 1]
          BY <4>1
        <4> HIDE DEF A
        <4> QED
          BY <3>2, <4>2 DEF Before
      <3> QED
        BY <3>1, <3>2
    <2> QED
      BY <2>2, <2>3, <2>4, LinkTells
  <1>3. k \in 0 .. k /\ k # 0
    BY <1>1
  <1> QED
    BY <1>2, <1>3

---------------------------------------------------------------------------
(* The invariant.                                                          *)

\* Blocks from the root, each the parent of the next.
Path(c) ==
  /\ c \in Seq(Blocks)
  /\ \A k \in 1 .. Len(c) : Parent[c[k]] = IF k = 1 THEN Root ELSE c[k - 1]

Answered(c, h) == {[daa |-> Daa[c[k]], hash |-> h[k]] : k \in DOMAIN c}

\* What an indexer holds, and what it answered when it held that, are the hashes
\* along a path of the tree: the route it took is forgotten.
HashInv ==
  /\ chain \in [Indexers -> Seq(Blocks)] /\ asked \in [Indexers -> Seq(Blocks)]
  /\ hashes = [i \in Indexers |-> hashes[i]] /\ answer = [i \in Indexers |-> answer[i]]
  /\ \A i \in Indexers : Path(chain[i]) /\ Chained(i, chain[i], hashes[i])
  /\ \A i \in Indexers :
       /\ Path(asked[i])
       /\ \E h : Chained(i, asked[i], h) /\ answer[i] = Answered(asked[i], h)

LEMMA EmptyFacts ==
  ASSUME NEW s, IsSeq(s)
  PROVE  /\ s = <<>> <=> Len(s) = 0
         /\ s # <<>> => Len(s) \in 1 .. Len(s) /\ Len(s) - 1 \in Nat
  <1>1. IsSeq(<<>>) /\ Len(<<>>) = 0
    BY EmptySeq, SeqIsSeq
  <1>2. Len(s) = 0 => s = <<>>
    BY <1>1, SeqSame
  <1> QED
    BY <1>1, <1>2, SeqLen

LEMMA PathAppend ==
  ASSUME NEW c, Path(c), NEW b \in Blocks,
         Parent[b] = IF c = <<>> THEN Root ELSE Last(c)
  PROVE  Path(Append(c, b))
  <1> DEFINE d == Append(c, b)
  <1>1. /\ c \in Seq(Blocks) /\ IsSeq(c) /\ Len(c) \in Nat
        /\ d \in Seq(Blocks) /\ Len(d) = Len(c) + 1
        /\ \A k \in 1 .. Len(c) : d[k] = c[k]
        /\ d[Len(c) + 1] = b
    BY SeqIsSeq, SeqLen, AppendProperties DEF Path
  <1> HIDE DEF d
  <1>2. ASSUME NEW k \in 1 .. Len(d)
        PROVE  Parent[d[k]] = IF k = 1 THEN Root ELSE d[k - 1]
    <2>1. CASE k \in 1 .. Len(c)
      <3>1. k # 1 => k - 1 \in 1 .. Len(c)
        BY <1>1, <2>1
      <3> QED
        BY <1>1, <2>1, <3>1 DEF Path
    <2>2. CASE k \notin 1 .. Len(c)
      <3>1. k = Len(c) + 1 /\ k - 1 = Len(c)
        BY <1>1, <2>2
      <3>2. k = 1 <=> c = <<>>
        BY <1>1, <3>1, EmptyFacts
      <3>3. k # 1 => k - 1 \in 1 .. Len(c)
        BY <1>1, <3>1
      <3>4. d[k] = b /\ (k # 1 => d[k - 1] = Last(c))
        BY <1>1, <3>1, <3>3 DEF Last
      <3> QED
        BY <3>2, <3>4
    <2> QED
      BY <2>1, <2>2
  <1> QED
    BY <1>1, <1>2 DEF Path, d

LEMMA FrontIs ==
  ASSUME NEW s, IsSeq(s), s # <<>>
  PROVE  /\ IsSeq(Front(s)) /\ Len(Front(s)) = Len(s) - 1
         /\ \A k \in 1 .. Len(s) - 1 : Front(s)[k] = s[k]
  <1> DEFINE n == Len(s) - 1
  <1>1. n \in Nat /\ n <= Len(s) /\ n - 1 + 1 = n
    BY EmptyFacts, SeqLen
  <1>2. /\ IsSeq(SubSeq(s, 1, n)) /\ Len(SubSeq(s, 1, n)) = n - 1 + 1
        /\ \A k \in 1 .. n - 1 + 1 : SubSeq(s, 1, n)[k] = s[1 + k - 1]
    BY <1>1, SeqPart
  <1>3. \A k \in 1 .. n : 1 + k - 1 = k
    BY <1>1
  <1> HIDE DEF n
  <1>4. \A k \in 1 .. n : SubSeq(s, 1, n)[k] = s[k]
    BY <1>1, <1>2, <1>3
  <1> QED
    BY <1>1, <1>2, <1>4 DEF n, Front

LEMMA PathFront ==
  ASSUME NEW c, Path(c), c # <<>>
  PROVE  Path(Front(c))
  <1> DEFINE d == Front(c)
  <1>1. IsSeq(c) /\ Len(c) - 1 \in Nat /\ Len(c) \in Nat
    BY SeqIsSeq, SeqLen, EmptyFacts DEF Path
  <1>2. IsSeq(d) /\ Len(d) = Len(c) - 1 /\ \A k \in 1 .. Len(d) : d[k] = c[k]
    BY <1>1, FrontIs
  <1> HIDE DEF d
  <1>3. \A k \in 1 .. Len(d) : k \in 1 .. Len(c) /\ (k # 1 => k - 1 \in 1 .. Len(d))
    BY <1>1, <1>2
  <1>4. \A k \in 1 .. Len(d) : d[k] \in Blocks
    BY <1>2, <1>3, ElementOfSeq DEF Path
  <1>5. d \in Seq(Blocks)
    <2>1. {d[k] : k \in DOMAIN d} \subseteq Blocks
      BY <1>2, <1>4, SeqLen
    <2> QED
      BY <1>2, <2>1, SeqMonotonic DEF IsSeq
  <1>6. \A k \in 1 .. Len(d) : Parent[d[k]] = IF k = 1 THEN Root ELSE d[k - 1]
    BY <1>2, <1>3 DEF Path
  <1> QED
    BY <1>5, <1>6 DEF Path, d

LEMMA ChainedAppend ==
  ASSUME NEW i, NEW c \in Seq(Blocks), NEW h, Chained(i, c, h), NEW b \in Blocks
  PROVE  Chained(i, Append(c, b),
                 Append(h, Blake2b256({IF h = <<>> THEN StateHashGenesis ELSE Last(h)},
                                      BlockBytes(i, b))))
  <1> DEFINE p == IF h = <<>> THEN StateHashGenesis ELSE Last(h)
             x == Blake2b256({p}, BlockBytes(i, b))
             d == Append(c, b)
             g == Append(h, x)
             n == Len(c)
  <1>1. n \in Nat /\ IsSeq(h) /\ Len(h) = n
    BY LenProperties DEF Chained
  <1>2. Len(d) = n + 1 /\ d[n + 1] = b /\ \A k \in 1 .. n : d[k] = c[k]
    BY AppendProperties
  <1> HIDE DEF x
  <1>3. /\ IsSeq(g) /\ Len(g) = n + 1 /\ g[n + 1] = x
        /\ \A k \in 1 .. n : g[k] = h[k]
    BY <1>1, SeqAppend, SeqLen
  <1>4. p = Before(g, n + 1)
    <2>1. h = <<>> <=> n = 0
      BY <1>1, EmptyFacts
    <2>2. n # 0 => n \in 1 .. n /\ n + 1 - 1 = n /\ n + 1 # 1
      BY <1>1
    <2>3. n # 0 => Last(h) = g[n]
      BY <1>1, <1>3, <2>2 DEF Last
    <2> HIDE DEF g, n
    <2>4. n # 0 => Before(g, n + 1) = g[n]
      BY <2>2 DEF Before
    <2>5. n = 0 => Before(g, n + 1) = StateHashGenesis
      BY DEF Before
    <2> QED
      BY <2>1, <2>3, <2>4, <2>5
  <1> HIDE DEF d, g, n, p
  <1>5. ASSUME NEW k \in 1 .. n + 1
        PROVE  g[k] = Blake2b256({Before(g, k)}, BlockBytes(i, d[k]))
    <2>1. CASE k = n + 1
      BY <1>2, <1>3, <1>4, <2>1 DEF x
    <2>2. CASE k # n + 1
      <3>1. k \in 1 .. n /\ (k # 1 => k - 1 \in 1 .. n)
        BY <1>1, <2>2
      <3>2. Before(g, k) = Before(h, k)
        BY <1>3, <3>1 DEF Before
      <3>3. h[k] = Blake2b256({Before(h, k)}, BlockBytes(i, c[k]))
        BY <3>1 DEF Chained, n
      <3> QED
        BY <1>2, <1>3, <3>1, <3>2, <3>3
    <2> QED
      BY <2>1, <2>2
  <1>6. Chained(i, d, g)
    BY <1>2, <1>3, <1>5 DEF Chained
  <1> QED
    BY <1>6 DEF d, g, x, p

LEMMA ChainedFront ==
  ASSUME NEW i, NEW c \in Seq(Blocks), NEW h, Chained(i, c, h), c # <<>>
  PROVE  Chained(i, Front(c), Front(h))
  <1> DEFINE d == Front(c)  g == Front(h)
  <1>1. IsSeq(c) /\ IsSeq(h) /\ Len(h) = Len(c) /\ h # <<>> /\ Len(c) \in Nat
    BY SeqIsSeq, SeqLen, EmptyFacts DEF Chained
  <1>2. /\ Len(d) = Len(c) - 1 /\ \A k \in 1 .. Len(c) - 1 : d[k] = c[k]
        /\ IsSeq(g) /\ Len(g) = Len(c) - 1 /\ \A k \in 1 .. Len(c) - 1 : g[k] = h[k]
    BY <1>1, FrontIs
  <1> HIDE DEF d, g
  <1>3. ASSUME NEW k \in 1 .. Len(d)
        PROVE  g[k] = Blake2b256({Before(g, k)}, BlockBytes(i, d[k]))
    <2>1. k \in 1 .. Len(c) /\ k \in 1 .. Len(c) - 1 /\ (k # 1 => k - 1 \in 1 .. Len(c) - 1)
      BY <1>1, <1>2
    <2>2. Before(g, k) = Before(h, k)
      BY <1>2, <2>1 DEF Before
    <2>3. h[k] = Blake2b256({Before(h, k)}, BlockBytes(i, c[k]))
      BY <2>1 DEF Chained
    <2> QED
      BY <1>2, <2>1, <2>2, <2>3
  <1>4. Chained(i, d, g)
    BY <1>2, <1>3 DEF Chained
  <1> QED
    BY <1>4 DEF d, g

LEMMA NothingYet ==
  ASSUME NEW i
  PROVE  Path(<<>>) /\ Chained(i, <<>>, <<>>) /\ Answered(<<>>, <<>>) = {}
  <1>1. <<>> \in Seq(Blocks) /\ IsSeq(<<>>) /\ Len(<<>>) = 0 /\ 1 .. 0 = {}
    <2>1. <<>> \in Seq(Blocks) /\ Len(<<>>) = 0 /\ 1 .. 0 = {}
      BY EmptySeq
    <2> QED
      BY <2>1, SeqIsSeq
  <1>2. DOMAIN <<>> = {}
    BY <1>1, SeqLen
  <1> QED
    BY <1>1, <1>2 DEF Path, Chained, Answered

LEMMA HashInit == Init => HashInv
  <1> SUFFICES ASSUME Init PROVE HashInv
    OBVIOUS
  <1>1. \A i \in Indexers : /\ chain[i] = <<>> /\ hashes[i] = <<>>
                            /\ answer[i] = {} /\ asked[i] = <<>>
    BY DEF Init
  <1>2. /\ chain \in [Indexers -> Seq(Blocks)] /\ asked \in [Indexers -> Seq(Blocks)]
        /\ hashes = [i \in Indexers |-> hashes[i]] /\ answer = [i \in Indexers |-> answer[i]]
    BY EmptySeq DEF Init
  <1> QED
    BY <1>1, <1>2, NothingYet DEF HashInv

LEMMA AdvanceHashes ==
  ASSUME HashInv, NEW i \in Indexers, NEW b \in Blocks, Advance(i, b)
  PROVE  HashInv'
  <1>1. PICK events \in Arrivals(i, b) :
          hashes' = [hashes EXCEPT ![i] = Append(@, StateHashNext(HashOf(i), events))]
    BY DEF Advance
  <1> DEFINE x == Blake2b256({HashOf(i)}, BlockBytes(i, b))
  <1>2. StateHashNext(HashOf(i), events) = x
    BY SortedBytes DEF StateHashNext
  <1>3. /\ Path(chain[i]) /\ Chained(i, chain[i], hashes[i])
        /\ chain[i] \in Seq(Blocks)
    BY DEF HashInv
  <1>4. Path(Append(chain[i], b))
    BY <1>3, PathAppend DEF Advance, TipOf
  <1>5. Chained(i, Append(chain[i], b), Append(hashes[i], x))
    BY <1>3, ChainedAppend DEF HashOf
  <1> HIDE DEF x
  <1>6. /\ chain' = [chain EXCEPT ![i] = Append(chain[i], b)]
        /\ hashes' = [hashes EXCEPT ![i] = Append(hashes[i], x)]
        /\ UNCHANGED <<answer, asked, tip>>
    BY <1>1, <1>2 DEF Advance
  <1>7. Append(chain[i], b) \in Seq(Blocks)
    BY <1>4 DEF Path
  <1>8. /\ chain' \in [Indexers -> Seq(Blocks)]
        /\ hashes' = [j \in Indexers |-> hashes'[j]]
    BY <1>6, <1>7 DEF HashInv
  <1>9. ASSUME NEW j \in Indexers
        PROVE  Path(chain'[j]) /\ Chained(j, chain'[j], hashes'[j])
    <2>1. CASE j = i
      BY <1>4, <1>5, <1>6, <2>1 DEF HashInv
    <2>2. CASE j # i
      BY <1>6, <2>2 DEF HashInv
    <2> QED
      BY <2>1, <2>2
  <1> QED
    BY <1>6, <1>8, <1>9 DEF HashInv

LEMMA UndoHashes ==
  ASSUME HashInv, NEW i \in Indexers, Undo(i)
  PROVE  HashInv'
  <1>1. /\ Path(chain[i]) /\ Chained(i, chain[i], hashes[i])
        /\ chain[i] \in Seq(Blocks) /\ chain[i] # <<>>
    BY DEF HashInv, Undo
  <1>2. Path(Front(chain[i])) /\ Chained(i, Front(chain[i]), Front(hashes[i]))
    BY <1>1, PathFront, ChainedFront
  <1>3. Front(chain[i]) \in Seq(Blocks)
    BY <1>2 DEF Path
  <1>4. /\ chain' = [chain EXCEPT ![i] = Front(chain[i])]
        /\ hashes' = [hashes EXCEPT ![i] = Front(hashes[i])]
        /\ UNCHANGED <<answer, asked, tip>>
    BY DEF Undo
  <1>5. /\ chain' \in [Indexers -> Seq(Blocks)]
        /\ hashes' = [j \in Indexers |-> hashes'[j]]
    BY <1>3, <1>4 DEF HashInv
  <1>6. ASSUME NEW j \in Indexers
        PROVE  Path(chain'[j]) /\ Chained(j, chain'[j], hashes'[j])
    <2>1. CASE j = i
      BY <1>2, <1>4, <2>1 DEF HashInv
    <2>2. CASE j # i
      BY <1>4, <2>2 DEF HashInv
    <2> QED
      BY <2>1, <2>2
  <1> QED
    BY <1>4, <1>5, <1>6 DEF HashInv

LEMMA QueryHashes ==
  ASSUME HashInv, NEW i \in Indexers, Query(i)
  PROVE  HashInv'
  <1>1. /\ answer' = [answer EXCEPT ![i] = Answered(chain[i], hashes[i])]
        /\ asked' = [asked EXCEPT ![i] = chain[i]]
        /\ UNCHANGED <<chain, hashes, tip>>
    BY DEF Query, Answered
  <1>2. /\ asked' \in [Indexers -> Seq(Blocks)]
        /\ answer' = [j \in Indexers |-> answer'[j]]
    BY <1>1 DEF HashInv
  <1>3. ASSUME NEW j \in Indexers
        PROVE  /\ Path(asked'[j])
               /\ \E h : Chained(j, asked'[j], h) /\ answer'[j] = Answered(asked'[j], h)
    <2>1. CASE j = i
      <3>1. asked'[j] = chain[j] /\ answer'[j] = Answered(chain[j], hashes[j])
        BY <1>1, <2>1 DEF HashInv
      <3> QED
        BY <3>1 DEF HashInv
    <2>2. CASE j # i
      BY <1>1, <2>2 DEF HashInv
    <2> QED
      BY <2>1, <2>2
  <1> QED
    BY <1>1, <1>2, <1>3 DEF HashInv

LEMMA HashStep == HashInv /\ [Next]_vars => HashInv'
  <1> SUFFICES ASSUME HashInv, [Next]_vars PROVE HashInv'
    OBVIOUS
  <1>1. ASSUME NEW i \in Indexers, NEW b \in Blocks, Advance(i, b) PROVE HashInv'
    BY <1>1, AdvanceHashes
  <1>2. ASSUME NEW i \in Indexers, Undo(i) PROVE HashInv'
    BY <1>2, UndoHashes
  <1>3. ASSUME NEW i \in Indexers, Query(i) PROVE HashInv'
    BY <1>3, QueryHashes
  <1>4. ASSUME Confirm \/ UNCHANGED vars PROVE HashInv'
    BY <1>4 DEF HashInv, Confirm, vars
  <1> QED
    BY <1>1, <1>2, <1>3, <1>4 DEF Next

LEMMA AlwaysHashes == Spec => []HashInv
  BY HashInit, HashStep, PTL DEF Spec

\* Two indexers hold the same hash just where they projected the same, block by
\* block: for any number of indexers, any tree of blocks, any projections and any
\* order of arrival, visits to other forks and undone blocks leave no trace, and
\* neither does the order in which events came (state_hash_next).
THEOREM OneHashPerHistoryHolds == Spec => []OneHashPerHistory
  <1>1. HashInv => OneHashPerHistory
    <2> SUFFICES ASSUME HashInv, NEW i \in Indexers, NEW j \in Indexers
                 PROVE  HashOf(i) = HashOf(j)
                          <=> [k \in DOMAIN chain[i] |-> Projected(i, chain[i][k])]
                                = [k \in DOMAIN chain[j] |-> Projected(j, chain[j][k])]
      BY DEF OneHashPerHistory
    <2> DEFINE c == chain[i]  d == chain[j]  g == hashes[i]  h == hashes[j]
               m == Len(c)  n == Len(d)
               F == [k \in DOMAIN c |-> Projected(i, c[k])]
               G == [k \in DOMAIN d |-> Projected(j, d[k])]
    <2>1. /\ c \in Seq(Blocks) /\ Chained(i, c, g)
          /\ d \in Seq(Blocks) /\ Chained(j, d, h)
      BY DEF HashInv
    <2>2. /\ m \in Nat /\ DOMAIN c = 1 .. m /\ IsSeq(g) /\ Len(g) = m
          /\ n \in Nat /\ DOMAIN d = 1 .. n /\ IsSeq(h) /\ Len(h) = n
      BY <2>1, LenProperties DEF Chained
    <2>3. /\ HashOf(i) = IF m = 0 THEN StateHashGenesis ELSE g[m]
          /\ HashOf(j) = IF n = 0 THEN StateHashGenesis ELSE h[n]
      BY <2>2, EmptyFacts DEF HashOf, Last
    <2>4. F = G <=> m = n /\ Alike(i, c, j, d, m)
      <3>1. ASSUME F = G PROVE m = n /\ Alike(i, c, j, d, m)
        <4>1. 1 .. m = 1 .. n
          <5>1. DOMAIN F = 1 .. m /\ DOMAIN G = 1 .. n
            BY <2>2
          <5> QED
            BY <3>1, <5>1
        <4>2. m = n
          BY <2>2, <4>1
        <4>3. ASSUME NEW k \in 1 .. m PROVE Projected(i, c[k]) = Projected(j, d[k])
          <5>1. F[k] = Projected(i, c[k]) /\ G[k] = Projected(j, d[k])
            BY <2>2, <4>2
          <5> QED
            BY <3>1, <5>1
        <4> QED
          BY <4>2, <4>3 DEF Alike
      <3>2. ASSUME m = n, Alike(i, c, j, d, m) PROVE F = G
        BY <2>2, <3>2 DEF Alike
      <3> QED
        BY <3>1, <3>2
    <2> HIDE DEF c, d, g, h, m, n, F, G
    <2>5. HashOf(i) = HashOf(j) <=> m = n /\ Alike(i, c, j, d, m)
      <3>1. m # 0 => m \in 1 .. m
        BY <2>2
      <3>2. n # 0 => n \in 1 .. n
        BY <2>2
      <3>3. CASE m = 0 /\ n = 0
        BY <2>3, <3>3 DEF Alike
      <3>4. CASE m = 0 /\ n # 0
        <4>1. h[n] # StateHashGenesis
          BY <2>1, <3>2, <3>4, NoLinkIsGenesis DEF n
        <4> QED
          BY <2>3, <3>4, <4>1
      <3>5. CASE m # 0 /\ n = 0
        <4>1. g[m] # StateHashGenesis
          BY <2>1, <3>1, <3>5, NoLinkIsGenesis DEF m
        <4> QED
          BY <2>3, <3>5, <4>1
      <3>6. CASE m # 0 /\ n # 0
        <4>1. ASSUME g[m] = h[n] PROVE m = n /\ Alike(i, c, j, d, m)
          BY <2>1, <3>1, <3>2, <3>6, <4>1, HashesTell DEF m, n
        <4>2. ASSUME m = n, Alike(i, c, j, d, m) PROVE g[m] = h[n]
          BY <2>1, <3>1, <3>2, <3>6, <4>2, AlikeHashes DEF m, n
        <4> QED
          BY <2>3, <3>6, <4>1, <4>2
      <3> QED
        BY <3>3, <3>4, <3>5, <3>6
    <2> QED
      BY <2>4, <2>5 DEF c, d, F, G
  <1> QED
    BY <1>1, AlwaysHashes, PTL

---------------------------------------------------------------------------
(* The implementation of StateLog.                                         *)

LEMMA LogIs ==
  ASSUME NEW i, NEW c, c \in Seq(Blocks)
  PROVE  /\ IsSeq(Log(i, c)) /\ Len(Log(i, c)) = Len(c) /\ DOMAIN Log(i, c) = 1 .. Len(c)
         /\ \A k \in 1 .. Len(c) :
              Log(i, c)[k] = [daa |-> Daa[c[k]], events |-> Projected(i, c[k])]
  <1> DEFINE l == Log(i, c)  n == Len(c)
  <1>1. n \in Nat /\ DOMAIN c = 1 .. n
    BY LenProperties
  <1>2. l = [k \in 1 .. n |-> l[k]]
    BY <1>1 DEF Log
  <1>3. \A k \in 1 .. n : l[k] = [daa |-> Daa[c[k]], events |-> Projected(i, c[k])]
    BY <1>1 DEF Log
  <1> HIDE DEF l, n
  <1>4. IsSeq(l) /\ Len(l) = n
    BY <1>1, <1>2, FunIsSeq
  <1> QED
    BY <1>2, <1>3, <1>4 DEF l, n

LEMMA LogFields ==
  ASSUME NEW i, NEW c, c \in Seq(Blocks)
  PROVE  /\ DOMAIN Log(i, c) = 1 .. Len(c)
         /\ \A k \in 1 .. Len(c) : /\ Log(i, c)[k].daa = Daa[c[k]]
                                  /\ Log(i, c)[k].events = Projected(i, c[k])
  <1> DEFINE l == Log(i, c)
  <1>1. /\ DOMAIN l = 1 .. Len(c)
        /\ \A k \in 1 .. Len(c) : l[k] = [daa |-> Daa[c[k]], events |-> Projected(i, c[k])]
    BY LogIs
  <1> HIDE DEF l
  <1>2. \A k \in 1 .. Len(c) : l[k].daa = Daa[c[k]] /\ l[k].events = Projected(i, c[k])
    BY <1>1
  <1> QED
    BY <1>1, <1>2 DEF l

LEMMA LogAppend ==
  ASSUME NEW i, NEW c \in Seq(Blocks), NEW b \in Blocks
  PROVE  Log(i, Append(c, b)) =
           Append(Log(i, c), [daa |-> Daa[b], events |-> Projected(i, b)])
  <1> DEFINE d == Append(c, b)
             x == [daa |-> Daa[b], events |-> Projected(i, b)]
             s == Log(i, d)
             t == Append(Log(i, c), x)
  <1>1. /\ d \in Seq(Blocks) /\ Len(d) = Len(c) + 1 /\ Len(c) \in Nat
        /\ \A k \in 1 .. Len(c) : d[k] = c[k]
        /\ d[Len(c) + 1] = b
    BY AppendProperties, LenProperties
  <1>2. /\ IsSeq(s) /\ Len(s) = Len(c) + 1
        /\ \A k \in 1 .. Len(c) + 1 :
             s[k] = [daa |-> Daa[d[k]], events |-> Projected(i, d[k])]
    <2> HIDE DEF d
    <2>1. /\ IsSeq(s) /\ Len(s) = Len(d)
          /\ \A k \in 1 .. Len(d) :
               s[k] = [daa |-> Daa[d[k]], events |-> Projected(i, d[k])]
      BY <1>1, LogIs
    <2> QED
      BY <1>1, <2>1
  <1>3. /\ IsSeq(t) /\ Len(t) = Len(c) + 1
        /\ \A k \in 1 .. Len(c) : t[k] = Log(i, c)[k]
        /\ t[Len(c) + 1] = x
    BY LogIs, SeqAppend
  <1> HIDE DEF d, s, t
  <1>4. ASSUME NEW k \in 1 .. Len(c) + 1 PROVE s[k] = t[k]
    <2>1. CASE k \in 1 .. Len(c)
      BY <1>1, <1>2, <1>3, <2>1, LogIs
    <2>2. CASE k \notin 1 .. Len(c)
      <3>1. k = Len(c) + 1
        BY <1>1, <2>2
      <3> QED
        BY <1>1, <1>2, <1>3, <3>1
    <2> QED
      BY <2>1, <2>2
  <1>5. s = t
    BY <1>2, <1>3, <1>4, SeqSame
  <1> QED
    BY <1>5 DEF s, t, d

LEMMA LogFront ==
  ASSUME NEW i, NEW c \in Seq(Blocks), c # <<>>, Front(c) \in Seq(Blocks)
  PROVE  /\ Log(i, Front(c)) = SubSeq(Log(i, c), 1, Len(Log(i, c)) - 1)
         /\ Log(i, c) # <<>>
  <1> DEFINE d == Front(c)
             s == Log(i, d)
             t == Front(Log(i, c))
             n == Len(c) - 1
  <1>1. /\ IsSeq(c) /\ Len(d) = n /\ \A k \in 1 .. n : d[k] = c[k]
        /\ n \in Nat /\ \A k \in 1 .. n : k \in 1 .. Len(c)
    <2>1. IsSeq(c)
      BY SeqIsSeq
    <2>2. n \in Nat /\ \A k \in 1 .. n : k \in 1 .. Len(c)
      BY <2>1, EmptyFacts, SeqLen
    <2> QED
      BY <2>1, <2>2, FrontIs
  <1>2. /\ IsSeq(s) /\ Len(s) = n
        /\ \A k \in 1 .. n : s[k] = [daa |-> Daa[d[k]], events |-> Projected(i, d[k])]
    BY <1>1, LogIs
  <1>3. IsSeq(Log(i, c)) /\ Len(Log(i, c)) = Len(c) /\ Log(i, c) # <<>>
    <2>1. IsSeq(Log(i, c)) /\ Len(Log(i, c)) = Len(c) /\ Len(c) # 0
      BY <1>1, LogIs, EmptyFacts
    <2> QED
      BY <2>1, EmptyFacts
  <1>4. IsSeq(t) /\ Len(t) = n /\ \A k \in 1 .. n : t[k] = Log(i, c)[k]
    BY <1>3, FrontIs
  <1>5. ASSUME NEW k \in 1 .. n
        PROVE Log(i, c)[k] = [daa |-> Daa[c[k]], events |-> Projected(i, c[k])]
    BY <1>1, LogIs
  <1> HIDE DEF d, s, t, n
  <1>6. s = t
    BY <1>1, <1>2, <1>4, <1>5, SeqSame
  <1> QED
    BY <1>3, <1>6 DEF s, t, d, Front

\* DAA scores rise along a path, so each names one of its blocks.
LEMMA DaaRises ==
  ASSUME NEW c, Path(c), NEW k \in 1 .. Len(c), NEW l \in 1 .. Len(c), k < l
  PROVE  Daa[c[k]] < Daa[c[l]]
  <1> DEFINE n == Len(c)
             A == {x \in 0 .. n : k < x /\ ~ (Daa[c[k]] < Daa[c[x]])}
  <1>1. n \in Nat
    BY LenProperties DEF Path
  <1>2. \A x \in 1 .. n : c[x] \in Blocks /\ Daa[c[x]] \in Nat
    BY ElementOfSeq, BlocksAssumption DEF Path
  <1>3. A = {}
    <2> SUFFICES ASSUME A # {} PROVE FALSE
      OBVIOUS
    <2>1. PICK a \in A : \A b \in A : a <= b
      <3>1. A \in SUBSET (0 .. n)
        OBVIOUS
      <3> HIDE DEF A
      <3> QED
        BY <1>1, <3>1, LeastIn
    <2>2. a \in 1 .. n /\ a - 1 \in 1 .. n /\ a - 1 \in 0 .. n /\ k <= a - 1 /\ a # 1
      BY <1>1
    <2>3. Parent[c[a]] = c[a - 1]
      BY <2>2 DEF Path
    <2>4. Daa[c[a - 1]] < Daa[c[a]]
      BY <1>2, <2>2, <2>3, BlocksAssumption
    <2>5. CASE a - 1 = k
      BY <2>4, <2>5
    <2>6. CASE a - 1 # k
      <3>1. k < a - 1 /\ a - 1 \notin A
        BY <2>1, <2>2, <2>6
      <3>2. Daa[c[k]] < Daa[c[a - 1]]
        BY <2>2, <3>1
      <3>3. Daa[c[k]] < Daa[c[a]]
        BY <1>2, <2>2, <2>4, <3>2
      <3> QED
        BY <3>3
    <2> QED
      BY <2>5, <2>6
  <1>4. l \in 0 .. n
    BY <1>1
  <1> QED
    BY <1>3, <1>4

LEMMA DaaNames ==
  ASSUME NEW c, Path(c), NEW k \in 1 .. Len(c), NEW l \in 1 .. Len(c),
         Daa[c[k]] = Daa[c[l]]
  PROVE  k = l
  <1>1. Daa[c[k]] \in Nat /\ Daa[c[l]] \in Nat
    BY ElementOfSeq, BlocksAssumption DEF Path
  <1>2. ~ (k < l) /\ ~ (l < k)
    BY <1>1, DaaRises
  <1> QED
    BY <1>2, LenProperties DEF Path

LEMMA ReachesIs ==
  ASSUME NEW i, NEW c, Path(c), NEW d
  PROVE  Abstract!Reaches(Log(i, c), d) <=> \E k \in 1 .. Len(c) : Daa[c[k]] = d
  <1> DEFINE l == Log(i, c)
  <1>1. DOMAIN l = 1 .. Len(c) /\ \A k \in 1 .. Len(c) : l[k].daa = Daa[c[k]]
    BY LogFields DEF Path
  <1> HIDE DEF l
  <1>2. Abstract!Reaches(l, d) <=> \E k \in 1 .. Len(c) : Daa[c[k]] = d
    BY <1>1 DEF Abstract!Reaches
  <1> QED
    BY <1>2 DEF l

LEMMA HistoryIs ==
  ASSUME NEW i, NEW c, Path(c), NEW k \in 1 .. Len(c)
  PROVE  Abstract!History(Log(i, c), Daa[c[k]]) = [x \in 1 .. k |-> Projected(i, c[x])]
  <1> DEFINE l == Log(i, c)
             d == Daa[c[k]]
             n == CHOOSE x \in DOMAIN l : l[x].daa = d
  <1>1. /\ DOMAIN l = 1 .. Len(c)
        /\ \A x \in 1 .. Len(c) : l[x].daa = Daa[c[x]] /\ l[x].events = Projected(i, c[x])
    BY LogFields DEF Path
  <1> HIDE DEF l
  <1>2. n \in 1 .. Len(c) /\ l[n].daa = d
    BY <1>1
  <1>3. n = k
    <2> HIDE DEF n
    <2> QED
      BY <1>1, <1>2, DaaNames
  <1>4. Abstract!History(l, d) = [x \in 1 .. n |-> l[x].events]
    BY DEF Abstract!History
  <1> HIDE DEF n, d
  <1>5. \A x \in 1 .. k : l[x].events = Projected(i, c[x])
    <2>1. \A x \in 1 .. k : x \in 1 .. Len(c)
      BY LenProperties DEF Path
    <2> QED
      BY <1>1, <2>1
  <1>6. [x \in 1 .. k |-> l[x].events] = [x \in 1 .. k |-> Projected(i, c[x])]
    BY <1>5
  <1> QED
    BY <1>3, <1>4, <1>6 DEF l, d

\* Histories up to blocks k and m are the same just where k is m and what was
\* projected up to there is alike.
LEMMA SameHistories ==
  ASSUME NEW i, NEW c, NEW j, NEW d, NEW k \in Nat, NEW m \in Nat
  PROVE  [x \in 1 .. k |-> Projected(i, c[x])] = [x \in 1 .. m |-> Projected(j, d[x])]
           <=> k = m /\ Alike(i, c, j, d, k)
  <1> DEFINE F == [x \in 1 .. k |-> Projected(i, c[x])]
             G == [x \in 1 .. m |-> Projected(j, d[x])]
  <1>1. ASSUME F = G PROVE k = m /\ Alike(i, c, j, d, k)
    <2>1. 1 .. k = 1 .. m
      <3>1. DOMAIN F = 1 .. k /\ DOMAIN G = 1 .. m
        OBVIOUS
      <3> QED
        BY <1>1, <3>1
    <2>2. k = m
      BY <2>1
    <2>3. ASSUME NEW x \in 1 .. k PROVE Projected(i, c[x]) = Projected(j, d[x])
      <3>1. F[x] = Projected(i, c[x]) /\ G[x] = Projected(j, d[x])
        BY <2>2
      <3> QED
        BY <1>1, <3>1
    <2> QED
      BY <2>2, <2>3 DEF Alike
  <1>2. ASSUME k = m, Alike(i, c, j, d, k) PROVE F = G
    BY <1>2 DEF Alike
  <1> QED
    BY <1>1, <1>2

Replies == [i \in Indexers |-> Log(i, asked[i])]

\* Where the hashes of all converge is where all their histories agree.
LEMMA ConvergedIsAgreed ==
  ASSUME HashInv, Indexers # {}
  PROVE  Converged = Abstract!Agreed
  <1> DEFINE Stands(i, k, d) == k \in 1 .. Len(asked[i]) /\ Daa[asked[i][k]] = d
  <1>1. PICK w : \A i \in Indexers :
          Chained(i, asked[i], w[i]) /\ answer[i] = Answered(asked[i], w[i])
    <2> DEFINE W(i) == CHOOSE h : Chained(i, asked[i], h) /\ answer[i] = Answered(asked[i], h)
               v == [i \in Indexers |-> W(i)]
    <2>1. \A i \in Indexers :
            Chained(i, asked[i], W(i)) /\ answer[i] = Answered(asked[i], W(i))
      BY DEF HashInv
    <2> HIDE DEF W
    <2>2. \A i \in Indexers :
            Chained(i, asked[i], v[i]) /\ answer[i] = Answered(asked[i], v[i])
      BY <2>1
    <2> HIDE DEF v
    <2> QED
      BY <2>2
  <1>2. \A i \in Indexers : /\ Path(asked[i]) /\ asked[i] \in Seq(Blocks)
                            /\ DOMAIN asked[i] = 1 .. Len(asked[i]) /\ Len(asked[i]) \in Nat
    BY LenProperties DEF HashInv, Path
  <1>3. ASSUME NEW i \in Indexers, NEW s, s \in answer[i]
        PROVE  \E k : Stands(i, k, s.daa) /\ s = [daa |-> s.daa, hash |-> w[i][k]]
    <2>1. PICK k \in 1 .. Len(asked[i]) : s = [daa |-> Daa[asked[i][k]], hash |-> w[i][k]]
      BY <1>1, <1>2, <1>3 DEF Answered
    <2>2. s.daa = Daa[asked[i][k]]
      BY <2>1
    <2> QED
      BY <2>1, <2>2
  <1>4. ASSUME NEW i \in Indexers, NEW k, NEW d, Stands(i, k, d)
        PROVE  /\ [daa |-> d, hash |-> w[i][k]] \in answer[i]
               /\ d \in Range(Daa)
               /\ Abstract!Reaches(Log(i, asked[i]), d)
               /\ Abstract!History(Log(i, asked[i]), d)
                    = [x \in 1 .. k |-> Projected(i, asked[i][x])]
    <2>1. [daa |-> d, hash |-> w[i][k]] \in answer[i]
      BY <1>1, <1>2, <1>4 DEF Answered
    <2>2. d \in Range(Daa)
      <3>1. asked[i][k] \in Blocks
        BY <1>2, <1>4, ElementOfSeq
      <3>2. DOMAIN Daa = Blocks
        BY BlocksAssumption
      <3> QED
        BY <1>4, <3>1, <3>2 DEF Range
    <2>3. Abstract!Reaches(Log(i, asked[i]), d)
      BY <1>2, <1>4, ReachesIs
    <2>4. Abstract!History(Log(i, asked[i]), d) = [x \in 1 .. k |-> Projected(i, asked[i][x])]
      BY <1>2, <1>4, HistoryIs
    <2> QED
      BY <2>1, <2>2, <2>3, <2>4
  <1>5. \A d : d \in Abstract!Agreed <=>
          /\ d \in Range(Daa)
          /\ \A i \in Indexers : Abstract!Reaches(Log(i, asked[i]), d)
          /\ \A i, j \in Indexers : Abstract!History(Log(i, asked[i]), d)
                                      = Abstract!History(Log(j, asked[j]), d)
    <2>1. \A i \in Indexers : Replies[i] = Log(i, asked[i])
      BY DEF Replies
    <2>2. Abstract!Agreed =
            {d \in Range(Daa) :
               /\ \A i \in Indexers : Abstract!Reaches(Replies[i], d)
               /\ \A i, j \in Indexers :
                    Abstract!History(Replies[i], d) = Abstract!History(Replies[j], d)}
      BY DEF Abstract!Agreed, Replies
    <2> QED
      BY <2>1, <2>2
  <1>6. PICK i \in Indexers : TRUE
    OBVIOUS
  <1>7. ASSUME NEW d \in Converged PROVE d \in Abstract!Agreed
    <2>1. PICK s : s.daa = d /\ \A j \in Indexers : s \in answer[j]
      BY DEF Converged
    <2>2. ASSUME NEW j \in Indexers
          PROVE  \E k : Stands(j, k, d) /\ s = [daa |-> d, hash |-> w[j][k]]
      BY <1>3, <2>1
    <2>3. ASSUME NEW x \in Indexers, NEW y \in Indexers
          PROVE  Abstract!History(Log(x, asked[x]), d) = Abstract!History(Log(y, asked[y]), d)
      <3>1. PICK k : Stands(x, k, d) /\ s = [daa |-> d, hash |-> w[x][k]]
        BY <2>2
      <3>2. PICK m : Stands(y, m, d) /\ s = [daa |-> d, hash |-> w[y][m]]
        BY <2>2
      <3>3. w[x][k] = w[y][m]
        <4>1. s.hash = w[x][k] /\ s.hash = w[y][m]
          BY <3>1, <3>2
        <4> QED
          BY <4>1
      <3>4. k = m /\ Alike(x, asked[x], y, asked[y], k)
        BY <1>1, <1>2, <3>1, <3>2, <3>3, HashesTell
      <3>5. k \in Nat /\ m \in Nat
        BY <1>2, <3>1, <3>2
      <3>6. [a \in 1 .. k |-> Projected(x, asked[x][a])]
              = [a \in 1 .. m |-> Projected(y, asked[y][a])]
        BY <3>4, <3>5, SameHistories
      <3>7. /\ Abstract!History(Log(x, asked[x]), d) = [a \in 1 .. k |-> Projected(x, asked[x][a])]
            /\ Abstract!History(Log(y, asked[y]), d) = [a \in 1 .. m |-> Projected(y, asked[y][a])]
        BY <1>4, <3>1, <3>2
      <3> QED
        BY <3>6, <3>7
    <2> QED
      BY <1>4, <1>5, <1>6, <2>2, <2>3
  <1>8. ASSUME NEW d \in Abstract!Agreed PROVE d \in Converged
    <2>1. \A j \in Indexers : \E k : Stands(j, k, d)
      BY <1>2, <1>5, <1>8, ReachesIs
    <2>2. PICK k : Stands(i, k, d)
      BY <2>1
    <2> DEFINE s == [daa |-> d, hash |-> w[i][k]]
    <2>3. ASSUME NEW j \in Indexers PROVE s \in answer[j]
      <3>1. PICK m : Stands(j, m, d)
        BY <2>1
      <3>2. k \in Nat /\ m \in Nat
        BY <1>2, <2>2, <3>1
      <3>3. k = m /\ Alike(i, asked[i], j, asked[j], k)
        <4>1. Abstract!History(Log(i, asked[i]), d) = Abstract!History(Log(j, asked[j]), d)
          BY <1>5, <1>8
        <4>2. /\ Abstract!History(Log(i, asked[i]), d) = [a \in 1 .. k |-> Projected(i, asked[i][a])]
              /\ Abstract!History(Log(j, asked[j]), d) = [a \in 1 .. m |-> Projected(j, asked[j][a])]
          BY <1>4, <2>2, <3>1
        <4>3. [a \in 1 .. k |-> Projected(i, asked[i][a])]
                = [a \in 1 .. m |-> Projected(j, asked[j][a])]
          BY <4>1, <4>2
        <4> QED
          BY <3>2, <4>3, SameHistories
      <3>4. w[i][k] = w[j][k]
        BY <1>1, <1>2, <2>2, <3>1, <3>3, AlikeHashes
      <3> QED
        BY <1>4, <3>1, <3>3, <3>4
    <2>4. s \in UNION Range(answer)
      <3>1. answer[i] \in Range(answer)
        <4>1. DOMAIN answer = Indexers
          BY DEF HashInv
        <4> QED
          BY <4>1 DEF Range
      <3> QED
        BY <2>3, <3>1
    <2>5. s.daa = d
      OBVIOUS
    <2> HIDE DEF s
    <2> QED
      BY <2>3, <2>4, <2>5 DEF Converged
  <1> QED
    BY <1>7, <1>8

---------------------------------------------------------------------------
(* Each step maps to a step of StateLog.                                   *)

Logs == [i \in Indexers |-> Log(i, chain[i])]

LogStep == [Abstract!Next]_(Abstract!vars)

LEMMA LogsAre ==
  ASSUME HashInv, NEW i \in Indexers
  PROVE  Logs[i] = Log(i, chain[i]) /\ Path(chain[i]) /\ chain[i] \in Seq(Blocks)
  BY DEF Logs, HashInv

LEMMA LogsInit == Init => Abstract!Init
  <1> SUFFICES ASSUME Init PROVE Abstract!Init
    OBVIOUS
  <1>1. ASSUME NEW i PROVE Log(i, <<>>) = <<>>
    <2>1. <<>> \in Seq(Blocks) /\ Len(<<>>) = 0
      BY EmptySeq
    <2>2. IsSeq(Log(i, <<>>)) /\ Len(Log(i, <<>>)) = 0
      BY <2>1, LogIs
    <2> QED
      BY <2>2, EmptyFacts
  <1>2. \A i \in Indexers : chain[i] = <<>> /\ asked[i] = <<>>
    BY DEF Init
  <1>3. /\ [i \in Indexers |-> Log(i, chain[i])] = [i \in Indexers |-> <<>>]
        /\ [i \in Indexers |-> Log(i, asked[i])] = [i \in Indexers |-> <<>>]
    BY <1>1, <1>2
  <1>4. tip = 0
    BY DEF Init
  <1> QED
    BY <1>3, <1>4 DEF Abstract!Init

LEMMA AdvanceLogs ==
  ASSUME HashInv, NEW i \in Indexers, NEW b \in Blocks, Advance(i, b)
  PROVE  Abstract!Advance(i)
  <1> DEFINE c == chain[i]  n == Len(c)  x == [daa |-> Daa[b], events |-> Projected(i, b)]
  <1>1. Path(c) /\ c \in Seq(Blocks) /\ n \in Nat /\ Logs[i] = Log(i, c)
    BY LogsAre, LenProperties
  <1>2. Path(Append(c, b)) /\ chain' = [chain EXCEPT ![i] = Append(c, b)]
    BY <1>1, PathAppend DEF Advance, TipOf
  <1>3. Daa[b] \in Range(Daa)
    BY BlocksAssumption DEF Range
  <1>4. Projected(i, b) \in {Projected(j, u) : j \in Indexers, u \in Blocks}
    OBVIOUS
  <1>5. \A k \in DOMAIN Logs[i] : Logs[i][k].daa < Daa[b]
    <2> DEFINE d == Append(c, b)
    <2>1. /\ Len(d) = n + 1 /\ d[n + 1] = b /\ \A k \in 1 .. n : d[k] = c[k]
      BY <1>1, AppendProperties
    <2>2. DOMAIN Logs[i] = 1 .. n /\ \A k \in 1 .. n : Logs[i][k].daa = Daa[c[k]]
      BY <1>1, LogFields
    <2> HIDE DEF d, c, n
    <2>3. ASSUME NEW k \in 1 .. n PROVE Daa[c[k]] < Daa[b]
      <3>1. k \in 1 .. n + 1 /\ n + 1 \in 1 .. n + 1 /\ k < n + 1
        BY <1>1
      <3>2. Daa[d[k]] < Daa[d[n + 1]]
        BY <1>2, <2>1, <3>1, DaaRises DEF d
      <3> QED
        BY <2>1, <3>2
    <2> QED
      BY <2>2, <2>3
  <1>6. Logs' = [Logs EXCEPT ![i] = Append(@, x)]
    <2>1. Log(i, Append(c, b)) = Append(Logs[i], x)
      BY <1>1, LogAppend
    <2>2. chain'[i] = Append(c, b) /\ \A j \in Indexers : j # i => chain'[j] = chain[j]
      BY <1>2 DEF HashInv
    <2> HIDE DEF c, x
    <2>3. \A j \in Indexers :
            Log(j, chain'[j]) = IF j = i THEN Append(Logs[i], x) ELSE Logs[j]
      BY <2>1, <2>2 DEF Logs
    <2>4. Logs' = [j \in Indexers |-> Log(j, chain'[j])]
      BY DEF Logs, Log, Projected
    <2>5. DOMAIN Logs = Indexers
      BY DEF Logs
    <2> HIDE DEF Logs
    <2> QED
      BY <2>3, <2>4, <2>5
  <1>7. UNCHANGED <<asked, tip>>
    BY DEF Advance
  <1>8. UNCHANGED <<Replies, tip>>
    BY <1>7 DEF Replies, Log, Projected
  <1> HIDE DEF x
  <1> DEFINE Holds(d, E) == /\ \A k \in DOMAIN Logs[i] : Logs[i][k].daa < d
                            /\ Logs' = [Logs EXCEPT ![i] = Append(@, [daa |-> d, events |-> E])]
  <1>9. Holds(Daa[b], Projected(i, b))
    BY <1>5, <1>6 DEF x
  <1>10. Abstract!Advance(i) <=>
           /\ \E d \in Range(Daa), E \in {Projected(j, u) : j \in Indexers, u \in Blocks} :
                Holds(d, E)
           /\ UNCHANGED <<Replies, tip>>
    BY DEF Abstract!Advance, Logs, Replies
  <1> HIDE DEF Holds
  <1> QED
    BY <1>3, <1>4, <1>8, <1>9, <1>10

LEMMA UndoLogs ==
  ASSUME HashInv, NEW i \in Indexers, Undo(i)
  PROVE  Abstract!Undo(i)
  <1> DEFINE c == chain[i]
  <1>1. /\ c \in Seq(Blocks) /\ c # <<>> /\ Logs[i] = Log(i, c) /\ Path(c)
        /\ chain' = [chain EXCEPT ![i] = Front(c)]
    BY LogsAre DEF Undo
  <1>2. Front(c) \in Seq(Blocks)
    BY <1>1, PathFront DEF Path
  <1>3. Log(i, Front(c)) = SubSeq(Logs[i], 1, Len(Logs[i]) - 1) /\ Logs[i] # <<>>
    BY <1>1, <1>2, LogFront
  <1>4. Logs' = [Logs EXCEPT ![i] = SubSeq(@, 1, Len(@) - 1)]
    <2> DEFINE x == SubSeq(Logs[i], 1, Len(Logs[i]) - 1)
    <2>1. chain'[i] = Front(c) /\ \A j \in Indexers : j # i => chain'[j] = chain[j]
      BY <1>1 DEF HashInv
    <2>2. Log(i, Front(c)) = x
      BY <1>3
    <2> HIDE DEF c, x
    <2>3. \A j \in Indexers : Log(j, chain'[j]) = IF j = i THEN x ELSE Logs[j]
      BY <2>1, <2>2 DEF Logs
    <2>4. Logs' = [j \in Indexers |-> Log(j, chain'[j])] /\ DOMAIN Logs = Indexers
      BY DEF Logs, Log, Projected
    <2>5. Logs = [j \in Indexers |-> Logs[j]]
      BY DEF Logs
    <2> HIDE DEF Logs
    <2>6. Logs' = [Logs EXCEPT ![i] = x]
      BY <2>3, <2>4, <2>5
    <2> QED
      BY <2>6 DEF x
  <1>5. UNCHANGED <<Replies, tip>>
    BY DEF Undo, Replies, Log, Projected
  <1>6. Abstract!Undo(i) <=>
          /\ Logs[i] # <<>>
          /\ Logs' = [Logs EXCEPT ![i] = SubSeq(@, 1, Len(@) - 1)]
          /\ UNCHANGED <<Replies, tip>>
    BY DEF Abstract!Undo, Logs, Replies
  <1> QED
    BY <1>3, <1>4, <1>5, <1>6

LEMMA QueryLogs ==
  ASSUME HashInv, NEW i \in Indexers, Query(i)
  PROVE  Abstract!Query(i)
  <1>1. Replies' = [Replies EXCEPT ![i] = Logs[i]]
    <2>1. asked'[i] = chain[i] /\ \A j \in Indexers : j # i => asked'[j] = asked[j]
      BY DEF HashInv, Query
    <2>2. \A j \in Indexers : Log(j, asked'[j]) = IF j = i THEN Logs[i] ELSE Replies[j]
      BY <2>1 DEF Logs, Replies
    <2>3. /\ Replies' = [j \in Indexers |-> Log(j, asked'[j])]
          /\ Replies = [j \in Indexers |-> Replies[j]]
      BY DEF Replies, Log, Projected
    <2> HIDE DEF Logs, Replies
    <2> QED
      BY <2>2, <2>3
  <1>2. UNCHANGED <<Logs, tip>>
    BY DEF Query, Logs, Log, Projected
  <1>3. Abstract!Query(i) <=>
          /\ Replies' = [Replies EXCEPT ![i] = Logs[i]]
          /\ UNCHANGED <<Logs, tip>>
    BY DEF Abstract!Query, Logs, Replies
  <1> QED
    BY <1>1, <1>2, <1>3

LEMMA ConfirmLogs ==
  ASSUME HashInv, Confirm
  PROVE  Abstract!Confirm
  <1>1. Indexers # {}
    <2>1. PICK s : s \in UNION Range(answer)
      BY DEF Confirm, Converged
    <2>2. DOMAIN answer = Indexers
      BY DEF HashInv
    <2> QED
      BY <2>1, <2>2 DEF Range
  <1>2. Abstract!Agreed # {} /\ tip' = Max(Abstract!Agreed)
    BY <1>1, ConvergedIsAgreed DEF Confirm
  <1>3. UNCHANGED <<Logs, Replies>>
    BY DEF Confirm, Logs, Replies, Log, Projected
  <1>4. Max(Abstract!Agreed) = Abstract!Max(Abstract!Agreed)
    BY DEF Max, Abstract!Max
  <1>5. Abstract!Confirm <=>
          /\ Abstract!Agreed # {}
          /\ tip' = Abstract!Max(Abstract!Agreed)
          /\ UNCHANGED <<Logs, Replies>>
    BY DEF Abstract!Confirm, Logs, Replies
  <1> QED
    BY <1>2, <1>3, <1>4, <1>5

LEMMA LogSteps == HashInv /\ [Next]_vars => LogStep
  <1> SUFFICES ASSUME HashInv, [Next]_vars PROVE LogStep
    OBVIOUS
  <1>1. ASSUME NEW i \in Indexers, NEW b \in Blocks, Advance(i, b) PROVE LogStep
    BY <1>1, AdvanceLogs DEF LogStep, Abstract!Next
  <1>2. ASSUME NEW i \in Indexers, Undo(i) PROVE LogStep
    BY <1>2, UndoLogs DEF LogStep, Abstract!Next
  <1>3. ASSUME NEW i \in Indexers, Query(i) PROVE LogStep
    BY <1>3, QueryLogs DEF LogStep, Abstract!Next
  <1>4. ASSUME Confirm PROVE LogStep
    BY <1>4, ConfirmLogs DEF LogStep, Abstract!Next
  <1>5. CASE UNCHANGED vars
    <2>1. UNCHANGED <<Logs, Replies, tip>>
      BY <1>5 DEF vars, Logs, Replies, Log, Projected
    <2> QED
      BY <2>1 DEF LogStep, Abstract!vars, Logs, Replies
  <1> QED
    BY <1>1, <1>2, <1>3, <1>4, <1>5 DEF Next

\* One hash for each block tells a client as much as whole histories would: for
\* any number of indexers, any tree of blocks and any projections, it confirms
\* exactly the DAA scores up to which all of them projected the same events,
\* block by block, whatever order events came in and whatever was undone in
\* between (state_hash_next).
THEOREM ImplementsStateLogHolds == Spec => ImplementsStateLog
  <1>1. Spec => Abstract!Init /\ [][Abstract!Next]_(Abstract!vars)
    BY AlwaysHashes, LogsInit, LogSteps, PTL DEF Spec, LogStep
  <1> QED
    BY <1>1 DEF ImplementsStateLog, Abstract!Spec
=============================================================================
