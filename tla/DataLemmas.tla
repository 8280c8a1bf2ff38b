----------------------------- MODULE DataLemmas -----------------------------
(***************************************************************************)
(* Lemmas on the data the proofs share, of no component in particular:     *)
(* least numbers and smallest sets, from which every induction of the      *)
(* proofs is made, sequences, and sums over finite sets.                   *)
(***************************************************************************)
EXTENDS Integers, FiniteSetTheorems, SequenceTheorems, WellFoundedInduction, TLAPS

---------------------------------------------------------------------------
(* Induction over an interval: every non-empty part of one has a least     *)
(* number, so a claim with no least counterexample holds.                  *)

LEMMA LeastIn ==
  ASSUME NEW n \in Nat, NEW A \in SUBSET (0 .. n), A # {}
  PROVE  \E a \in A : \A b \in A : a <= b
  <1> DEFINE S == 0 .. n
             B == {0 .. a : a \in A}
  <1>1. IsFiniteSet(S)
    BY FS_Interval
  <1>2. IsWellFoundedOn(StrictSubsetOrdering(S), SUBSET S)
    BY <1>1, FS_StrictSubsetOrderingWellFounded, FS_FiniteSubsetsOfFinite
  <1>3. B \subseteq SUBSET S /\ B # {}
    <2>1. ASSUME NEW a \in A PROVE 0 .. a \in SUBSET S
      OBVIOUS
    <2> HIDE DEF S
    <2> QED
      BY <2>1
  <1>4. \E T \in B : \A U \in B : ~ (<<U, T>> \in StrictSubsetOrdering(S))
    <2> HIDE DEF B, S
    <2> QED
      BY <1>2, <1>3, WFMin
  <1>5. PICK a \in A : \A U \in B : ~ (<<U, 0 .. a>> \in StrictSubsetOrdering(S))
    BY <1>4
  <1>6. ASSUME NEW b \in A PROVE a <= b
    <2> SUFFICES ASSUME b < a PROVE FALSE
      OBVIOUS
    <2>1. a \in 0 .. b => a <= b
      OBVIOUS
    <2>2. 0 .. b \subseteq 0 .. a /\ a \in 0 .. a /\ a \notin 0 .. b
      BY <2>1
    <2>3. 0 .. b \in SUBSET S /\ 0 .. a \in SUBSET S /\ 0 .. b # 0 .. a
      BY <2>2
    <2>4. <<0 .. b, 0 .. a>> \in StrictSubsetOrdering(S)
      BY <2>2, <2>3 DEF StrictSubsetOrdering
    <2> QED
      BY <1>5, <2>4
  <1> QED
    BY <1>6

---------------------------------------------------------------------------
(* Sequences whose elements are of no type in particular.                  *)

IsSeq(s) == s \in Seq({s[i] : i \in DOMAIN s})

LEMMA SeqIsSeq ==
  ASSUME NEW S, NEW s \in Seq(S)
  PROVE  IsSeq(s)
  <1>1. /\ DOMAIN s = 1 .. Len(s) /\ Len(s) \in Nat
        /\ s \in [1 .. Len(s) -> S]
    BY LenProperties
  <1> DEFINE R == {s[i] : i \in DOMAIN s}
  <1>2. s \in [1 .. Len(s) -> R]
    BY <1>1
  <1> HIDE DEF R
  <1>3. s \in Seq(R)
    BY <1>1, <1>2, SeqDef
  <1> QED
    BY <1>3 DEF R, IsSeq

LEMMA SeqLen ==
  ASSUME NEW s, IsSeq(s)
  PROVE  /\ Len(s) \in Nat
         /\ DOMAIN s = 1 .. Len(s)
  BY LenProperties DEF IsSeq

LEMMA SeqSame ==
  ASSUME NEW s, NEW t, IsSeq(s), IsSeq(t), Len(s) = Len(t),
         \A i \in 1 .. Len(s) : s[i] = t[i]
  PROVE  s = t
  <1> DEFINE S == {s[i] : i \in DOMAIN s}
             T == {t[i] : i \in DOMAIN t}
  <1>1. s \in Seq(S) /\ t \in Seq(T)
    BY DEF IsSeq
  <1> HIDE DEF S, T
  <1>2. s \in Seq(S \cup T) /\ t \in Seq(S \cup T)
    BY <1>1, SeqMonotonic
  <1> QED
    BY <1>2, SeqEqual

\* u is s followed by t.
IsCat(s, t, u) ==
  /\ IsSeq(u)
  /\ Len(u) = Len(s) + Len(t)
  /\ \A i \in 1 .. Len(s) : u[i] = s[i]
  /\ \A i \in 1 .. Len(t) : u[Len(s) + i] = t[i]

LEMMA SeqCat ==
  ASSUME NEW s, NEW t, IsSeq(s), IsSeq(t)
  PROVE  IsCat(s, t, s \o t)
  <1> DEFINE S == {s[i] : i \in DOMAIN s}
             T == {t[i] : i \in DOMAIN t}
  <1>1. s \in Seq(S) /\ t \in Seq(T)
    BY DEF IsSeq
  <1> HIDE DEF S, T
  <1>2. s \in Seq(S \cup T) /\ t \in Seq(S \cup T)
    BY <1>1, SeqMonotonic
  <1>3. /\ s \o t \in Seq(S \cup T)
        /\ Len(s \o t) = Len(s) + Len(t)
        /\ \A i \in 1 .. Len(s) + Len(t) : (s \o t)[i] =
                     IF i <= Len(s) THEN s[i] ELSE t[i - Len(s)]
    BY <1>2, ConcatProperties
  <1>4. Len(s) \in Nat /\ Len(t) \in Nat
    BY SeqLen
  <1>5. IsSeq(s \o t)
    BY <1>3, SeqIsSeq
  <1>6. ASSUME NEW i \in 1 .. Len(s) PROVE (s \o t)[i] = s[i]
    BY <1>3, <1>4
  <1>7. ASSUME NEW i \in 1 .. Len(t) PROVE (s \o t)[Len(s) + i] = t[i]
    <2>1. /\ Len(s) + i \in 1 .. Len(s) + Len(t)
          /\ ~ (Len(s) + i <= Len(s)) /\ Len(s) + i - Len(s) = i
      BY <1>4
    <2> QED
      BY <1>3, <2>1
  <1> QED
    BY <1>3, <1>5, <1>6, <1>7 DEF IsCat

LEMMA SeqPart ==
  ASSUME NEW s, IsSeq(s), NEW m \in Nat \ {0}, NEW n \in Nat, m <= n + 1, n <= Len(s)
  PROVE  /\ IsSeq(SubSeq(s, m, n))
         /\ Len(SubSeq(s, m, n)) = n - m + 1
         /\ \A i \in 1 .. n - m + 1 : SubSeq(s, m, n)[i] = s[m + i - 1]
  <1> DEFINE S == {s[i] : i \in DOMAIN s}
  <1>1. s \in Seq(S)
    BY DEF IsSeq
  <1> HIDE DEF S
  <1>2. \A i \in m .. n : s[i] \in S
    BY <1>1, ElementOfSeq, SeqLen
  <1>3. /\ SubSeq(s, m, n) \in Seq(S)
        /\ Len(SubSeq(s, m, n)) = IF m <= n THEN n - m + 1 ELSE 0
        /\ \A i \in 1 .. n - m + 1 : SubSeq(s, m, n)[i] = s[m + i - 1]
    BY <1>2, SubSeqProperties
  <1>4. IsSeq(SubSeq(s, m, n))
    BY <1>3, SeqIsSeq
  <1> QED
    BY <1>3, <1>4

\* Two parts that touch are one part.
LEMMA SeqParts ==
  ASSUME NEW s, IsSeq(s), NEW m \in Nat \ {0}, NEW k \in Nat, NEW n \in Nat,
         m <= k + 1, k <= n, n <= Len(s)
  PROVE  SubSeq(s, m, k) \o SubSeq(s, k + 1, n) = SubSeq(s, m, n)
  <1>1. Len(s) \in Nat
    BY SeqLen
  <1>2. s \in Seq({s[i] : i \in DOMAIN s})
    BY DEF IsSeq
  <1>3. m \in 1 .. Len(s) + 1 /\ k \in m - 1 .. Len(s) /\ n \in k .. Len(s)
    BY <1>1
  <1> QED
    BY <1>2, <1>3, ConcatAdjacentSubSeq

LEMMA SeqHalves ==
  ASSUME NEW s, IsSeq(s), NEW k \in 0 .. Len(s)
  PROVE  SubSeq(s, 1, k) \o SubSeq(s, k + 1, Len(s)) = s
  <1>1. Len(s) \in Nat /\ k \in Nat /\ k <= Len(s)
    BY SeqLen
  <1> DEFINE n == Len(s)
  <1> HIDE DEF n
  <1>2. SubSeq(s, 1, k) \o SubSeq(s, k + 1, n) = SubSeq(s, 1, n)
    <2>1. n \in Nat /\ k \in Nat /\ k <= n /\ n <= Len(s) /\ 1 <= k + 1
      BY <1>1 DEF n
    <2> QED
      BY <2>1, SeqParts
  <1>3. SubSeq(s, 1, n) = s
    BY SubSeqFull DEF IsSeq, n
  <1> QED
    BY <1>2, <1>3 DEF n

LEMMA SeqAppend ==
  ASSUME NEW s, IsSeq(s), NEW x
  PROVE  /\ IsSeq(Append(s, x))
         /\ Len(Append(s, x)) = Len(s) + 1
         /\ DOMAIN Append(s, x) = 1 .. Len(s) + 1
         /\ \A i \in DOMAIN s : Append(s, x)[i] = s[i]
         /\ Append(s, x)[Len(s) + 1] = x
  <1> DEFINE S == {s[i] : i \in DOMAIN s} \cup {x}
  <1>1. s \in Seq(S)
    BY SeqMonotonic DEF IsSeq
  <1>2. x \in S
    OBVIOUS
  <1> HIDE DEF S
  <1>3. /\ Append(s, x) \in Seq(S)
        /\ Len(Append(s, x)) = Len(s) + 1
        /\ \A i \in 1 .. Len(s) : Append(s, x)[i] = s[i]
        /\ Append(s, x)[Len(s) + 1] = x
    BY <1>1, <1>2, AppendProperties
  <1>4. IsSeq(Append(s, x))
    BY <1>3, SeqIsSeq
  <1>5. DOMAIN s = 1 .. Len(s) /\ DOMAIN Append(s, x) = 1 .. Len(Append(s, x))
    BY <1>4, SeqLen
  <1> QED
    BY <1>3, <1>4, <1>5

LEMMA OneIsSeq ==
  ASSUME NEW x
  PROVE  IsSeq(<<x>>) /\ Len(<<x>>) = 1
  <1>1. <<x>> \in Seq({x})
    OBVIOUS
  <1> QED
    BY <1>1, SeqIsSeq

\* A function on 1 .. n is a sequence of length n.
LEMMA FunIsSeq ==
  ASSUME NEW n \in Nat, NEW f, f = [i \in 1 .. n |-> f[i]]
  PROVE  IsSeq(f) /\ Len(f) = n
  <1> DEFINE R == {f[i] : i \in 1 .. n}
  <1>1. f \in [1 .. n -> R]
    OBVIOUS
  <1> HIDE DEF R
  <1>2. f \in Seq(R)
    BY <1>1, SeqDef
  <1>3. IsSeq(f)
    BY <1>2, SeqIsSeq
  <1>4. DOMAIN f = 1 .. Len(f) /\ Len(f) \in Nat /\ DOMAIN f = 1 .. n
    BY <1>1, <1>3, SeqLen
  <1>5. Len(f) = n
    <2>1. CASE n = 0
      <3>1. 1 .. Len(f) = {}
        BY <2>1, <1>4
      <3>2. ~ (1 \in 1 .. Len(f))
        BY <3>1
      <3> QED
        BY <2>1, <3>2, <1>4
    <2>2. CASE n > 0
      <3>1. n \in 1 .. Len(f)
        BY <2>2, <1>4
      <3>2. Len(f) > 0 => Len(f) \in 1 .. n
        BY <1>4
      <3> QED
        BY <2>2, <3>1, <3>2, <1>4
    <2> QED
      BY <2>1, <2>2
  <1> QED
    BY <1>3, <1>5

---------------------------------------------------------------------------
(* Induction over the subsets of a finite set, as a minimum.               *)

LEMMA SmallestSubset ==
  ASSUME NEW S, IsFiniteSet(S), NEW B, B \subseteq SUBSET S, B # {}
  PROVE  \E T \in B : \A U \in SUBSET T : U # T => U \notin B
  <1>1. IsWellFoundedOn(StrictSubsetOrdering(S), SUBSET S)
    BY FS_StrictSubsetOrderingWellFounded, FS_FiniteSubsetsOfFinite
  <1>2. \E T \in B : \A U \in B : ~ (<<U, T>> \in StrictSubsetOrdering(S))
    BY <1>1, WFMin
  <1> QED
    BY <1>2 DEF StrictSubsetOrdering

Some(s) == CHOOSE x \in s : TRUE
Rest(s) == s \ {Some(s)}

LEMMA SomeIn ==
  ASSUME NEW s, s # {}
  PROVE  Some(s) \in s /\ Rest(s) \subseteq s /\ Rest(s) # s
  BY DEF Some, Rest

---------------------------------------------------------------------------
(* Adding up in the order the fold takes.                                  *)

\* h adds up the weights w of the subsets of S.
Adds(h, w, S) ==
  h = [s \in SUBSET S |-> IF s = {} THEN 0 ELSE w[Some(s)] + h[Rest(s)]]

LEMMA AddsAt ==
  ASSUME NEW S, NEW w, NEW h, Adds(h, w, S), NEW s \in SUBSET S
  PROVE  h[s] = IF s = {} THEN 0 ELSE w[Some(s)] + h[Rest(s)]
  BY DEF Adds

Agree(w, v, T) == \A x \in T : w[x] = v[x]

LEMMA AgreeSelf == \A w, T : Agree(w, w, T)
  BY DEF Agree

LEMMA AddsUnique ==
  ASSUME NEW S, NEW R, IsFiniteSet(S), NEW w, NEW v, NEW h, NEW k,
         Adds(h, w, S), Adds(k, v, R),
         NEW T \in SUBSET S, T \in SUBSET R, Agree(w, v, T)
  PROVE  h[T] = k[T]
  <1> DEFINE B == {U \in SUBSET T : h[U] # k[U]}
  <1> SUFFICES ASSUME B # {} PROVE FALSE
    OBVIOUS
  <1>1. PICK U \in B : \A V \in SUBSET U : V # U => V \notin B
    <2>1. B \subseteq SUBSET T /\ IsFiniteSet(T)
      BY FS_Subset
    <2> HIDE DEF B
    <2> QED
      BY <2>1, SmallestSubset
  <1>2. U \in SUBSET S /\ U \in SUBSET R /\ h[U] # k[U]
    OBVIOUS
  <1>3. U # {}
    BY <1>2, AddsAt
  <1>4. Some(U) \in T /\ Rest(U) \in SUBSET T /\ Rest(U) \notin B
    BY <1>1, <1>3, SomeIn
  <1>5. h[Rest(U)] = k[Rest(U)] /\ w[Some(U)] = v[Some(U)]
    BY <1>4 DEF Agree
  <1> QED
    BY <1>2, <1>3, <1>5, AddsAt

LEMMA AddsExists ==
  ASSUME NEW S, IsFiniteSet(S), NEW w
  PROVE  \E h : Adds(h, w, S)
  <1> DEFINE B == {T \in SUBSET S : ~ \E h : Adds(h, w, T)}
  <1> SUFFICES ASSUME B # {} PROVE FALSE
    OBVIOUS
  <1>1. PICK T \in B : \A V \in SUBSET T : V # T => V \notin B
    <2>1. B \subseteq SUBSET S
      OBVIOUS
    <2> HIDE DEF B
    <2> QED
      BY <2>1, SmallestSubset
  <1> DEFINE H(s) == CHOOSE h : Adds(h, w, s)
             g(s) == H(s)[s]
             k == [s \in SUBSET T |-> IF s = {} THEN 0 ELSE w[Some(s)] + g(Rest(s))]
  <1>2. ASSUME NEW s \in SUBSET T, s # T PROVE Adds(H(s), w, s)
    BY <1>1, <1>2
  <1>3. ASSUME NEW s \in SUBSET T, s # {} PROVE k[Rest(s)] = g(Rest(s))
    <2> DEFINE r == Rest(s)
    <2>1. r \in SUBSET T /\ r # T
      BY <1>3, SomeIn
    <2>2. Adds(H(r), w, r)
      BY <1>2, <2>1
    <2>3. g(r) = IF r = {} THEN 0 ELSE w[Some(r)] + H(r)[Rest(r)]
      BY <2>2, AddsAt
    <2>4. k[r] = IF r = {} THEN 0 ELSE w[Some(r)] + g(Rest(r))
      BY <2>1
    <2>5. ASSUME r # {} PROVE H(r)[Rest(r)] = g(Rest(r))
      <3> DEFINE q == Rest(r)
      <3>1. q \in SUBSET r /\ q \in SUBSET T /\ q # T
        BY <2>1, <2>5, SomeIn
      <3>2. Adds(H(q), w, q)
        BY <1>2, <3>1
      <3>3. IsFiniteSet(r)
        BY <2>1, FS_Subset
      <3>4. H(r)[q] = H(q)[q]
        <4> HIDE DEF r, q, H
        <4> QED
          BY <2>2, <3>1, <3>2, <3>3, AgreeSelf, AddsUnique
      <3> QED
        BY <3>4
    <2> QED
      BY <2>3, <2>4, <2>5
  <1>4. ASSUME NEW s \in SUBSET T
        PROVE  k[s] = IF s = {} THEN 0 ELSE w[Some(s)] + k[Rest(s)]
    <2>1. k[s] = IF s = {} THEN 0 ELSE w[Some(s)] + g(Rest(s))
      OBVIOUS
    <2> HIDE DEF k, g
    <2> QED
      BY <2>1, <1>3
  <1>5. k = [s \in SUBSET T |-> k[s]]
    OBVIOUS
  <1>6. Adds(k, w, T)
    <2> HIDE DEF k
    <2> QED
      BY <1>4, <1>5 DEF Adds
  <1> QED
    BY <1>6

LEMMA AddsNumbers ==
  ASSUME NEW S, IsFiniteSet(S), NEW w, NEW h, Adds(h, w, S),
         NEW N, N = Int \/ N = Nat, \A x \in S : w[x] \in N,
         NEW T, T \subseteq S
  PROVE  h[T] \in N
  <1> DEFINE B == {U \in SUBSET S : h[U] \notin N}
  <1> SUFFICES ASSUME B # {} PROVE FALSE
    OBVIOUS
  <1>1. PICK U \in B : \A V \in SUBSET U : V # U => V \notin B
    <2>1. B \subseteq SUBSET S
      OBVIOUS
    <2> HIDE DEF B
    <2> QED
      BY <2>1, SmallestSubset
  <1>2. U # {}
    <2>1. h[{}] = 0
      BY AddsAt
    <2> QED
      BY <2>1
  <1>3. w[Some(U)] \in N /\ h[Rest(U)] \in N
    BY <1>1, <1>2, SomeIn
  <1>4. w[Some(U)] + h[Rest(U)] \in N
    BY <1>3
  <1> QED
    BY <1>2, <1>4, AddsAt

\* Any element may be taken first.
LEMMA AddsAny ==
  ASSUME NEW S, IsFiniteSet(S), NEW w, NEW h, Adds(h, w, S),
         \A x \in S : w[x] \in Int,
         NEW T, T \subseteq S, NEW x \in T
  PROVE  h[T] = w[x] + h[T \ {x}]
  <1> DEFINE B == {U \in SUBSET S : \E y \in U : h[U] # w[y] + h[U \ {y}]}
  <1> SUFFICES ASSUME B # {} PROVE FALSE
    OBVIOUS
  <1>1. PICK U \in B : \A V \in SUBSET U : V # U => V \notin B
    <2>1. B \subseteq SUBSET S
      OBVIOUS
    <2> HIDE DEF B
    <2> QED
      BY <2>1, SmallestSubset
  <1>2. PICK y \in U : h[U] # w[y] + h[U \ {y}]
    OBVIOUS
  <1> DEFINE c == Some(U)
  <1>3. h[U] = w[c] + h[U \ {c}] /\ c \in U
    BY AddsAt, SomeIn DEF Rest
  <1>4. y # c
    BY <1>2, <1>3
  <1>5. h[U \ {c}] = w[y] + h[(U \ {c}) \ {y}]
    <2>1. U \ {c} \in SUBSET U /\ U \ {c} # U /\ y \in U \ {c}
      BY <1>3, <1>4
    <2> QED
      BY <1>1, <2>1
  <1>6. h[U \ {y}] = w[c] + h[(U \ {y}) \ {c}]
    <2>1. U \ {y} \in SUBSET U /\ U \ {y} # U /\ c \in U \ {y}
      BY <1>3, <1>4
    <2> QED
      BY <1>1, <2>1
  <1>7. (U \ {c}) \ {y} = (U \ {y}) \ {c}
    OBVIOUS
  <1> DEFINE r == h[(U \ {y}) \ {c}]
  <1>8. w[c] \in Int /\ w[y] \in Int /\ r \in Int
    BY <1>3, AddsNumbers
  <1>9. h[U] = w[c] + (w[y] + r) /\ h[U \ {y}] = w[c] + r
    BY <1>3, <1>5, <1>6, <1>7
  <1>10. w[c] + (w[y] + r) = w[y] + (w[c] + r)
    <2> HIDE DEF c, r, B
    <2> QED
      BY <1>8
  <1> QED
    BY <1>2, <1>9, <1>10

---------------------------------------------------------------------------
(* The sum of the weights of a set.                                        *)

SumOver(w, S) == (CHOOSE h : Adds(h, w, S))[S]

LEMMA SumIs ==
  ASSUME NEW S, IsFiniteSet(S), NEW w, NEW h, Adds(h, w, S)
  PROVE  SumOver(w, S) = h[S]
  <1> DEFINE k == CHOOSE x : Adds(x, w, S)
  <1>1. Adds(k, w, S)
    OBVIOUS
  <1> HIDE DEF k
  <1>2. k[S] = h[S]
    BY <1>1, S \in SUBSET S, AgreeSelf, AddsUnique
  <1> QED
    BY <1>2 DEF SumOver, k

LEMMA SumSub ==
  ASSUME NEW S, IsFiniteSet(S), NEW w, NEW h, Adds(h, w, S), NEW T, T \subseteq S
  PROVE  SumOver(w, T) = h[T]
  <1>1. IsFiniteSet(T)
    BY FS_Subset
  <1>2. PICK k : Adds(k, w, T)
    BY <1>1, AddsExists
  <1>3. SumOver(w, T) = k[T]
    BY <1>1, <1>2, SumIs
  <1>4. k[T] = h[T]
    BY <1>1, <1>2, T \in SUBSET T, T \in SUBSET S, AgreeSelf, AddsUnique
  <1> QED
    BY <1>3, <1>4

LEMMA SumNumbers ==
  ASSUME NEW S, IsFiniteSet(S), NEW w, NEW N, N = Int \/ N = Nat,
         \A x \in S : w[x] \in N
  PROVE  SumOver(w, S) \in N
  <1>1. PICK h : Adds(h, w, S)
    BY AddsExists
  <1> QED
    BY <1>1, SumIs, AddsNumbers

LEMMA SumEmpty ==
  ASSUME NEW w
  PROVE  SumOver(w, {}) = 0
  <1>1. IsFiniteSet({})
    BY FS_EmptySet
  <1>2. PICK h : Adds(h, w, {})
    BY <1>1, AddsExists
  <1>3. h[{}] = 0
    BY <1>2, AddsAt
  <1> QED
    BY <1>1, <1>2, <1>3, SumIs

\* Only the weights of the set's own elements count.
LEMMA SumSame ==
  ASSUME NEW S, IsFiniteSet(S), NEW w, NEW v, Agree(w, v, S)
  PROVE  SumOver(w, S) = SumOver(v, S)
  <1>1. PICK h : Adds(h, w, S)
    BY AddsExists
  <1>2. PICK k : Adds(k, v, S)
    BY AddsExists
  <1>3. h[S] = k[S]
    BY <1>1, <1>2, S \in SUBSET S, AddsUnique
  <1> QED
    BY <1>1, <1>2, <1>3, SumIs

LEMMA SumRemove ==
  ASSUME NEW S, IsFiniteSet(S), NEW w, \A x \in S : w[x] \in Int, NEW x \in S
  PROVE  SumOver(w, S) = w[x] + SumOver(w, S \ {x})
  <1>1. PICK h : Adds(h, w, S)
    BY AddsExists
  <1>2. h[S] = w[x] + h[S \ {x}]
    BY <1>1, AddsAny
  <1> QED
    BY <1>1, <1>2, SumSub, S \ {x} \subseteq S

LEMMA SumAdd ==
  ASSUME NEW S, IsFiniteSet(S), NEW w, NEW y, y \notin S,
         \A x \in S \cup {y} : w[x] \in Int
  PROVE  SumOver(w, S \cup {y}) = w[y] + SumOver(w, S)
  <1>1. IsFiniteSet(S \cup {y})
    BY FS_AddElement
  <1>2. (S \cup {y}) \ {y} = S
    OBVIOUS
  <1> QED
    BY <1>1, <1>2, SumRemove

\* What two disjoint sets weigh together.
LEMMA SumDisjoint ==
  ASSUME NEW S, NEW T, IsFiniteSet(S), IsFiniteSet(T), S \cap T = {},
         NEW w, \A x \in S \cup T : w[x] \in Int
  PROVE  SumOver(w, S \cup T) = SumOver(w, S) + SumOver(w, T)
  <1> DEFINE B == {U \in SUBSET T :
                     SumOver(w, S \cup U) # SumOver(w, S) + SumOver(w, U)}
  <1> SUFFICES ASSUME B # {} PROVE FALSE
    OBVIOUS
  <1>1. PICK U \in B : \A V \in SUBSET U : V # U => V \notin B
    <2>1. B \subseteq SUBSET T
      OBVIOUS
    <2> HIDE DEF B
    <2> QED
      BY <2>1, SmallestSubset
  <1>2. /\ U \subseteq T
        /\ SumOver(w, S \cup U) # SumOver(w, S) + SumOver(w, U)
    OBVIOUS
  <1>3. SumOver(w, S) \in Int
    BY SumNumbers
  <1>4. U # {}
    BY <1>2, <1>3, SumEmpty, S \cup {} = S
  <1>5. PICK y : y \in U
    BY <1>4
  <1> DEFINE V == U \ {y}
  <1>6. SumOver(w, S \cup V) = SumOver(w, S) + SumOver(w, V)
    BY <1>1, <1>5
  <1>7. /\ IsFiniteSet(V) /\ IsFiniteSet(S \cup V)
        /\ y \notin V /\ y \notin S \cup V
        /\ V \cup {y} = U /\ (S \cup V) \cup {y} = S \cup U
    BY <1>2, <1>5, FS_Subset, FS_Union
  <1>8. /\ \A x \in V \cup {y} : w[x] \in Int
        /\ \A x \in (S \cup V) \cup {y} : w[x] \in Int
    BY <1>2, <1>5
  <1> HIDE DEF V, B
  <1>9. /\ SumOver(w, U) = w[y] + SumOver(w, V)
        /\ SumOver(w, S \cup U) = w[y] + SumOver(w, S \cup V)
    BY <1>7, <1>8, SumAdd
  <1>10. w[y] \in Int /\ SumOver(w, V) \in Int
    BY <1>7, <1>8, SumNumbers
  <1> QED
    BY <1>2, <1>3, <1>6, <1>9, <1>10
=============================================================================
