-------------------------- MODULE KommsReadProofs ---------------------------
(***************************************************************************)
(* Proofs about KommsRead: what `read tx` finds and what `read index`      *)
(* lists, for every page size, number of pages, table and command line.    *)
(***************************************************************************)
EXTENDS KommsRead, DataLemmas

---------------------------------------------------------------------------
(* The blocks a node lists.                                                *)

\* S are blocks as Mine numbers them.
Numbered(S) ==
  /\ IsFiniteSet(S)
  /\ \A b \in S :
       /\ b.n \in 1 .. Cardinality(S) /\ b.has \in BOOLEAN
       /\ b.below \subseteq 1 .. b.n - 1

\* B lists some of them, each above the ones before it and no others.
Listing(B, S) ==
  /\ B \in Seq(S) /\ Len(B) >= 1
  /\ \A i \in 1 .. Len(B) : B[i].below = {B[j].n : j \in 1 .. i - 1}

\* The first c blocks of B are the ones that come no later than l.
Cut(B, l, c) ==
  /\ c \in 0 .. Len(B)
  /\ \A i \in 1 .. Len(B) : (B[i] = l \/ B[i].n \in l.below) <=> i <= c

NotAmong(B, c) == \A i \in 1 .. c : ~ B[i].has

LEMMA Ascending ==
  ASSUME NEW S, NEW B, Numbered(S), Listing(B, S),
         NEW i \in 1 .. Len(B), NEW j \in 1 .. i - 1
  PROVE  B[j].n < B[i].n
  <1>1. B[i] \in S /\ B[j] \in S /\ Len(B) \in Nat
    BY LenProperties, ElementOfSeq DEF Listing
  <1>2. B[j].n \in B[i].below
    BY DEF Listing
  <1> QED
    BY <1>1, <1>2 DEF Numbered

LEMMA CutOfNone ==
  ASSUME NEW S, NEW B, Numbered(S), Listing(B, S)
  PROVE  Cut(B, NoBlock, 0)
  <1>1. Len(B) \in Nat /\ \A i \in 1 .. Len(B) : B[i] \in S
    BY LenProperties, ElementOfSeq DEF Listing
  <1>2. ASSUME NEW i \in 1 .. Len(B) PROVE B[i].n >= 1 /\ B[i].n # 0
    BY <1>1 DEF Numbered
  <1>3. NoBlock.n = 0 /\ NoBlock.below = {}
    BY DEF NoBlock
  <1> QED
    BY <1>1, <1>2, <1>3 DEF Cut

LEMMA CutOfElement ==
  ASSUME NEW S, NEW B, Numbered(S), Listing(B, S), NEW c \in 1 .. Len(B)
  PROVE  Cut(B, B[c], c)
  <1>1. Len(B) \in Nat /\ \A i \in 1 .. Len(B) : B[i] \in S
    BY LenProperties, ElementOfSeq DEF Listing
  <1>2. ASSUME NEW i \in 1 .. Len(B), i < c
        PROVE  B[i].n \in B[c].below
    BY <1>1, <1>2 DEF Listing
  <1>3. ASSUME NEW i \in 1 .. Len(B), i > c
        PROVE  B[i] # B[c] /\ B[i].n \notin B[c].below
    <2>1. B[c].n < B[i].n
      BY <1>1, <1>3, Ascending
    <2>2. B[c].below \subseteq 1 .. B[c].n - 1 /\ B[c].n \in Int /\ B[i].n \in Int
      BY <1>1 DEF Numbered
    <2> QED
      BY <2>1, <2>2
  <1> QED
    BY <1>1, <1>2, <1>3 DEF Cut

LEMMA FrontIs ==
  ASSUME NEW S, NEW B \in Seq(S), Len(B) >= 1
  PROVE  /\ Front(B) \in Seq(S) /\ Len(Front(B)) = Len(B) - 1
         /\ \A i \in 1 .. Len(B) - 1 : Front(B)[i] = B[i]
  <1> DEFINE m == Len(B) - 1
             F == SubSeq(B, 1, m)
  <1>1. Len(B) \in Nat /\ \A i \in 1 .. Len(B) : B[i] \in S
    BY LenProperties, ElementOfSeq
  <1>2. m \in Nat /\ \A i \in 1 .. m : B[i] \in S
    BY <1>1
  <1> HIDE DEF m
  <1>3. /\ F \in Seq(S) /\ Len(F) = IF 1 <= m THEN m - 1 + 1 ELSE 0
        /\ \A i \in 1 .. m - 1 + 1 : F[i] = B[1 + i - 1]
    BY <1>2, SubSeqProperties
  <1> HIDE DEF F
  <1>4. Len(F) = m /\ \A i \in 1 .. m : F[i] = B[i]
    BY <1>2, <1>3
  <1> QED
    BY <1>3, <1>4 DEF F, m, Front

\* A block that comes to the list comes later than every block there is.
LEMMA CutAppend ==
  ASSUME NEW S, NEW B, Numbered(S), Listing(B, S), NEW l \in S \cup {NoBlock},
         NEW c, Cut(B, l, c), NEW b, b.n = Cardinality(S) + 1
  PROVE  Cut(Append(B, b), l, c)
  <1>1. Len(B) \in Nat /\ B \in Seq(S \cup {b})
    BY LenProperties, SeqMonotonic DEF Listing
  <1> DEFINE A == Append(B, b)
  <1>2. Len(A) = Len(B) + 1 /\ A[Len(B) + 1] = b
        /\ \A i \in 1 .. Len(B) : A[i] = B[i]
    BY <1>1, AppendProperties
  <1>3. Cardinality(S) \in Nat
    BY FS_CardinalityType DEF Numbered
  <1>4. b # l /\ b.n \notin l.below
    <2>1. CASE l \in S
      BY <2>1, <1>3 DEF Numbered
    <2>2. CASE l = NoBlock
      BY <2>2, <1>3 DEF NoBlock
    <2> QED
      BY <2>1, <2>2
  <1> HIDE DEF A
  <1>5. Cut(A, l, c)
    BY <1>1, <1>2, <1>4 DEF Cut
  <1> QED
    BY <1>5 DEF A

\* When the last block leaves, at most it is missing from those behind.
LEMMA CutFront ==
  ASSUME NEW S, NEW B \in Seq(S), Len(B) >= 1, NEW l, NEW c, Cut(B, l, c)
  PROVE  Cut(Front(B), l, IF c = Len(B) THEN c - 1 ELSE c)
  <1>1. Len(B) \in Nat /\ \A i \in 1 .. Len(B) : B[i] \in S
    BY LenProperties, ElementOfSeq
  <1>2. Len(Front(B)) = Len(B) - 1 /\ \A i \in 1 .. Len(B) - 1 : Front(B)[i] = B[i]
    BY FrontIs
  <1> QED
    BY <1>1, <1>2 DEF Cut

LEMMA ListingAppend ==
  ASSUME NEW S, NEW B, Listing(B, S), NEW b, b.below = {x.n : x \in Range(B)}
  PROVE  Listing(Append(B, b), S \cup {b})
  <1>1. Len(B) \in Nat /\ B \in Seq(S \cup {b})
    BY LenProperties, SeqMonotonic DEF Listing
  <1> DEFINE A == Append(B, b)
  <1>2. Len(A) = Len(B) + 1 /\ A[Len(B) + 1] = b
        /\ \A i \in 1 .. Len(B) : A[i] = B[i]
    BY <1>1, AppendProperties
  <1>3. A \in Seq(S \cup {b})
    BY <1>1, AppendProperties
  <1>4. b.below = {B[j].n : j \in 1 .. Len(B)}
    BY <1>1, RangeEquality
  <1> HIDE DEF A
  <1>5. ASSUME NEW i \in 1 .. Len(A)
        PROVE  A[i].below = {A[j].n : j \in 1 .. i - 1}
    <2>1. CASE i = Len(B) + 1
      <3>1. {A[j].n : j \in 1 .. i - 1} = {B[j].n : j \in 1 .. Len(B)}
        BY <1>1, <1>2, <2>1
      <3> QED
        BY <3>1, <1>2, <1>4, <2>1
    <2>2. CASE i \in 1 .. Len(B)
      <3>1. {A[j].n : j \in 1 .. i - 1} = {B[j].n : j \in 1 .. i - 1}
        BY <1>1, <1>2, <2>2
      <3> QED
        BY <3>1, <1>2, <2>2 DEF Listing
    <2> QED
      BY <1>1, <1>2, <2>1, <2>2
  <1>6. Listing(A, S \cup {b})
    BY <1>1, <1>2, <1>3, <1>5 DEF Listing
  <1> QED
    BY <1>6 DEF A

LEMMA ListingFront ==
  ASSUME NEW S, NEW B, Listing(B, S), Len(B) > 1
  PROVE  /\ Listing(Front(B), S) /\ Len(Front(B)) = Len(B) - 1
         /\ \A i \in 1 .. Len(B) - 1 : Front(B)[i] = B[i]
  <1>1. Len(B) \in Nat /\ \A i \in 1 .. Len(B) : B[i] \in S
    BY LenProperties, ElementOfSeq DEF Listing
  <1>2. /\ Front(B) \in Seq(S) /\ Len(Front(B)) = Len(B) - 1
        /\ \A i \in 1 .. Len(B) - 1 : Front(B)[i] = B[i]
    BY <1>1, FrontIs DEF Listing
  <1>3. ASSUME NEW i \in 1 .. Len(B) - 1
        PROVE  Front(B)[i].below = {Front(B)[j].n : j \in 1 .. i - 1}
    <2>1. {Front(B)[j].n : j \in 1 .. i - 1} = {B[j].n : j \in 1 .. i - 1}
      BY <1>1, <1>2
    <2>2. i \in 1 .. Len(B)
      BY <1>1
    <2>3. B[i].below = {B[j].n : j \in 1 .. i - 1}
      BY <2>2 DEF Listing
    <2> QED
      BY <2>1, <2>3, <1>2
  <1> QED
    BY <1>1, <1>2, <1>3 DEF Listing

LEMMA NumberedGrows ==
  ASSUME NEW S, Numbered(S), NEW b, b.n = Cardinality(S) + 1, b.has \in BOOLEAN,
         b.below \subseteq 1 .. Cardinality(S)
  PROVE  Numbered(S \cup {b})
  <1>1. Cardinality(S) \in Nat /\ IsFiniteSet(S)
    BY FS_CardinalityType DEF Numbered
  <1>2. b \notin S
    BY <1>1 DEF Numbered
  <1>3. IsFiniteSet(S \cup {b}) /\ Cardinality(S \cup {b}) = Cardinality(S) + 1
    BY <1>1, <1>2, FS_AddElement
  <1> DEFINE T == S \cup {b}
  <1>4. ASSUME NEW x \in T
        PROVE  /\ x.n \in 1 .. Cardinality(S) + 1 /\ x.has \in BOOLEAN
               /\ x.below \subseteq 1 .. x.n - 1
    <2>1. CASE x \in S
      BY <1>1, <2>1 DEF Numbered
    <2>2. CASE x = b
      <3>1. Cardinality(S) + 1 - 1 = Cardinality(S)
        BY <1>1
      <3> QED
        BY <1>1, <2>2, <3>1
    <2> QED
      BY <2>1, <2>2
  <1> QED
    BY <1>3, <1>4 DEF Numbered

---------------------------------------------------------------------------
(* What a request for a page returns.                                      *)

Least(a, b) == IF a < b THEN a ELSE b

\* The position in the list that the page's last block has, c blocks being
\* behind the cursor: the cursor takes a place of the page.
PageEnd(c) ==
  Least(Len(blocks), c + PageSize - (IF low = NoBlock THEN 0 ELSE 1))

LEMMA BehindIs ==
  ASSUME NEW S, Listing(blocks, S), NEW c, Cut(blocks, low, c)
  PROVE  Cardinality(Behind) = c
  <1>1. Len(blocks) \in Nat /\ DOMAIN blocks = 1 .. Len(blocks)
    BY LenProperties DEF Listing
  <1>2. c \in 0 .. Len(blocks)
    BY DEF Cut
  <1>3. Behind = 1 .. c
    BY <1>1, <1>2 DEF Cut, Behind
  <1>4. Cardinality(1 .. c) = c
    <2>1. 1 \in Int /\ c \in Int /\ Cardinality(1 .. c) = IF 1 > c THEN 0 ELSE c - 1 + 1
      BY <1>1, <1>2, FS_Interval
    <2> QED
      BY <2>1, <1>1, <1>2
  <1> QED
    BY <1>3, <1>4

LEMMA PageIs ==
  ASSUME NEW S, Numbered(S), Listing(blocks, S), low \in S \cup {NoBlock},
         NEW c, Cut(blocks, low, c), low = NoBlock => c = 0
  PROVE  LET e == PageEnd(c)  d == IF low = NoBlock THEN 0 ELSE 1 IN
         /\ c <= e /\ e <= Len(blocks) /\ e - c + d >= 1
         /\ Len(Page) = e - c + d /\ Page # <<>>
         /\ DOMAIN Page = 1 .. e - c + d
         /\ d = 1 => Page[1] = low
         /\ \A i \in 1 .. e - c : Page[i + d] = blocks[c + i]
  <1> DEFINE d == IF low = NoBlock THEN 0 ELSE 1
             e == PageEnd(c)
             T == S \cup {NoBlock}
             L == Len(blocks)
             rest == SubSeq(blocks, c + 1, L)
             all == IF low = NoBlock THEN rest ELSE <<low>> \o rest
             m == IF Len(all) < PageSize THEN Len(all) ELSE PageSize
  <1>1. L \in Nat /\ L >= 1 /\ c \in 0 .. L /\ \A i \in 1 .. L : blocks[i] \in T
    BY LenProperties, ElementOfSeq DEF Listing, Cut
  <1>2. Page = SubSeq(all, 1, m)
    BY BehindIs DEF Page
  <1>3. PageSize \in Nat /\ PageSize >= 2
    BY PagesAssumption
  <1>4. d \in {0, 1} /\ (d = 0 <=> low = NoBlock)
    OBVIOUS
  <1>5. e = Least(L, c + PageSize - d)
    BY DEF PageEnd
  <1> HIDE DEF L, d, e
  <1>6. /\ rest \in Seq(T) /\ Len(rest) = L - c
        /\ \A i \in 1 .. L - c : rest[i] = blocks[c + i]
    <2>1. c + 1 \in Int /\ L \in Int /\ \A i \in c + 1 .. L : blocks[i] \in T
      BY <1>1
    <2>2. /\ rest \in Seq(T) /\ Len(rest) = IF c + 1 <= L THEN L - (c + 1) + 1 ELSE 0
          /\ \A i \in 1 .. L - (c + 1) + 1 : rest[i] = blocks[c + 1 + i - 1]
      BY <2>1, SubSeqProperties
    <2> HIDE DEF rest
    <2> QED
      BY <2>2, <1>1
  <1> HIDE DEF rest
  <1>7. /\ all \in Seq(T) /\ Len(all) = L - c + d
        /\ d = 1 => all[1] = low
        /\ \A i \in 1 .. L - c : all[i + d] = blocks[c + i]
    <2>1. CASE low = NoBlock
      BY <2>1, <1>1, <1>4, <1>6
    <2>2. CASE low # NoBlock
      <3> DEFINE one == <<low>>
      <3>1. one \in Seq(T) /\ Len(one) = 1 /\ one[1] = low
        OBVIOUS
      <3> HIDE DEF one
      <3>3. all = one \o rest /\ d = 1
        BY <2>2, <1>4 DEF one
      <3>a. /\ all \in Seq(T) /\ Len(all) = Len(one) + Len(rest)
            /\ \A i \in 1 .. Len(one) + Len(rest) :
                 all[i] = IF i <= Len(one) THEN one[i] ELSE rest[i - Len(one)]
        <4>1. one \in Seq(T) /\ rest \in Seq(T)
          BY <3>1, <1>6
        <4> HIDE DEF T, all
        <4> QED
          BY <4>1, <3>3, ConcatProperties
      <3> HIDE DEF all, T
      <3>2. /\ Len(all) = L - c + 1
            /\ \A i \in 1 .. 1 + (L - c) : all[i] = IF i <= 1 THEN one[i] ELSE rest[i - 1]
        BY <3>1, <3>a, <1>1, <1>6
      <3>4. ASSUME NEW i \in 1 .. L - c PROVE all[i + d] = blocks[c + i]
        <4>1. i + 1 \in 1 .. 1 + (L - c) /\ ~ (i + 1 <= 1) /\ i + 1 - 1 = i
          BY <1>1
        <4> QED
          BY <4>1, <3>2, <3>3, <1>6
      <3>5. all[1] = low
        <4>1. 1 \in 1 .. 1 + (L - c)
          BY <1>1
        <4> QED
          BY <4>1, <3>1, <3>2
      <3> QED
        BY <3>a, <3>2, <3>3, <3>4, <3>5
    <2> QED
      BY <2>1, <2>2
  <1>8. m = e - c + d /\ m >= 1 /\ c <= e /\ e <= L
    BY <1>1, <1>3, <1>4, <1>5, <1>7 DEF Least
  <1>8a. e \in Int
    BY <1>1, <1>3, <1>4, <1>5 DEF Least
  <1> HIDE DEF m, all
  <1>9. \A i \in 1 .. m : all[i] \in T
    <2>1. m <= Len(all) /\ Len(all) \in Nat
      BY <1>7, <1>8, <1>8a, <1>1, <1>4
    <2>2. m \in Nat
      BY <1>8, <1>8a, <1>1, <1>4
    <2> TAKE i \in 1 .. m
    <2>3. i \in 1 .. Len(all)
      BY <2>1, <2>2
    <2> HIDE DEF T
    <2> QED
      BY <2>3, <1>7, ElementOfSeq
  <1>10. /\ SubSeq(all, 1, m) \in Seq(T) /\ Len(SubSeq(all, 1, m)) = m
         /\ \A i \in 1 .. m : SubSeq(all, 1, m)[i] = all[i]
    <2>1. m \in Nat
      BY <1>8, <1>8a, <1>1, <1>4
    <2>2. /\ SubSeq(all, 1, m) \in Seq(T)
          /\ Len(SubSeq(all, 1, m)) = IF 1 <= m THEN m - 1 + 1 ELSE 0
          /\ \A i \in 1 .. m - 1 + 1 : SubSeq(all, 1, m)[i] = all[1 + i - 1]
      BY <2>1, <1>9, SubSeqProperties
    <2> QED
      BY <2>1, <2>2, <1>8
  <1>11. Page \in Seq(T) /\ Len(Page) = m /\ \A i \in 1 .. m : Page[i] = all[i]
    BY <1>2, <1>10
  <1>12. DOMAIN Page = 1 .. m /\ Page # <<>>
    <2>1. DOMAIN Page = 1 .. Len(Page)
      BY <1>11, LenProperties
    <2>2. Page # <<>>
      BY <1>11, <1>8, EmptySeq
    <2> QED
      BY <2>1, <2>2, <1>11
  <1>13. ASSUME NEW i \in 1 .. e - c PROVE Page[i + d] = blocks[c + i]
    <2>1. i + d \in 1 .. m /\ i \in 1 .. L - c
      BY <1>1, <1>4, <1>8, <1>8a
    <2> QED
      BY <2>1, <1>7, <1>11
  <1>14. d = 1 => Page[1] = low
    <2>1. 1 \in 1 .. m
      BY <1>8, <1>8a, <1>1, <1>4
    <2> QED
      BY <2>1, <1>7, <1>11
  <1>15. e - c + d >= 1
    BY <1>8
  <1>16. /\ c <= e /\ e <= L /\ e - c + d >= 1 /\ Len(Page) = e - c + d /\ Page # <<>>
         /\ DOMAIN Page = 1 .. e - c + d
         /\ d = 1 => Page[1] = low
         /\ \A i \in 1 .. e - c : Page[i + d] = blocks[c + i]
    BY <1>8, <1>11, <1>12, <1>13, <1>14, <1>15
  <1> QED
    BY <1>16 DEF d, e, L

\* The cursor moves to the page's last block, and a page without the transaction
\* leaves it beyond that block.
LEMMA PageEnds ==
  ASSUME NEW S, Numbered(S), Listing(blocks, S), low \in S \cup {NoBlock},
         NEW c, Cut(blocks, low, c), low = NoBlock => c = 0,
         NotAmong(blocks, c), ~ Has(Page)
  PROVE  LET e == PageEnd(c) IN
         /\ Cut(blocks, Last(Page), e) /\ NotAmong(blocks, e)
         /\ Last(Page) \in S
         /\ Has(blocks) => e = c + PageSize - (IF low = NoBlock THEN 0 ELSE 1)
  <1> DEFINE d == IF low = NoBlock THEN 0 ELSE 1
             e == PageEnd(c)
             L == Len(blocks)
  <1>1. /\ c <= e /\ e <= L /\ e - c + d >= 1 /\ Len(Page) = e - c + d /\ Page # <<>>
        /\ DOMAIN Page = 1 .. e - c + d
        /\ d = 1 => Page[1] = low
        /\ \A i \in 1 .. e - c : Page[i + d] = blocks[c + i]
    BY PageIs
  <1>2. L \in Nat /\ L >= 1 /\ c \in 0 .. L /\ \A i \in 1 .. L : blocks[i] \in S
    BY LenProperties, ElementOfSeq DEF Listing, Cut
  <1>3. PageSize \in Nat /\ PageSize >= 2
    BY PagesAssumption
  <1>4. d \in {0, 1} /\ (d = 0 <=> low = NoBlock)
    OBVIOUS
  <1>5. e = Least(L, c + PageSize - d)
    BY DEF PageEnd
  <1>6. DOMAIN blocks = 1 .. L
    BY LenProperties DEF Listing
  <1> HIDE DEF L, d, e
  <1>7. e \in Nat
    BY <1>2, <1>3, <1>4, <1>5 DEF Least
  <1>8. ASSUME NEW i \in c + 1 .. e PROVE ~ blocks[i].has
    <2>1. i - c \in 1 .. e - c /\ c + (i - c) = i /\ i - c + d \in 1 .. e - c + d
      BY <1>2, <1>4, <1>7
    <2>2. Page[i - c + d] = blocks[i]
      BY <2>1, <1>1
    <2> QED
      BY <2>1, <2>2, <1>1 DEF Has
  <1>9. NotAmong(blocks, e)
    BY <1>2, <1>7, <1>8 DEF NotAmong
  <1>10. Cut(blocks, Last(Page), e) /\ Last(Page) \in S
    <2>1. CASE e > c
      <3>1. e - c \in 1 .. e - c /\ c + (e - c) = e /\ e \in 1 .. L
        BY <2>1, <1>1, <1>2, <1>7
      <3>2. Last(Page) = blocks[e]
        BY <3>1, <1>1 DEF Last
      <3> QED
        BY <3>1, <3>2, <1>2, CutOfElement DEF L
    <2>2. CASE e = c
      <3>1. d = 1 /\ Len(Page) = 1
        BY <2>2, <1>1, <1>2, <1>4
      <3>2. Last(Page) = low /\ low # NoBlock
        BY <3>1, <1>1, <1>4 DEF Last
      <3> QED
        BY <3>2, <2>2
    <2> QED
      BY <2>1, <2>2, <1>1, <1>2, <1>7
  <1>11. Has(blocks) => e = c + PageSize - d
    <2> SUFFICES ASSUME Has(blocks), e = L PROVE FALSE
      BY <1>2, <1>3, <1>4, <1>5 DEF Least
    <2> QED
      BY <1>6, <1>9 DEF Has, NotAmong
  <1> QED
    BY <1>9, <1>10, <1>11 DEF d, e

---------------------------------------------------------------------------
(* The inductive invariant of `read tx`.                                   *)

\* The transaction was at the node from the start and nothing moved it.
Undisturbed == present /\ ~ moved /\ faults = 0

TxTypes ==
  /\ pc \in {"pool", "hint", "pages", "found", "missing", "failed"}
  /\ left \in 0 .. MaxPasses /\ moves \in Nat /\ faults \in Nat
  /\ pool \in BOOLEAN /\ moved \in BOOLEAN /\ present \in BOOLEAN

Chains == Numbered(seen) /\ Listing(blocks, seen) /\ low \in seen \cup {NoBlock}

Stages ==
  /\ pc \in {"pool", "hint"} => low = NoBlock
  /\ low = NoBlock => left = MaxPasses
  /\ pc = "pages" => left # 0
  /\ pc = "missing" => left = 0
  /\ pc \in {"pages", "missing"} => ~ hint.has

\* A transaction nothing moved is at the node; once the mempool did not have it,
\* it is in a block.
Kept ==
  /\ present /\ ~ moved => pool \/ Has(blocks)
  /\ Undisturbed /\ pc \in {"hint", "pages", "missing"} => Has(blocks)

\* The cursor has c blocks behind it, the transaction is in none of them, and
\* every page moved it on by a page less the cursor, every undone block back by
\* one at most.
Reached(c) ==
  /\ Cut(blocks, low, c) /\ NotAmong(blocks, c)
  /\ low = NoBlock => c = 0
  /\ low # NoBlock /\ Undisturbed =>
       c + moves >= 1 + (MaxPasses - left) * (PageSize - 1)

TxInv == TxTypes /\ Chains /\ Stages /\ Kept /\ \E c : Reached(c)

LEMMA ChainIs ==
  ASSUME NEW k \in Nat \ {0}, NEW i0 \in 0 .. k, blocks = Chain(k, i0), seen = Range(blocks)
  PROVE  Numbered(seen) /\ Listing(blocks, seen)
  <1>1. /\ DOMAIN blocks = 1 .. k
        /\ \A i \in 1 .. k : blocks[i] = [n |-> i, has |-> i = i0, below |-> 1 .. i - 1]
    BY DEF Chain
  <1>2. seen = {blocks[i] : i \in 1 .. k}
    BY <1>1 DEF Range
  <1>3. blocks \in [1 .. k -> seen]
    BY <1>1, <1>2 DEF Chain
  <1>4. blocks \in Seq(seen) /\ Len(blocks) = k
    <2>1. blocks \in Seq(seen)
      BY <1>3, SeqDef
    <2> QED
      BY <2>1, <1>1, LenProperties
  <1>5. IsFiniteSet(seen) /\ Cardinality(seen) = k
    <2>1. blocks \in Bijection(1 .. k, seen)
      <3>1. IsInjective(blocks)
        BY <1>1 DEF IsInjective
      <3> QED
        BY <1>2, <1>3, <3>1 DEF Bijection, Injection, Surjection
    <2>2. IsFiniteSet(1 .. k) /\ Cardinality(1 .. k) = k
      BY FS_Interval
    <2> QED
      BY <2>1, <2>2, FS_Bijection DEF ExistsBijection
  <1>6. Numbered(seen)
    <2>1. ASSUME NEW b \in seen
          PROVE  b.n \in 1 .. k /\ b.has \in BOOLEAN /\ b.below \subseteq 1 .. b.n - 1
      <3>1. PICK i \in 1 .. k : b = blocks[i]
        BY <1>2, <2>1
      <3>2. b = [n |-> i, has |-> i = i0, below |-> 1 .. i - 1]
        BY <1>1, <3>1
      <3>3. b.n = i /\ b.has = (i = i0) /\ b.below = 1 .. i - 1
        BY <3>2
      <3> QED
        BY <3>3
    <2> QED
      BY <1>5, <2>1 DEF Numbered
  <1>7. ASSUME NEW i \in 1 .. k
        PROVE  blocks[i].below = {blocks[j].n : j \in 1 .. i - 1}
    <2>1. \A j \in 1 .. i - 1 : blocks[j].n = j
      BY <1>1
    <2>2. {blocks[j].n : j \in 1 .. i - 1} = 1 .. i - 1
      BY <2>1
    <2> QED
      BY <1>1, <2>2
  <1> QED
    BY <1>4, <1>6, <1>7 DEF Listing

LEMMA TxInit == Init => TxInv
  <1> SUFFICES ASSUME Init PROVE TxInv
    OBVIOUS
  <1>0. PICK k \in 1 .. MaxBlocks - 1 : \E j \in 0 .. k :
          /\ blocks = Chain(k, j)
          /\ pool \in BOOLEAN /\ (j > 0 => ~ pool)
          /\ present = (pool \/ j > 0)
    BY DEF Init
  <1>1. PICK i0 \in 0 .. k :
          /\ blocks = Chain(k, i0)
          /\ pool \in BOOLEAN /\ (i0 > 0 => ~ pool)
          /\ present = (pool \/ i0 > 0)
    BY <1>0
  <1>2. k \in Nat \ {0}
    BY BoundsAssumption
  <1>3. Numbered(seen) /\ Listing(blocks, seen)
    BY <1>1, <1>2, ChainIs DEF Init
  <1>4. present => pool \/ Has(blocks)
    <2> SUFFICES ASSUME i0 > 0 PROVE Has(blocks)
      BY <1>1
    <2>1. i0 \in 1 .. k /\ DOMAIN blocks = 1 .. k
      BY <1>1, <1>2 DEF Chain
    <2>2. blocks[i0] = [n |-> i0, has |-> (i0 = i0), below |-> 1 .. i0 - 1]
      BY <1>1, <2>1 DEF Chain
    <2>3. blocks[i0].has = (i0 = i0)
      BY <2>2
    <2>4. blocks[i0].has
      BY <2>3, Zenon
    <2> QED
      BY <2>1, <2>4 DEF Has
  <1>5. /\ pc = "pool" /\ low = NoBlock /\ left = MaxPasses
        /\ moves = 0 /\ moved = FALSE /\ faults = 0
    BY DEF Init
  <1>6. MaxPasses \in Nat \ {0}
    BY PagesAssumption
  <1>7. TxTypes
    <2>1. present \in BOOLEAN /\ moved \in BOOLEAN
      BY <1>1, <1>5, Zenon
    <2>2. left \in 0 .. MaxPasses
      BY <1>5, <1>6
    <2> QED
      BY <1>1, <1>5, <2>1, <2>2 DEF TxTypes
  <1>8. Reached(0)
    BY <1>3, <1>5, CutOfNone DEF Reached, NotAmong
  <1>9. Stages /\ Kept /\ Chains
    BY <1>3, <1>4, <1>5 DEF Stages, Kept, Chains, Undisturbed
  <1> QED
    BY <1>7, <1>8, <1>9 DEF TxInv

\* Nothing about the list or the cursor changes.
LEMMA StaysReached ==
  ASSUME TxInv, UNCHANGED <<blocks, low, left, moves>>,
         Undisturbed' => Undisturbed
  PROVE  \E c : Reached(c)'
  <1>1. PICK c : Reached(c)
    BY DEF TxInv
  <1>2. Cut(blocks, low, c)' /\ NotAmong(blocks, c)'
    BY <1>1 DEF Reached, Cut, NotAmong
  <1>3. Reached(c)'
    BY <1>1, <1>2 DEF Reached
  <1> QED
    BY <1>3

LEMMA FirstLookStep ==
  ASSUME TxInv, LookInPool \/ PoolFails \/ LookAtHint
  PROVE  TxInv'
  <1>1. /\ UNCHANGED <<node, hint, low, left, history>>
        /\ pc \in {"pool", "hint"} /\ pc' \in {"hint", "pages", "found", "failed"}
        /\ faults' \in Nat /\ (faults' = 0 => faults = 0)
    BY DEF LookInPool, PoolFails, LookAtHint, End, TxInv, TxTypes
  <1>2. UNCHANGED <<pool, blocks, seen, hint, low, left, moves, moved, present>>
    BY <1>1 DEF node, history
  <1>3. Undisturbed' => Undisturbed
    BY <1>1, <1>2 DEF Undisturbed
  <1>4. TxTypes'
    BY <1>1, <1>2 DEF TxInv, TxTypes
  <1>5. Chains'
    BY <1>2 DEF TxInv, Chains, Numbered, Listing
  <1>6. Stages'
    <2>1. left # 0
      BY <1>1, PagesAssumption DEF TxInv, Stages
    <2>2. pc' = "pages" => ~ hint.has
      BY <1>1 DEF LookInPool, PoolFails, LookAtHint, End, NoBlock
    <2> QED
      BY <1>1, <1>2, <2>1, <2>2 DEF TxInv, Stages
  <1>7. Kept'
    <2>1. Has(blocks)' = Has(blocks)
      BY <1>2 DEF Has
    <2>2. Undisturbed /\ faults' = 0 /\ pc' \in {"hint", "pages"} => Has(blocks)
      BY <1>1 DEF TxInv, Kept, Undisturbed, LookInPool, PoolFails, LookAtHint, End,
                  TxTypes
    <2> QED
      BY <1>1, <1>2, <1>3, <2>1, <2>2 DEF TxInv, Kept, Undisturbed
  <1> QED
    BY <1>2, <1>3, <1>4, <1>5, <1>6, <1>7, StaysReached DEF TxInv

LEMMA EndStep ==
  ASSUME TxInv, UNCHANGED <<node, hint, low, left, history>>,
         pc' \in {"found", "failed"}, faults' \in Nat, faults' = 0 => faults = 0
  PROVE  TxInv'
  <1>2. UNCHANGED <<pool, blocks, seen, hint, low, left, moves, moved, present>>
    BY DEF node, history
  <1>3. Undisturbed' => Undisturbed
    BY <1>2 DEF Undisturbed
  <1>4. TxTypes' /\ Stages'
    BY <1>2 DEF TxInv, TxTypes, Stages
  <1>5. Chains'
    BY <1>2 DEF TxInv, Chains, Numbered, Listing
  <1>6. Has(blocks)' = Has(blocks)
    BY <1>2 DEF Has
  <1>7. Kept'
    BY <1>2, <1>6 DEF TxInv, Kept
  <1> QED
    BY <1>2, <1>3, <1>4, <1>5, <1>7, StaysReached DEF TxInv

LEMMA PageStep ==
  ASSUME TxInv, LookAtPage, Page # <<>>, ~ Has(Page)
  PROVE  TxInv'
  <1>1. /\ low' = Last(Page) /\ left' = left - 1
        /\ pc' = IF left' = 0 THEN "missing" ELSE "pages"
        /\ pc = "pages"
        /\ UNCHANGED <<pool, blocks, seen, hint, moves, moved, present, faults>>
    BY DEF LookAtPage, Cursor, OneLess, node, history
  <1>2. PICK c : Reached(c)
    BY DEF TxInv
  <1> DEFINE d == IF low = NoBlock THEN 0 ELSE 1
  <1>2a. PICK e : e = PageEnd(c)
    OBVIOUS
  <1>3. /\ Numbered(seen) /\ Listing(blocks, seen) /\ low \in seen \cup {NoBlock}
        /\ Cut(blocks, low, c) /\ NotAmong(blocks, c) /\ (low = NoBlock => c = 0)
    BY <1>2 DEF TxInv, Chains, Reached
  <1>4. /\ Cut(blocks, low', e) /\ NotAmong(blocks, e) /\ low' \in seen
        /\ Has(blocks) => e = c + PageSize - d
    BY <1>1, <1>2a, <1>3, PageEnds
  <1>5. d \in {0, 1} /\ (d = 0 <=> low = NoBlock)
    OBVIOUS
  <1> HIDE DEF d
  <1>6. low' # NoBlock
    BY <1>3, <1>4 DEF Numbered, NoBlock
  <1>7. left \in 1 .. MaxPasses /\ MaxPasses \in Nat /\ moves \in Nat
        /\ PageSize \in Nat /\ PageSize >= 2 /\ c \in Nat
    <2>1. left \in 0 .. MaxPasses /\ left # 0 /\ moves \in Nat
      BY <1>1 DEF TxInv, TxTypes, Stages
    <2>2. c \in Nat
      <3>1. Len(blocks) \in Nat
        BY <1>3, LenProperties DEF Listing
      <3> QED
        BY <1>3, <3>1 DEF Cut
    <2> QED
      BY <2>1, <2>2, PagesAssumption
  <1>8. TxTypes'
    BY <1>1, <1>7 DEF TxInv, TxTypes
  <1>9. Chains'
    BY <1>1, <1>3, <1>4 DEF Chains, Numbered, Listing
  <1>10. Stages'
    BY <1>1, <1>6 DEF TxInv, Stages
  <1>11. Has(blocks)' = Has(blocks) /\ Undisturbed' = Undisturbed
    BY <1>1 DEF Has, Undisturbed
  <1>12. Kept'
    BY <1>1, <1>11 DEF TxInv, Kept
  <1>13. Undisturbed => e + moves >= 1 + (MaxPasses - left') * (PageSize - 1)
    <2> SUFFICES ASSUME Undisturbed
                 PROVE  e + moves >= 1 + (MaxPasses - left') * (PageSize - 1)
      OBVIOUS
    <2>1. e = c + PageSize - d
      BY <1>1, <1>4 DEF TxInv, Kept
    <2> DEFINE x == MaxPasses - left
               y == PageSize - 1
    <2>2. MaxPasses - left' = x + 1 /\ x \in Nat /\ y \in Nat
      BY <1>1, <1>7
    <2>3. (x + 1) * y = x * y + y /\ x * y \in Nat
      BY <2>2
    <2>4. CASE low = NoBlock
      <3>1. left = MaxPasses /\ c = 0 /\ d = 0
        BY <2>4, <1>3, <1>5 DEF TxInv, Stages
      <3>2. x = 0 /\ x * y = 0
        BY <3>1, <2>2, <1>7
      <3> QED
        BY <3>1, <3>2, <2>1, <2>2, <2>3, <1>7
    <2>5. CASE low # NoBlock
      <3>1. c + moves >= 1 + x * y /\ d = 1
        BY <2>5, <1>2, <1>5 DEF Reached
      <3>2. e = c + y
        BY <2>1, <3>1, <1>7
      <3>3. c + y + moves >= 1 + (x * y + y)
        <4> HIDE DEF x, y
        <4> QED
          BY <3>1, <2>2, <2>3, <1>7
      <3> QED
        BY <3>2, <3>3, <2>2, <2>3
    <2> QED
      BY <2>4, <2>5
  <1>14. Reached(e)'
    <2>1. Cut(blocks, low, e)' /\ NotAmong(blocks, e)'
      BY <1>1, <1>4 DEF Cut, NotAmong
    <2> QED
      BY <1>1, <1>6, <1>11, <1>13, <2>1 DEF Reached
  <1> QED
    BY <1>8, <1>9, <1>10, <1>12, <1>14 DEF TxInv

LEMMA ArriveStep ==
  ASSUME TxInv, Arrive
  PROVE  TxInv'
  <1>1. pool' = TRUE
        /\ UNCHANGED <<blocks, seen, pc, hint, low, left, moves, moved, present, faults>>
    BY DEF Arrive, command, history
  <1>2. Has(blocks)' = Has(blocks) /\ Undisturbed' = Undisturbed
    BY <1>1 DEF Has, Undisturbed
  <1>3. TxTypes' /\ Stages' /\ Kept'
    BY <1>1, <1>2 DEF TxInv, TxTypes, Stages, Kept
  <1>4. Chains'
    BY <1>1 DEF TxInv, Chains, Numbered, Listing
  <1> QED
    BY <1>1, <1>2, <1>3, <1>4, StaysReached DEF TxInv

LEMMA EvictStep ==
  ASSUME TxInv, Evict
  PROVE  TxInv'
  <1>1. /\ pool' = FALSE /\ moved' = TRUE /\ moves' = moves + 1
        /\ UNCHANGED <<blocks, seen, pc, hint, low, left, present, faults>>
    BY DEF Evict, command
  <1>2. ~ Undisturbed'
    BY <1>1 DEF Undisturbed
  <1>3a. TxTypes'
    <2>1. pool' \in BOOLEAN /\ moved' \in BOOLEAN
      BY <1>1, Zenon
    <2> QED
      BY <1>1, <2>1 DEF TxInv, TxTypes
  <1>3b. Stages'
    BY <1>1 DEF TxInv, Stages
  <1>3. Kept'
    BY <1>1, <1>2 DEF Kept
  <1>4. Chains'
    BY <1>1 DEF TxInv, Chains, Numbered, Listing
  <1>5. PICK c : Reached(c)
    BY DEF TxInv
  <1>6. Reached(c)'
    <2>1. Cut(blocks, low, c)' /\ NotAmong(blocks, c)'
      BY <1>1, <1>5 DEF Reached, Cut, NotAmong
    <2> QED
      BY <1>1, <1>2, <1>5, <2>1 DEF Reached
  <1> QED
    BY <1>3a, <1>3b, <1>3, <1>4, <1>6 DEF TxInv

LEMMA MineStep ==
  ASSUME TxInv, Mine
  PROVE  TxInv'
  <1>1. PICK has \in {FALSE, pool} :
          /\ blocks' = Append(blocks, Listed(has, blocks))
          /\ seen' = seen \cup {Listed(has, blocks)}
          /\ pool' = (pool /\ ~ has)
    BY DEF Mine
  <1>2. UNCHANGED <<pc, hint, low, left, moves, moved, present, faults>>
    BY DEF Mine, command, history
  <1>3. PICK b : b = Listed(has, blocks)
    OBVIOUS
  <1>4. Numbered(seen) /\ Listing(blocks, seen) /\ low \in seen \cup {NoBlock}
        /\ pool \in BOOLEAN
    BY DEF TxInv, TxTypes, Chains
  <1>5. /\ b.n = Cardinality(seen) + 1 /\ b.has = has
        /\ b.below = {x.n : x \in Range(blocks)}
    BY <1>3 DEF Listed
  <1>6. has \in BOOLEAN /\ b.has \in BOOLEAN
    BY <1>4, <1>5
  <1>7. b.below \subseteq 1 .. Cardinality(seen)
    <2>1. Range(blocks) \in SUBSET seen
      BY <1>4, RangeOfSeq DEF Listing
    <2> QED
      BY <2>1, <1>4, <1>5 DEF Numbered
  <1>8. Numbered(seen')
    BY <1>1, <1>3, <1>4, <1>5, <1>6, <1>7, NumberedGrows
  <1>9. Listing(blocks', seen')
    BY <1>1, <1>3, <1>4, <1>5, ListingAppend
  <1>10. Chains'
    <2>1. low' \in seen' \cup {NoBlock}
      BY <1>1, <1>2, <1>4
    <2> QED
      BY <1>8, <1>9, <2>1 DEF Chains, Numbered, Listing
  <1>11. /\ Len(blocks) \in Nat /\ DOMAIN blocks = 1 .. Len(blocks)
         /\ Len(blocks') = Len(blocks) + 1 /\ DOMAIN blocks' = 1 .. Len(blocks) + 1
         /\ blocks'[Len(blocks) + 1] = b
         /\ \A i \in 1 .. Len(blocks) : blocks'[i] = blocks[i]
    <2>1. blocks \in Seq(seen \cup {b}) /\ Len(blocks) \in Nat
      BY <1>4, LenProperties, SeqMonotonic DEF Listing
    <2>2. blocks' \in Seq(seen \cup {b}) /\ Len(blocks') = Len(blocks) + 1
          /\ blocks'[Len(blocks) + 1] = b
          /\ \A i \in 1 .. Len(blocks) : blocks'[i] = blocks[i]
      BY <1>1, <1>3, <2>1, AppendProperties
    <2> QED
      BY <2>1, <2>2, LenProperties
  <1>12. Undisturbed' = Undisturbed
    BY <1>2 DEF Undisturbed
  <1>13. Has(blocks) => Has(blocks')
    <2> SUFFICES ASSUME NEW i \in DOMAIN blocks, blocks[i].has PROVE Has(blocks')
      BY DEF Has
    <2>1. i \in DOMAIN blocks' /\ blocks'[i].has
      BY <1>11
    <2> QED
      BY <2>1 DEF Has
  <1>14. pool => pool' \/ Has(blocks')
    <2> SUFFICES ASSUME pool, has PROVE Has(blocks')
      BY <1>1, <1>6
    <2>1. blocks'[Len(blocks) + 1].has
      BY <1>5, <1>11, Zenon
    <2>2. Len(blocks) + 1 \in DOMAIN blocks'
      BY <1>11
    <2> QED
      BY <2>1, <2>2 DEF Has
  <1>15. Kept'
    <2>1. Has(blocks)' = Has(blocks')
      BY DEF Has
    <2> QED
      BY <1>2, <1>12, <1>13, <1>14, <2>1 DEF TxInv, Kept
  <1>16. TxTypes' /\ Stages'
    <2>1. pool' \in BOOLEAN
      BY <1>1, Zenon
    <2> QED
      BY <1>2, <2>1 DEF TxInv, TxTypes, Stages
  <1>17. PICK c : Reached(c)
    BY DEF TxInv
  <1>18. Cut(blocks', low, c)
    BY <1>1, <1>3, <1>4, <1>5, <1>17, CutAppend DEF Reached
  <1>19. NotAmong(blocks', c)
    BY <1>11, <1>17 DEF Reached, Cut, NotAmong
  <1>20. Reached(c)'
    <2>1. Cut(blocks, low, c)' /\ NotAmong(blocks, c)'
      BY <1>2, <1>18, <1>19 DEF Cut, NotAmong
    <2> QED
      BY <1>2, <1>12, <1>17, <2>1 DEF Reached
  <1> QED
    BY <1>10, <1>15, <1>16, <1>20 DEF TxInv

LEMMA OneBack ==
  ASSUME NEW l \in Nat, l > 1, NEW c \in 0 .. l
  PROVE  LET e == IF c = l THEN c - 1 ELSE c IN
         e \in 0 .. c /\ e >= c - 1 /\ e <= l - 1
  OBVIOUS

LEMMA UndoStep ==
  ASSUME TxInv, Undo
  PROVE  TxInv'
  <1>1. /\ Len(blocks) > 1 /\ blocks' = Front(blocks)
        /\ pool' = (pool \/ Last(blocks).has)
        /\ moves' = moves + 1
        /\ moved' = (moved \/ Last(blocks).has)
        /\ UNCHANGED <<seen, pc, hint, low, left, present, faults>>
    BY DEF Undo, command
  <1>2. Numbered(seen) /\ Listing(blocks, seen) /\ low \in seen \cup {NoBlock}
    BY DEF TxInv, Chains
  <1>3. Len(blocks) \in Nat /\ DOMAIN blocks = 1 .. Len(blocks)
    BY <1>2, LenProperties DEF Listing
  <1>4. /\ Listing(blocks', seen) /\ Len(blocks') = Len(blocks) - 1
        /\ \A i \in 1 .. Len(blocks) - 1 : blocks'[i] = blocks[i]
    BY <1>1, <1>2, ListingFront
  <1>5. DOMAIN blocks' = 1 .. Len(blocks) - 1
    BY <1>4, LenProperties DEF Listing
  <1>6. Chains'
    BY <1>1, <1>2, <1>4 DEF Chains, Numbered, Listing
  <1>7. TxTypes' /\ Stages'
    <2>1. pool' \in BOOLEAN /\ moved' \in BOOLEAN
      BY <1>1, Zenon
    <2> QED
      BY <1>1, <2>1 DEF TxInv, TxTypes, Stages
  <1>8. ~ moved' => ~ moved /\ ~ Last(blocks).has
    BY <1>1, Zenon
  <1>9. Undisturbed' => Undisturbed
    BY <1>1, <1>8 DEF Undisturbed
  <1>10. ~ moved' /\ Has(blocks) => Has(blocks')
    <2> SUFFICES ASSUME ~ moved', NEW i \in DOMAIN blocks, blocks[i].has
                 PROVE  Has(blocks')
      BY DEF Has
    <2>1. i # Len(blocks)
      BY <1>8 DEF Last
    <2>2. i \in 1 .. Len(blocks) - 1
      BY <1>3, <2>1
    <2>3. i \in DOMAIN blocks' /\ blocks'[i].has
      BY <1>4, <1>5, <2>2
    <2> QED
      BY <2>3 DEF Has
  <1>11. pool => pool'
    BY <1>1, Zenon
  <1>12. Kept'
    <2>1. Has(blocks)' = Has(blocks')
      BY DEF Has
    <2>2. (present /\ ~ moved)' => present /\ ~ moved
      BY <1>1, <1>8
    <2>3. Undisturbed' => ~ moved'
      BY DEF Undisturbed
    <2> QED
      BY <1>1, <1>9, <1>10, <1>11, <2>1, <2>2, <2>3 DEF TxInv, Kept
  <1>13. PICK c : Reached(c)
    BY DEF TxInv
  <1>14. PICK e : e = IF c = Len(blocks) THEN c - 1 ELSE c
    OBVIOUS
  <1>15. c \in 0 .. Len(blocks) /\ e \in 0 .. c /\ e >= c - 1 /\ e <= Len(blocks) - 1
    <2>1. c \in 0 .. Len(blocks)
      BY <1>13 DEF Reached, Cut
    <2> QED
      BY <1>1, <1>3, <1>14, <2>1, OneBack
  <1>16. Cut(blocks', low, e)
    <2>1. blocks \in Seq(seen) /\ Len(blocks) >= 1
      BY <1>2 DEF Listing
    <2> QED
      BY <1>1, <1>13, <1>14, <2>1, CutFront DEF Reached
  <1>17. NotAmong(blocks', e)
    <2> SUFFICES ASSUME NEW i \in 1 .. e PROVE ~ blocks'[i].has
      BY DEF NotAmong
    <2>1. i \in 1 .. c /\ i \in 1 .. Len(blocks) - 1
      <3>1. e <= Len(blocks) - 1 /\ e <= c
        BY <1>3, <1>15
      <3> QED
        BY <1>3, <1>15, <3>1
    <2> QED
      BY <2>1, <1>4, <1>13 DEF Reached, NotAmong
  <1>18. Reached(e)'
    <2>1. Cut(blocks, low, e)' /\ NotAmong(blocks, e)'
      BY <1>1, <1>16, <1>17 DEF Cut, NotAmong
    <2>2. low = NoBlock => e = 0
      BY <1>13, <1>15 DEF Reached
    <2>3. Undisturbed' /\ low # NoBlock =>
            e + moves' >= 1 + (MaxPasses - left) * (PageSize - 1)
      <3> SUFFICES ASSUME Undisturbed, low # NoBlock
                   PROVE  e + moves' >= 1 + (MaxPasses - left) * (PageSize - 1)
        BY <1>9
      <3> DEFINE r == (MaxPasses - left) * (PageSize - 1)
      <3>1. c + moves >= 1 + r /\ moves \in Nat
        BY <1>13 DEF Reached, TxInv, TxTypes
      <3>2. r \in Int
        BY PagesAssumption DEF TxInv, TxTypes
      <3> HIDE DEF r
      <3>3. e + moves' >= 1 + r
        BY <1>1, <1>15, <3>1, <3>2
      <3> QED
        BY <3>3 DEF r
    <2> QED
      BY <1>1, <2>1, <2>2, <2>3 DEF Reached
  <1> QED
    BY <1>6, <1>7, <1>12, <1>18 DEF TxInv

LEMMA TxStep ==
  ASSUME TxInv, Next \/ UNCHANGED vars
  PROVE  TxInv'
  <1>1. CASE LookInPool \/ PoolFails \/ LookAtHint
    BY <1>1, FirstLookStep
  <1>2. CASE LookAtPage
    <2>1. CASE Page # <<>> /\ ~ Has(Page)
      BY <1>2, <2>1, PageStep
    <2>2. CASE Page = <<>>
      <3>1. PICK c : Reached(c)
        BY DEF TxInv
      <3>2. Page # <<>>
        BY <3>1, PageIs DEF TxInv, Chains, Reached
      <3> QED
        BY <2>2, <3>2
    <2>3. CASE Page # <<>> /\ Has(Page)
      <3>1. pc' = "found" /\ faults' = faults /\ UNCHANGED <<node, hint, low, left, history>>
        BY <1>2, <2>3 DEF LookAtPage, End
      <3>2. faults' \in Nat
        BY <3>1 DEF TxInv, TxTypes
      <3> QED
        BY <3>1, <3>2, EndStep
    <2> QED
      BY <2>1, <2>2, <2>3
  <1>3. CASE RequestFails \/ BadTransaction
    <2>1. pc' = "failed" /\ UNCHANGED <<node, hint, low, left, history>>
      BY <1>3 DEF RequestFails, BadTransaction, End
    <2>2. faults' \in Nat /\ faults' # 0
      BY <1>3 DEF RequestFails, BadTransaction, TxInv, TxTypes
    <2> QED
      BY <2>1, <2>2, EndStep
  <1>4. CASE Arrive
    BY <1>4, ArriveStep
  <1>5. CASE Mine
    BY <1>5, MineStep
  <1>6. CASE Undo
    BY <1>6, UndoStep
  <1>7. CASE Evict
    BY <1>7, EvictStep
  <1>8. CASE UNCHANGED vars
    <2>1. UNCHANGED <<pool, blocks, seen, pc, hint, low, left, moves, moved, present, faults>>
      BY <1>8 DEF vars, node, command, history
    <2>2. Has(blocks)' = Has(blocks) /\ Undisturbed' = Undisturbed
      BY <2>1 DEF Has, Undisturbed
    <2>3. TxTypes' /\ Stages' /\ Kept'
      BY <2>1, <2>2 DEF TxInv, TxTypes, Stages, Kept
    <2>4. Chains'
      BY <2>1 DEF TxInv, Chains, Numbered, Listing
    <2> QED
      BY <2>1, <2>2, <2>3, <2>4, StaysReached DEF TxInv
  <1> QED
    BY <1>1, <1>2, <1>3, <1>4, <1>5, <1>6, <1>7, <1>8 DEF Next, Command

---------------------------------------------------------------------------
(* What the invariant says of `read tx`.                                   *)

LEMMA ReadTxInvariant == ReadSpec => []TxInv
  <1>1. ReadInit => TxInv
    BY TxInit DEF ReadInit, TxIdle
  <1>2. TxInv /\ [ReadNext]_readVars => TxInv'
    BY TxStep DEF ReadNext, readVars
  <1> QED
    BY <1>1, <1>2, PTL DEF ReadSpec

\* `read tx` says "transaction not found" of a transaction that was at the node
\* when it began only if the transaction was moved, the mempool could not be
\* asked, or it lies further from the oldest block the node lists than the
\* pages reach, among the newest (read_rpc.rs:28-60).
THEOREM MissedOnlyIfMovedHolds == ReadSpec => []MissedOnlyIfMoved
  <1>1. TxInv => MissedOnlyIfMoved
    <2> SUFFICES ASSUME TxInv, pc = "missing", present, ~ moved, faults = 0
                 PROVE  /\ Has(blocks)
                        /\ Position + moves > 1 + MaxPasses * (PageSize - 1)
      BY DEF MissedOnlyIfMoved, Reach
    <2>1. Has(blocks) /\ left = 0 /\ MaxPasses \in Nat \ {0}
      BY PagesAssumption DEF TxInv, Kept, Undisturbed, Stages
    <2>2. PICK c : Reached(c)
      BY DEF TxInv
    <2> DEFINE r == MaxPasses * (PageSize - 1)
    <2>3. c + moves >= 1 + (MaxPasses - 0) * (PageSize - 1)
      BY <2>1, <2>2 DEF Reached, Undisturbed, TxInv, Stages
    <2>4. c + moves >= 1 + r
      BY <2>1, <2>3
    <2>5. Position \in 1 .. Len(blocks) /\ blocks[Position].has
      <3>1. DOMAIN blocks = 1 .. Len(blocks)
        BY LenProperties DEF TxInv, Chains, Listing
      <3> QED
        BY <2>1, <3>1 DEF Has, Position
    <2>6. Len(blocks) \in Nat /\ c \in 0 .. Len(blocks)
      BY <2>2, LenProperties DEF TxInv, Chains, Listing, Reached, Cut
    <2>7. Position > c
      BY <2>2, <2>5, <2>6 DEF Reached, NotAmong
    <2>8. r \in Int /\ moves \in Nat
      BY PagesAssumption DEF TxInv, TxTypes
    <2> HIDE DEF r
    <2>9. Position + moves > 1 + r
      BY <2>4, <2>5, <2>6, <2>7, <2>8
    <2> QED
      BY <2>1, <2>9 DEF r
  <1> QED
    BY <1>1, ReadTxInvariant, PTL

\* It never says so of a transaction in the block --block-hash names
\* (read_rpc.rs:37).
THEOREM HintFindsHolds == ReadSpec => []HintFinds
  <1>1. TxInv => HintFinds
    BY DEF TxInv, Stages, HintFinds
  <1> QED
    BY <1>1, ReadTxInvariant, PTL

---------------------------------------------------------------------------
(* Rows and what decoding makes of them.                                   *)

\* rec reads as r does, whoever created the event.
ReadsAs(rec, r) ==
  /\ rec.containing_daa = r.containing_daa /\ rec.event_type = r.event_type
  /\ rec.sid = r.sid /\ rec.cid = r.cid

LEMMA SerializeIs ==
  ASSUME NEW r, NEW v \in 1 .. 3
  PROVE  LET b == Index!Serialize(r, v) IN
         /\ Len(b) = 3 + v
         /\ b[1] = r.containing_daa /\ b[2] = r.event_type
         /\ b[3] = r.sid /\ b[4] = r.cid
  <1> DEFINE t == <<r.containing_daa, r.event_type, r.sid, r.cid,
                    r.creator_address_body, {}>>
             S == {t[1], t[2], t[3], t[4], t[5], t[6]}
             b == SubSeq(t, 1, 3 + v)
  <1>1. Index!Serialize(r, v) = b
    <2>1. Index!V1Fields - 1 + v = 3 + v
      BY DEF Index!V1Fields
    <2> QED
      BY <2>1 DEF Index!Serialize
  <1>2. \A i \in 1 .. 3 + v : t[i] \in S
    BY Z3
  <1>3. /\ t[1] = r.containing_daa /\ t[2] = r.event_type /\ t[3] = r.sid /\ t[4] = r.cid
    OBVIOUS
  <1> HIDE DEF t, S
  <1>4. /\ Len(b) = IF 1 <= 3 + v THEN 3 + v - 1 + 1 ELSE 0
        /\ \A i \in 1 .. 3 + v - 1 + 1 : b[i] = t[1 + i - 1]
    <2>1. 1 \in Int /\ 3 + v \in Int
      OBVIOUS
    <2> QED
      BY <1>2, <2>1, SubSeqProperties
  <1> HIDE DEF b
  <1>5. Len(b) = 3 + v /\ \A i \in 1 .. 4 : b[i] = t[i]
    BY <1>4
  <1> QED
    BY <1>1, <1>3, <1>5

LEMMA DecodeIs ==
  ASSUME NEW r, NEW v \in 1 .. 3
  PROVE  LET recs == Index!DecodeRecord(Index!Serialize(r, v)) IN
         recs # {} /\ \A rec \in recs : ReadsAs(rec, r)
  <1> DEFINE b == Index!Serialize(r, v)
  <1>1. /\ Len(b) = 3 + v
        /\ b[1] = r.containing_daa /\ b[2] = r.event_type
        /\ b[3] = r.sid /\ b[4] = r.cid
    BY SerializeIs
  <1> HIDE DEF b
  <1>2. \A x : ReadsAs(Index!Fields(b, x), r)
    BY <1>1 DEF Index!Fields, ReadsAs
  <1>3. Len(b) >= 4
    BY <1>1
  <1>4. Index!DecodeRecord(b) # {} /\ \A rec \in Index!DecodeRecord(b) : ReadsAs(rec, r)
    <2>1. CASE Len(b) >= 5
      BY <2>1, <1>2 DEF Index!DecodeRecord, Index!V2Fields
    <2>2. CASE ~ (Len(b) >= 5)
      BY <2>2, <1>2, <1>3 DEF Index!DecodeRecord, Index!V1Fields, Index!V2Fields
    <2> QED
      BY <2>1, <2>2
  <1> QED
    BY <1>4 DEF b

\* A row cut off is one nothing was ever serialised to.
LEMMA DamagedIs ==
  ASSUME NEW b
  PROVE  Len(SubSeq(b, 1, Index!V1Fields - 1)) = 3
  <1> DEFINE S == {b[1], b[2], b[3]}
  <1>1. \A i \in 1 .. 3 : b[i] \in S
    OBVIOUS
  <1> HIDE DEF S
  <1>2. Len(SubSeq(b, 1, 3)) = IF 1 <= 3 THEN 3 - 1 + 1 ELSE 0
    BY <1>1, SubSeqProperties
  <1>3. Index!V1Fields - 1 = 3
    BY DEF Index!V1Fields
  <1> QED
    BY <1>2, <1>3

---------------------------------------------------------------------------
(* The filters.                                                            *)

LEMMA PassesIsWanted ==
  ASSUME filter \in Filters, NEW rec, NEW r, ReadsAs(rec, r), r.containing_daa \in Nat
  PROVE  Index!Passes(filter, rec) <=> Index!Wanted(r)
  <1>1. /\ filter.daa_min \subseteq Nat /\ filter.daa_max \subseteq Nat
        /\ \A x, y \in filter.sid : x = y
        /\ \A x, y \in filter.cid : x = y
        /\ \A x, y \in filter.daa_min : x = y
        /\ \A x, y \in filter.daa_max : x = y
    BY FiltersAssumption
  <1>2. filter.event_type \subseteq {rec.event_type}
          <=> \A t \in filter.event_type : r.event_type = t
    BY DEF ReadsAs
  <1>3. filter.sid = {} \/ rec.sid = filter.sid <=> \A s \in filter.sid : r.sid = {s}
    <2>1. ASSUME NEW s \in filter.sid PROVE filter.sid = {s}
      BY <1>1
    <2> QED
      BY <2>1 DEF ReadsAs
  <1>4. filter.cid = {} \/ rec.cid = filter.cid <=> \A c \in filter.cid : r.cid = {c}
    <2>1. ASSUME NEW c \in filter.cid PROVE filter.cid = {c}
      BY <1>1
    <2> QED
      BY <2>1 DEF ReadsAs
  <1>5. (\A lo \in filter.daa_min : rec.containing_daa >= lo)
          <=> filter.daa_min = {} \/ r.containing_daa >= Index!Max(filter.daa_min)
    <2> SUFFICES ASSUME NEW lo \in filter.daa_min PROVE Index!Max(filter.daa_min) = lo
      BY <1>1 DEF ReadsAs
    <2>1. \E x \in filter.daa_min : \A y \in filter.daa_min : x >= y
      BY <1>1
    <2>2. Index!Max(filter.daa_min) \in filter.daa_min
      BY <2>1 DEF Index!Max
    <2> QED
      BY <1>1, <2>2
  <1>6. (\A hi \in filter.daa_max : rec.containing_daa <= hi)
          <=> filter.daa_max = {} \/ r.containing_daa <= Index!Min(filter.daa_max)
    <2> SUFFICES ASSUME NEW hi \in filter.daa_max PROVE Index!Min(filter.daa_max) = hi
      BY <1>1 DEF ReadsAs
    <2>1. \E x \in filter.daa_max : \A y \in filter.daa_max : x <= y
      BY <1>1
    <2>2. Index!Min(filter.daa_max) \in filter.daa_max
      BY <2>1 DEF Index!Min
    <2> QED
      BY <1>1, <2>2
  <1> QED
    BY <1>2, <1>3, <1>4, <1>5, <1>6 DEF Index!Passes, Index!Wanted

---------------------------------------------------------------------------
(* The listing.                                                            *)

\* What kept[n] of Filtered is, given the ones before it.
Keep(f, es, k, n) ==
  IF n = 0 THEN <<>>
  ELSE IF Index!Passes(f, es[n].rec)
    THEN Append(k[n - 1], Index!Shown(es[n].key, es[n].rec))
  ELSE k[n - 1]
Keeps(k, f, es, m) == k = [n \in 0 .. m |-> Keep(f, es, k, n)]

LEMMA KeepsExists ==
  ASSUME NEW f, NEW es, NEW m \in Nat
  PROVE  \E k : Keeps(k, f, es, m)
  <1> DEFINE A == {n \in 0 .. m : ~ \E k : Keeps(k, f, es, n)}
  <1> SUFFICES ASSUME A # {} PROVE FALSE
    OBVIOUS
  <1>1. PICK a \in A : \A b \in A : a <= b
    <2>1. A \in SUBSET (0 .. m)
      OBVIOUS
    <2> HIDE DEF A
    <2> QED
      BY <2>1, LeastIn
  <1>2. a \in 0 .. m /\ ~ \E k : Keeps(k, f, es, a)
    OBVIOUS
  <1>3. a # 0
    <2> DEFINE k == [n \in 0 .. 0 |-> <<>>]
    <2>1. Keeps(k, f, es, 0)
      BY DEF Keeps, Keep
    <2> QED
      BY <2>1, <1>2
  <1>4. a - 1 \in 0 .. m /\ a - 1 \notin A
    BY <1>1, <1>2, <1>3
  <1>5. PICK h : Keeps(h, f, es, a - 1)
    BY <1>4
  <1> DEFINE k == [n \in 0 .. a |-> IF n = a THEN Keep(f, es, h, a) ELSE h[n]]
  <1>6. \A n \in 0 .. a - 1 : k[n] = h[n]
    BY <1>2
  <1>7. ASSUME NEW n \in 0 .. a PROVE k[n] = Keep(f, es, k, n)
    <2>1. n = 0 \/ k[n - 1] = h[n - 1]
      BY <1>6
    <2>2. Keep(f, es, k, n) = Keep(f, es, h, n)
      <3> HIDE DEF k
      <3> QED
        BY <2>1 DEF Keep
    <2>3. CASE n = a
      BY <2>2, <2>3
    <2>4. CASE n # a
      <3>1. n \in 0 .. a - 1
        BY <2>4
      <3>2. h[n] = Keep(f, es, h, n)
        BY <1>5, <3>1 DEF Keeps
      <3> QED
        BY <1>6, <2>2, <3>1, <3>2
    <2> QED
      BY <2>3, <2>4
  <1>8. Keeps(k, f, es, a)
    <2> DEFINE G(n) == IF n = a THEN Keep(f, es, h, a) ELSE h[n]
    <2>1. \A n \in 0 .. a : G(n) = Keep(f, es, k, n)
      BY <1>7
    <2>2. k = [n \in 0 .. a |-> G(n)]
      OBVIOUS
    <2> HIDE DEF k, G
    <2> QED
      BY <2>1, <2>2 DEF Keeps
  <1> QED
    BY <1>2, <1>8

\* s shows the first n entries that pass, each once.
Prints(s, f, es, n) ==
  /\ s \in Seq(Range(s)) /\ IsInjective(s)
  /\ Range(s) = {Index!Shown(es[i].key, es[i].rec) :
                   i \in {j \in 1 .. n : Index!Passes(f, es[j].rec)}}

DistinctKeys(es, m) == \A i, j \in 1 .. m : es[i].key = es[j].key => i = j

LEMMA AppendNew ==
  ASSUME NEW s, s \in Seq(Range(s)), IsInjective(s), NEW x, x \notin Range(s)
  PROVE  LET t == Append(s, x) IN
         t \in Seq(Range(t)) /\ IsInjective(t) /\ Range(t) = Range(s) \cup {x}
  <1> DEFINE t == Append(s, x)
             S == Range(s) \cup {x}
  <1>1. s \in Seq(S)
    BY SeqMonotonic
  <1>2. /\ t \in Seq(S) /\ Len(t) = Len(s) + 1 /\ t[Len(s) + 1] = x
        /\ \A i \in 1 .. Len(s) : t[i] = s[i]
    BY <1>1, AppendProperties
  <1>3. Len(s) \in Nat /\ DOMAIN s = 1 .. Len(s) /\ DOMAIN t = 1 .. Len(s) + 1
    BY <1>1, <1>2, LenProperties
  <1> HIDE DEF t
  <1>4. t \in Seq(Range(t))
    BY <1>2, SeqOfRange
  <1>5. \A i \in 1 .. Len(s) : s[i] # x
    BY <1>3 DEF Range
  <1>6. IsInjective(t)
    <2> SUFFICES ASSUME NEW i \in DOMAIN t, NEW j \in DOMAIN t, t[i] = t[j] PROVE i = j
      BY DEF IsInjective
    <2>1. (i \in 1 .. Len(s) \/ i = Len(s) + 1) /\ (j \in 1 .. Len(s) \/ j = Len(s) + 1)
      BY <1>3
    <2>2. CASE i \in 1 .. Len(s) /\ j \in 1 .. Len(s)
      BY <2>2, <1>2, <1>3 DEF IsInjective
    <2> QED
      BY <2>1, <2>2, <1>2, <1>5
  <1>7. Range(t) = S
    <2>1. \A i \in DOMAIN t : t[i] \in S
      BY <1>2, <1>3, ElementOfSeq
    <2>2. x \in Range(t)
      BY <1>2, <1>3 DEF Range
    <2>3. \A i \in DOMAIN s : s[i] = t[i] /\ i \in DOMAIN t
      BY <1>2, <1>3
    <2> QED
      BY <2>1, <2>2, <2>3 DEF Range
  <1> QED
    BY <1>4, <1>6, <1>7 DEF t

LEMMA KeptPrints ==
  ASSUME NEW f, NEW es, NEW m \in Nat, NEW k, Keeps(k, f, es, m), DistinctKeys(es, m)
  PROVE  \A n \in 0 .. m : Prints(k[n], f, es, n)
  <1> DEFINE A == {n \in 0 .. m : ~ Prints(k[n], f, es, n)}
  <1> SUFFICES ASSUME A # {} PROVE FALSE
    OBVIOUS
  <1>1. PICK a \in A : \A b \in A : a <= b
    <2>1. A \in SUBSET (0 .. m)
      OBVIOUS
    <2> HIDE DEF A
    <2> QED
      BY <2>1, LeastIn
  <1>2. a \in 0 .. m /\ ~ Prints(k[a], f, es, a)
    OBVIOUS
  <1>3. k[a] = Keep(f, es, k, a)
    BY <1>2 DEF Keeps
  <1>4. a # 0
    <2> SUFFICES ASSUME a = 0 PROVE Prints(<<>>, f, es, 0)
      BY <1>2, <1>3 DEF Keep
    <2>1. Range(<<>>) = {}
      BY DEF Range
    <2>2. <<>> \in Seq({}) /\ IsInjective(<<>>)
      BY EmptySeq DEF IsInjective
    <2> QED
      BY <2>1, <2>2 DEF Prints
  <1>5. a - 1 \in 0 .. m /\ a - 1 \notin A
    BY <1>1, <1>2, <1>4
  <1>6. Prints(k[a - 1], f, es, a - 1)
    BY <1>5
  <1> HIDE DEF A
  <1> DEFINE show(i) == Index!Shown(es[i].key, es[i].rec)
             J(n) == {j \in 1 .. n : Index!Passes(f, es[j].rec)}
             x == show(a)
  <1>7. /\ k[a - 1] \in Seq(Range(k[a - 1])) /\ IsInjective(k[a - 1])
        /\ Range(k[a - 1]) = {show(i) : i \in J(a - 1)}
    BY <1>6 DEF Prints
  <1>8. CASE Index!Passes(f, es[a].rec)
    <2>1. k[a] = Append(k[a - 1], x)
      BY <1>3, <1>4, <1>8 DEF Keep
    <2>2. x \notin Range(k[a - 1])
      <3> SUFFICES ASSUME NEW i \in J(a - 1), show(i) = x PROVE FALSE
        BY <1>7
      <3>1. es[i].key = es[a].key
        BY DEF Index!Shown
      <3>2. i \in 1 .. m /\ a \in 1 .. m /\ i # a
        BY <1>2, <1>4
      <3> QED
        BY <3>1, <3>2 DEF DistinctKeys
    <2>3. J(a) = J(a - 1) \cup {a}
      BY <1>2, <1>4, <1>8
    <2>4. {show(i) : i \in J(a)} = {show(i) : i \in J(a - 1)} \cup {x}
      BY <2>3
    <2> HIDE DEF x, J, show
    <2>5. /\ k[a] \in Seq(Range(k[a])) /\ IsInjective(k[a])
          /\ Range(k[a]) = Range(k[a - 1]) \cup {x}
      BY <1>7, <2>1, <2>2, AppendNew
    <2>6. Range(k[a]) = {show(i) : i \in J(a)}
      BY <1>7, <2>4, <2>5
    <2>7. Prints(k[a], f, es, a)
      BY <2>5, <2>6 DEF Prints, J, show
    <2> QED
      BY <1>2, <2>7
  <1>9. CASE ~ Index!Passes(f, es[a].rec)
    <2>1. k[a] = k[a - 1]
      BY <1>3, <1>4, <1>9 DEF Keep
    <2>2. J(a) = J(a - 1)
      BY <1>2, <1>4, <1>9
    <2>3. Prints(k[a], f, es, a)
      BY <1>7, <2>1, <2>2 DEF Prints
    <2> QED
      BY <1>2, <2>3
  <1> QED
    BY <1>8, <1>9

LEMMA FilteredPrints ==
  ASSUME NEW f, NEW es, Len(es) \in Nat, DistinctKeys(es, Len(es))
  PROVE  Prints(Index!Filtered(f, es), f, es, Len(es))
  <1> DEFINE m == Len(es)
             k == CHOOSE g : Keeps(g, f, es, m)
  <1>1. Keeps(k, f, es, m)
    BY KeepsExists
  <1>2. Index!Filtered(f, es) = k[m]
    BY DEF Index!Filtered, Keeps, Keep
  <1> HIDE DEF k
  <1>3. m \in 0 .. m
    OBVIOUS
  <1> QED
    BY <1>1, <1>2, <1>3, KeptPrints

---------------------------------------------------------------------------
(* The inductive invariant of `read index`.                                *)

\* A row is its record as some version wrote it, or is cut off.
Row(b, r) == (\E v \in 1 .. 3 : b = Index!Serialize(r, v)) \/ Len(b) = 3

TableOK ==
  /\ DOMAIN written = DOMAIN table /\ DOMAIN table \subseteq Range(Keys)
  /\ \A k \in DOMAIN table : written[k] \in Records /\ Row(table[k], written[k])

\* The rows up to `at` are loaded, each once, as they were recorded.
LoadedKeys == {Keys[j] : j \in {i \in 1 .. Len(Keys) : i <= at /\ Keys[i] \in DOMAIN table}}
Loaded ==
  /\ entries \in Seq(Range(entries))
  /\ \A i \in 1 .. Len(entries) :
       /\ entries[i].key \in DOMAIN table
       /\ ReadsAs(entries[i].rec, written[entries[i].key])
  /\ {entries[i].key : i \in 1 .. Len(entries)} = LoadedKeys
  /\ DistinctKeys(entries, Len(entries))

\* None of them is damaged.
LoadedSound == \A x \in LoadedKeys : Index!Sound(x)

IndexInv ==
  /\ listing \in {"closed", "loading", "printed", "failed"}
  /\ version \in 1 .. 3 /\ filter \in Filters /\ at \in 0 .. Len(Keys)
  /\ TableOK
  /\ listing = "closed" => at = 0 /\ entries = <<>>
  /\ listing \in {"closed", "loading"} => Loaded /\ LoadedSound /\ ~ broken
  /\ ListsWhatWasRecorded /\ AllOrNothing

LEMMA KeysFacts ==
  /\ Len(Keys) \in Nat /\ DOMAIN Keys = 1 .. Len(Keys)
  /\ \A i, j \in 1 .. Len(Keys) : Keys[i] = Keys[j] => i = j
  /\ Range(Keys) = {Keys[i] : i \in 1 .. Len(Keys)}
  <1>1. Len(Keys) \in Nat /\ DOMAIN Keys = 1 .. Len(Keys)
    BY TableAssumption, LenProperties
  <1> QED
    BY <1>1, TableAssumption DEF IsInjective, Range

LEMMA NothingLoaded ==
  ASSUME at = 0, entries = <<>>
  PROVE  Loaded /\ LoadedSound
  <1>1. LoadedKeys = {}
    BY KeysFacts DEF LoadedKeys
  <1>2. <<>> \in Seq(Range(<<>>)) /\ Len(<<>>) = 0
    BY EmptySeq
  <1> QED
    BY <1>1, <1>2 DEF Loaded, LoadedSound, DistinctKeys

LEMMA IndexInitially == Index!Init => IndexInv
  <1> SUFFICES ASSUME Index!Init PROVE IndexInv
    OBVIOUS
  <1>1. /\ table = <<>> /\ written = <<>> /\ version = 1 /\ listing = "closed"
        /\ filter \in Filters /\ at = 0 /\ entries = <<>> /\ ~ broken
    BY DEF Index!Init
  <1>2. TableOK
    BY <1>1 DEF TableOK
  <1>3. Loaded /\ LoadedSound
    BY <1>1, NothingLoaded
  <1>4. ListsWhatWasRecorded /\ AllOrNothing
    BY <1>1 DEF ListsWhatWasRecorded, AllOrNothing,
                Index!ListsWhatWasRecorded, Index!AllOrNothing
  <1>5. version \in 1 .. 3 /\ at \in 0 .. Len(Keys)
    BY <1>1, KeysFacts
  <1> QED
    BY <1>1, <1>2, <1>3, <1>4, <1>5 DEF IndexInv

\* What the indexer does before the command opens the table.
LEMMA IndexerStep ==
  ASSUME IndexInv, listing = "closed", TableOK', version' \in 1 .. 3,
         UNCHANGED <<listing, filter, at, entries, broken>>
  PROVE  IndexInv'
  <1>1. (at = 0 /\ entries = <<>>)'
    BY DEF IndexInv
  <1>2. Loaded' /\ LoadedSound'
    <2>1. LoadedKeys' = {}
      BY <1>1, KeysFacts DEF LoadedKeys
    <2>2. <<>> \in Seq(Range(<<>>)) /\ Len(<<>>) = 0
      BY EmptySeq
    <2> QED
      BY <1>1, <2>1, <2>2 DEF Loaded, LoadedSound, DistinctKeys
  <1>3. (ListsWhatWasRecorded /\ AllOrNothing)'
    BY DEF ListsWhatWasRecorded, AllOrNothing,
           Index!ListsWhatWasRecorded, Index!AllOrNothing
  <1> QED
    BY <1>1, <1>2, <1>3 DEF IndexInv

LEMMA WriteStep ==
  ASSUME IndexInv, NEW k \in Index!Range(Keys), NEW r \in Records, Index!Write(k, r)
  PROVE  IndexInv'
  <1>1. /\ listing = "closed" /\ k \notin DOMAIN table
        /\ table' = [x \in DOMAIN table \cup {k} |->
                       IF x = k THEN Index!Serialize(r, version) ELSE table[x]]
        /\ written' = [x \in DOMAIN written \cup {k} |-> IF x = k THEN r ELSE written[x]]
        /\ UNCHANGED <<version, listing, filter, at, entries, broken>>
    BY DEF Index!Write, Index!Put
  <1>2. k \in Range(Keys) /\ version \in 1 .. 3
    BY DEF Index!Range, Range, IndexInv
  <1>3. DOMAIN table' = DOMAIN table \cup {k} /\ DOMAIN written' = DOMAIN written \cup {k}
    BY <1>1
  <1>4. ASSUME NEW x \in DOMAIN table'
        PROVE  written'[x] \in Records /\ Row(table'[x], written'[x])
    <2>1. CASE x = k
      BY <1>1, <1>2, <1>3, <2>1 DEF Row
    <2>2. CASE x # k
      BY <1>1, <1>3, <2>2 DEF IndexInv, TableOK
    <2> QED
      BY <2>1, <2>2
  <1>5. TableOK'
    BY <1>2, <1>3, <1>4 DEF IndexInv, TableOK
  <1> QED
    BY <1>1, <1>2, <1>5, IndexerStep

LEMMA TakeBackStep ==
  ASSUME IndexInv, NEW k \in DOMAIN table, Index!Undo(k)
  PROVE  IndexInv'
  <1>1. /\ listing = "closed"
        /\ table' = [x \in DOMAIN table \ {k} |-> table[x]]
        /\ written' = [x \in DOMAIN written \ {k} |-> written[x]]
        /\ UNCHANGED <<version, listing, filter, at, entries, broken>>
    BY DEF Index!Undo, Index!Drop
  <1>2. TableOK'
    BY <1>1 DEF IndexInv, TableOK
  <1> QED
    BY <1>1, <1>2, IndexerStep DEF IndexInv

LEMMA DamageStep ==
  ASSUME IndexInv, NEW k \in DOMAIN table, Index!Damage(k)
  PROVE  IndexInv'
  <1>1. /\ listing = "closed"
        /\ table' = [table EXCEPT ![k] = SubSeq(table[k], 1, Index!V1Fields - 1)]
        /\ UNCHANGED <<written, version, listing, filter, at, entries, broken>>
    BY DEF Index!Damage
  <1>2. Len(table'[k]) = 3
    BY <1>1, DamagedIs
  <1>3. DOMAIN table' = DOMAIN table /\ \A x \in DOMAIN table : x # k => table'[x] = table[x]
    BY <1>1
  <1>4. TableOK'
    BY <1>1, <1>2, <1>3 DEF IndexInv, TableOK, Row
  <1> QED
    BY <1>1, <1>4, IndexerStep DEF IndexInv

LEMMA UpgradeStep ==
  ASSUME IndexInv, Index!Upgrade
  PROVE  IndexInv'
  <1>1. /\ listing = "closed" /\ version < 3 /\ version' = version + 1
        /\ UNCHANGED <<table, written, listing, filter, at, entries, broken>>
    BY DEF Index!Upgrade
  <1>2. version' \in 1 .. 3 /\ TableOK'
    BY <1>1 DEF IndexInv, TableOK
  <1> QED
    BY <1>1, <1>2, IndexerStep

\* What a listing has to hold.
Recorded ==
  {Index!Shown(k, written[k]) : k \in {x \in DOMAIN written : Index!Wanted(written[x])}}

LEMMA RecordedStays ==
  ASSUME UNCHANGED <<written, filter>>
  PROVE  Recorded' = Recorded
  BY DEF Recorded, Index!Wanted

\* The listing does not end in this step, or has ended before it.
LEMMA NoVerdict ==
  ASSUME IndexInv, UNCHANGED <<table, written, filter>>,
         \/ listing' \in {"closed", "loading"}
         \/ UNCHANGED <<listing, entries, broken>>
  PROVE  (ListsWhatWasRecorded /\ AllOrNothing)'
  <1>1. CASE listing' \in {"closed", "loading"}
    BY <1>1 DEF ListsWhatWasRecorded, AllOrNothing,
                Index!ListsWhatWasRecorded, Index!AllOrNothing
  <1>2. CASE UNCHANGED <<listing, entries, broken>>
    <2>1. ListsWhatWasRecorded'
      BY <1>2, RecordedStays DEF IndexInv, ListsWhatWasRecorded,
                                 Index!ListsWhatWasRecorded, Recorded
    <2>2. AllOrNothing'
      BY <1>2 DEF IndexInv, AllOrNothing, Index!AllOrNothing, Index!Sound
    <2> QED
      BY <2>1, <2>2
  <1> QED
    BY <1>1, <1>2

LEMMA OpenStep ==
  ASSUME IndexInv, Index!Open
  PROVE  IndexInv'
  <1>1. /\ listing = "closed" /\ listing' = "loading"
        /\ UNCHANGED <<table, written, version, filter, at, entries, broken>>
    BY DEF Index!Open
  <1>2. Loaded' /\ LoadedSound' /\ TableOK'
    BY <1>1 DEF IndexInv, Loaded, LoadedSound, LoadedKeys, DistinctKeys, TableOK,
                Index!Sound
  <1>3. (ListsWhatWasRecorded /\ AllOrNothing)'
    BY <1>1, NoVerdict
  <1> QED
    BY <1>1, <1>2, <1>3 DEF IndexInv

\* The command ends without a listing, and has a reason.
LEMMA FailStep ==
  ASSUME IndexInv, listing \in {"closed", "loading"}, listing' = "failed",
         UNCHANGED <<table, written, version, filter, at, entries>>,
         \/ broken' \/ Index!Malformed(filter)
         \/ \E k \in DOMAIN table : ~ Index!Sound(k)
  PROVE  IndexInv'
  <1>1. TableOK'
    BY DEF IndexInv, TableOK
  <1>2. ListsWhatWasRecorded'
    BY DEF ListsWhatWasRecorded, Index!ListsWhatWasRecorded
  <1>3. AllOrNothing'
    BY DEF AllOrNothing, Index!AllOrNothing, Index!Sound
  <1> QED
    BY <1>1, <1>2, <1>3 DEF IndexInv

\* What Load loads, if it loads anything.
LEMMA NextRow ==
  ASSUME IndexInv, Index!Load
  PROVE  LET i == Index!Min(Index!Ahead) IN
         /\ i \in 1 .. Len(Keys) /\ i > at /\ Keys[i] \in DOMAIN table
         /\ \A j \in 1 .. Len(Keys) : j > at /\ Keys[j] \in DOMAIN table => i <= j
  <1> DEFINE A == Index!Ahead
  <1>1. A # {} /\ A = {i \in 1 .. Len(Keys) : i > at /\ Keys[i] \in DOMAIN table}
    BY KeysFacts DEF Index!Load, Index!Ahead
  <1>2. A \in SUBSET (0 .. Len(Keys)) /\ Len(Keys) \in Nat
    BY <1>1, KeysFacts
  <1>3. \E a \in A : \A b \in A : a <= b
    <2> HIDE DEF A
    <2> QED
      BY <1>1, <1>2, LeastIn
  <1>4. Index!Min(A) \in A /\ \A b \in A : Index!Min(A) <= b
    <2> HIDE DEF A
    <2> QED
      BY <1>3 DEF Index!Min
  <1> QED
    BY <1>1, <1>4

LEMMA LoadStep ==
  ASSUME IndexInv, Index!Load
  PROVE  IndexInv'
  <1>1. PICK i : i = Index!Min(Index!Ahead)
    OBVIOUS
  <1>2. PICK k : k = Keys[i]
    OBVIOUS
  <1>3. /\ i \in 1 .. Len(Keys) /\ i > at /\ k \in DOMAIN table
        /\ \A j \in 1 .. Len(Keys) : j > at /\ Keys[j] \in DOMAIN table => i <= j
    BY <1>1, <1>2, NextRow
  <1>4. /\ listing = "loading" /\ UNCHANGED <<table, written, version, filter, broken>>
        /\ \/ /\ k \in BadKeys \/ Index!DecodeRecord(table[k]) = {}
              /\ listing' = "failed" /\ UNCHANGED <<at, entries>>
           \/ /\ k \notin BadKeys /\ at' = i /\ listing' = listing
              /\ \E rec \in Index!DecodeRecord(table[k]) :
                   entries' = Append(entries, [key |-> k, rec |-> rec])
    BY <1>1, <1>2 DEF Index!Load
  <1>5. TableOK' /\ Row(table[k], written[k])
    BY <1>3, <1>4 DEF IndexInv, TableOK
  <1>6. CASE (k \in BadKeys \/ Index!DecodeRecord(table[k]) = {}) /\ listing' = "failed"
             /\ UNCHANGED <<at, entries>>
    <2>1. ~ Index!Sound(k)
      BY <1>6, DecodeIs DEF Index!Sound
    <2> QED
      BY <1>3, <1>4, <1>6, <2>1, FailStep
  <1>7. CASE k \notin BadKeys /\ at' = i /\ listing' = listing
             /\ \E rec \in Index!DecodeRecord(table[k]) :
                  entries' = Append(entries, [key |-> k, rec |-> rec])
    <2>1. PICK rec \in Index!DecodeRecord(table[k]) :
                 entries' = Append(entries, [key |-> k, rec |-> rec])
      BY <1>7
    <2>2. ReadsAs(rec, written[k])
      <3>1. CASE Len(table[k]) = 3
        BY <2>1, <3>1 DEF Index!DecodeRecord, Index!V1Fields, Index!V2Fields
      <3>2. CASE \E v \in 1 .. 3 : table[k] = Index!Serialize(written[k], v)
        BY <2>1, <3>2, DecodeIs
      <3> QED
        BY <1>5, <3>1, <3>2 DEF Row
    <2>3. PICK e : e = [key |-> k, rec |-> rec]
      OBVIOUS
    <2>4. e.key = k /\ e.rec = rec
      BY <2>3
    <2>5. Loaded /\ at \in 0 .. Len(Keys)
      BY <1>4 DEF IndexInv
    <2> DEFINE n == Len(entries)
               S == Range(entries) \cup {e}
    <2>6. entries \in Seq(S) /\ n \in Nat
      BY <2>5, SeqMonotonic, LenProperties DEF Loaded
    <2>7. /\ entries' \in Seq(S) /\ Len(entries') = n + 1 /\ entries'[n + 1] = e
          /\ \A j \in 1 .. n : entries'[j] = entries[j]
      BY <2>1, <2>3, <2>6, AppendProperties
    <2> HIDE DEF S
    <2>8. entries' \in Seq(Range(entries'))
      BY <2>7, SeqOfRange
    <2>9. LoadedKeys' = LoadedKeys \cup {k}
      <3> DEFINE J == {j \in 1 .. Len(Keys) : j <= at /\ Keys[j] \in DOMAIN table}
                 L == {j \in 1 .. Len(Keys) : j <= i /\ Keys[j] \in DOMAIN table}
      <3>1. L = J \cup {i}
        <4>1. ASSUME NEW j \in L PROVE j \in J \cup {i}
          BY <1>3, <2>5, KeysFacts
        <4>2. J \subseteq L /\ i \in L
          BY <1>2, <1>3, <2>5, KeysFacts
        <4> QED
          BY <4>1, <4>2
      <3>2. LoadedKeys = {Keys[j] : j \in J} /\ LoadedKeys' = {Keys[j] : j \in L}
        BY <1>4, <1>7 DEF LoadedKeys
      <3> HIDE DEF J, L
      <3> QED
        BY <1>2, <3>1, <3>2
    <2>10. k \notin LoadedKeys
      BY <1>2, <1>3, <2>5, KeysFacts DEF LoadedKeys
    <2>11. {entries'[j].key : j \in 1 .. n + 1} = {entries[j].key : j \in 1 .. n} \cup {k}
      BY <2>4, <2>6, <2>7
    <2>12. \A j \in 1 .. n : entries[j].key # k
      BY <2>5, <2>10 DEF Loaded
    <2>13. DistinctKeys(entries', n + 1)
      <3> SUFFICES ASSUME NEW x \in 1 .. n + 1, NEW y \in 1 .. n + 1,
                          entries'[x].key = entries'[y].key
                   PROVE  x = y
        BY DEF DistinctKeys
      <3>1. (x \in 1 .. n \/ x = n + 1) /\ (y \in 1 .. n \/ y = n + 1)
        BY <2>6
      <3>2. CASE x \in 1 .. n /\ y \in 1 .. n
        BY <3>2, <2>5, <2>7 DEF Loaded, DistinctKeys
      <3> QED
        BY <3>1, <3>2, <2>4, <2>7, <2>12
    <2>14. \A j \in 1 .. n + 1 :
             entries'[j].key \in DOMAIN table
             /\ ReadsAs(entries'[j].rec, written[entries'[j].key])
      <3> TAKE j \in 1 .. n + 1
      <3>1. CASE j = n + 1
        BY <3>1, <1>3, <2>2, <2>4, <2>7
      <3>2. CASE j \in 1 .. n
        BY <3>2, <2>5, <2>7 DEF Loaded
      <3> QED
        BY <3>1, <3>2, <2>6
    <2>15. Loaded'
      <3>1. {entries[j].key : j \in 1 .. n} = LoadedKeys
        BY <2>5 DEF Loaded
      <3> QED
        BY <1>4, <2>7, <2>8, <2>9, <2>11, <2>13, <2>14, <3>1 DEF Loaded, DistinctKeys
    <2>16. (ListsWhatWasRecorded /\ AllOrNothing)'
      BY <1>4, <1>7, NoVerdict
    <2>17. at' \in 0 .. Len(Keys)
      BY <1>3, <1>7, KeysFacts
    <2>18. LoadedSound'
      <3>1. Index!Sound(k)
        <4>1. Len(table[k]) # 3
          <5> SUFFICES ASSUME Len(table[k]) = 3 PROVE FALSE
            OBVIOUS
          <5>1. Index!DecodeRecord(table[k]) = {}
            BY DEF Index!DecodeRecord, Index!V1Fields, Index!V2Fields
          <5> QED
            BY <2>1, <5>1
        <4> QED
          BY <1>5, <1>7, <4>1 DEF Row, Index!Sound
      <3>2. LoadedSound
        BY <1>4 DEF IndexInv
      <3> QED
        BY <1>4, <2>9, <3>1, <3>2 DEF LoadedSound, Index!Sound
    <2> QED
      BY <1>4, <1>5, <1>7, <2>15, <2>16, <2>17, <2>18 DEF IndexInv
  <1> QED
    BY <1>4, <1>6, <1>7

LEMMA PrintStep ==
  ASSUME IndexInv, Index!PrintEvents, listing' = "printed"
  PROVE  IndexInv'
  <1>1. /\ listing = "loading" /\ Index!Ahead = {} /\ ~ Index!Malformed(filter)
        /\ entries' = Index!Filtered(filter, entries)
        /\ UNCHANGED <<table, written, version, filter, at, broken>>
    BY DEF Index!PrintEvents
  <1>2. Loaded /\ LoadedSound /\ ~ broken /\ TableOK /\ at \in 0 .. Len(Keys) /\ filter \in Filters
    BY <1>1 DEF IndexInv
  <1> DEFINE n == Len(entries)
             J == {j \in 1 .. n : Index!Passes(filter, entries[j].rec)}
             K == {x \in DOMAIN written : Index!Wanted(written[x])}
  <1>3. n \in Nat
    BY <1>2, LenProperties DEF Loaded
  <1>4. Prints(entries', filter, entries, n)
    BY <1>1, <1>2, <1>3, FilteredPrints DEF Loaded
  <1>5. {entries[j].key : j \in 1 .. n} = DOMAIN table /\ LoadedKeys = DOMAIN table
    <2>1. \A j \in 1 .. Len(Keys) : Keys[j] \in DOMAIN table => j <= at
      BY <1>1, <1>2, KeysFacts DEF Index!Ahead
    <2>2. LoadedKeys = DOMAIN table
      <3>1. LoadedKeys \subseteq DOMAIN table
        BY DEF LoadedKeys
      <3>2. ASSUME NEW x \in DOMAIN table PROVE x \in LoadedKeys
        <4>1. PICK j \in 1 .. Len(Keys) : x = Keys[j]
          BY <1>2, KeysFacts DEF TableOK
        <4> QED
          BY <2>1, <4>1 DEF LoadedKeys
      <3> QED
        BY <3>1, <3>2
    <2> QED
      BY <1>2, <2>2 DEF Loaded
  <1>6. ASSUME NEW j \in 1 .. n
        PROVE  LET x == entries[j].key IN
               /\ x \in DOMAIN written
               /\ Index!Shown(x, entries[j].rec) = Index!Shown(x, written[x])
               /\ Index!Passes(filter, entries[j].rec) <=> Index!Wanted(written[x])
    <2> DEFINE x == entries[j].key
    <2>1. x \in DOMAIN table /\ ReadsAs(entries[j].rec, written[x])
      BY <1>2 DEF Loaded
    <2>2. x \in DOMAIN written /\ written[x] \in Records
      BY <1>2, <2>1 DEF TableOK
    <2>3. Index!Shown(x, entries[j].rec) = Index!Shown(x, written[x])
      BY <2>1 DEF ReadsAs, Index!Shown
    <2>4. written[x].containing_daa \in Nat
      BY <2>2, TableAssumption
    <2>5. Index!Passes(filter, entries[j].rec) <=> Index!Wanted(written[x])
      BY <1>2, <2>1, <2>4, PassesIsWanted
    <2> QED
      BY <2>2, <2>3, <2>5
  <1>7. {Index!Shown(entries[j].key, entries[j].rec) : j \in J} = Recorded
    <2> DEFINE shown(j) == Index!Shown(entries[j].key, entries[j].rec)
               wanted(x) == Index!Shown(x, written[x])
    <2>1. ASSUME NEW j \in J PROVE \E x \in K : shown(j) = wanted(x)
      BY <1>6
    <2>2. ASSUME NEW x \in K PROVE \E j \in J : shown(j) = wanted(x)
      <3>1. PICK j \in 1 .. n : entries[j].key = x
        BY <1>2, <1>5 DEF TableOK
      <3>2. j \in J /\ shown(j) = wanted(x)
        BY <1>6, <3>1
      <3> QED
        BY <3>2
    <2>3. {shown(j) : j \in J} = {wanted(x) : x \in K}
      <3> HIDE DEF shown, wanted, J, K
      <3> QED
        BY <2>1, <2>2
    <2> QED
      BY <2>3 DEF Recorded
  <1>8. Range(entries') = Recorded /\ IsInjective(entries')
    BY <1>4, <1>7 DEF Prints
  <1>9. ListsWhatWasRecorded'
    <2>1. Index!Range(entries') = Range(entries')
      BY DEF Index!Range, Range
    <2>2. Index!IsInjective(entries')
      BY <1>8 DEF Index!IsInjective, IsInjective
    <2>3. Recorded' = Recorded
      BY <1>1, RecordedStays
    <2>4. Index!Range(entries') = Recorded'
      BY <1>8, <2>1, <2>3
    <2> QED
      BY <2>2, <2>4 DEF ListsWhatWasRecorded, Index!ListsWhatWasRecorded, Recorded
  <1>10. AllOrNothing'
    BY <1>1, <1>2, <1>5 DEF AllOrNothing, LoadedSound, Index!AllOrNothing,
                            Index!Malformed, Index!Sound
  <1>11. TableOK'
    BY <1>1, <1>2 DEF TableOK
  <1> QED
    BY <1>1, <1>9, <1>10, <1>11 DEF IndexInv

LEMMA IndexStep ==
  ASSUME IndexInv, Index!Next \/ UNCHANGED indexVars
  PROVE  IndexInv'
  <1>1. CASE \E k \in Index!Range(Keys) : \E r \in Records : Index!Write(k, r)
    BY <1>1, WriteStep
  <1>2. CASE \E k \in DOMAIN table : Index!Undo(k) \/ Index!Damage(k)
    BY <1>2, TakeBackStep, DamageStep
  <1>3. CASE Index!Upgrade
    BY <1>3, UpgradeStep
  <1>4. CASE Index!Open
    BY <1>4, OpenStep
  <1>5. CASE Index!Load
    BY <1>5, LoadStep
  <1>6. CASE Index!PrintEvents
    <2>1. CASE listing' = "printed"
      BY <1>6, <2>1, PrintStep
    <2>2. CASE listing' # "printed"
      BY <1>6, <2>2, FailStep DEF Index!PrintEvents
    <2> QED
      BY <2>1, <2>2
  <1>7. CASE UNCHANGED indexVars
    <2>1. UNCHANGED <<table, written, version, listing, filter, at, entries, broken>>
      BY <1>7 DEF indexVars
    <2>2. Loaded' = Loaded /\ LoadedSound' = LoadedSound /\ TableOK'
      BY <2>1 DEF Loaded, LoadedSound, LoadedKeys, DistinctKeys, IndexInv, TableOK,
                  Index!Sound
    <2>3. (ListsWhatWasRecorded /\ AllOrNothing)'
      BY <2>1, NoVerdict
    <2> QED
      BY <2>1, <2>2, <2>3 DEF IndexInv
  <1>8. CASE Index!OpenFails \/ Index!LoadFails
    BY <1>8, FailStep DEF Index!OpenFails, Index!LoadFails
  <1> QED
    BY <1>1, <1>2, <1>3, <1>4, <1>5, <1>6, <1>7, <1>8 DEF Index!Next, Index!Command

---------------------------------------------------------------------------
(* What the invariant says of `read index`.                                *)

LEMMA ReadIndexInvariant == ReadSpec => []IndexInv
  <1>1. ReadInit => IndexInv
    BY IndexInitially DEF ReadInit, IndexIdle
  <1>2. IndexInv /\ [ReadNext]_readVars => IndexInv'
    BY IndexStep DEF ReadNext, readVars
  <1> QED
    BY <1>1, <1>2, PTL DEF ReadSpec

\* `read index` prints every event the indexer recorded and did not take back
\* that the options ask for, once and as it was recorded, and nothing else,
\* whichever versions wrote the rows (index_scan.rs:45-66, lib.rs:1036-1061).
THEOREM ListsWhatWasRecordedHolds == ReadSpec => []ListsWhatWasRecorded
  <1>1. IndexInv => ListsWhatWasRecorded
    BY DEF IndexInv
  <1> QED
    BY <1>1, ReadIndexInvariant, PTL

\* It prints a listing just if the database could be opened and read, the ids
\* among the options are ids and every row is sound, and fails otherwise: no
\* damaged row is skipped, and no row of another version counts as damaged
\* (index_scan.rs:46-49, 70-83, lib.rs:1033-1034).
THEOREM AllOrNothingHolds == ReadSpec => []AllOrNothing
  <1>1. IndexInv => AllOrNothing
    BY DEF IndexInv
  <1> QED
    BY <1>1, ReadIndexInvariant, PTL
=============================================================================
