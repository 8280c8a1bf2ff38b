------------------------ MODULE GroupEnvelopeProofs -------------------------
(***************************************************************************)
(* Proofs about GroupEnvelope, for every set of servers, channels, members *)
(* and master keys, every length of nonce, tag and body, any number of     *)
(* epochs, events and faulty events, and whether or not members bind the   *)
(* event's number.                                                         *)
(***************************************************************************)
EXTENDS GroupEnvelope, DataLemmas

---------------------------------------------------------------------------
(* Keys and tags.                                                          *)

\* What a member of a ring is, whatever was learnt for a master key.
IsKey(k) == k = [server |-> k.server, epoch |-> k.epoch, mvk |-> k.mvk]

LEMMA SameKey ==
  ASSUME NEW j, NEW k, IsKey(j), IsKey(k),
         j.server = k.server, j.epoch = k.epoch, j.mvk = k.mvk
  PROVE  j = k
  BY DEF IsKey

LEMMA MatchTagInjective ==
  ASSUME NEW j, NEW k, IsKey(j), IsKey(k), NEW c, NEW d,
         MatchTag(j, c) = MatchTag(k, d)
  PROVE  j = k /\ c = d
  <1>1. /\ DeriveMatchTagKey(j) = DeriveMatchTagKey(k)
        /\ <<"match-tag", c>> \o <<j.epoch>> = <<"match-tag", d>> \o <<k.epoch>>
    BY DEF MatchTag, ComputeMatchTag, TagOf, U64Bytes
  <1>2. c = d /\ j.epoch = k.epoch
    BY <1>1
  <1>3. /\ j.mvk = k.mvk
        /\ <<"match-tag-key", 0>> \o (<<j.server>> \o <<j.epoch>>)
             = <<"match-tag-key", 0>> \o (<<k.server>> \o <<k.epoch>>)
    BY <1>1 DEF Hkdf32, DeriveMatchTagKey, ServerBinding, U64Bytes
  <1>4. j.server = k.server
    BY <1>3
  <1> QED
    BY <1>2, <1>3, <1>4, SameKey

LEMMA MemberTagInjective ==
  ASSUME NEW j, NEW k, IsKey(j), IsKey(k), NEW m, NEW n,
         MemberTag(j, m) = MemberTag(k, n)
  PROVE  j = k /\ m = n
  <1>1. /\ DeriveMemberTagKey(j) = DeriveMemberTagKey(k)
        /\ <<"member-tag", m>> \o <<j.epoch>> = <<"member-tag", n>> \o <<k.epoch>>
    BY DEF MemberTag, ComputeMemberTag, TagOf, U64Bytes
  <1>2. m = n /\ j.epoch = k.epoch
    BY <1>1
  <1>3. /\ j.mvk = k.mvk
        /\ <<"member-tag-key", 0>> \o (<<j.server>> \o <<j.epoch>>)
             = <<"member-tag-key", 0>> \o (<<k.server>> \o <<k.epoch>>)
    BY <1>1 DEF Hkdf32, DeriveMemberTagKey, ServerBinding, U64Bytes
  <1>4. j.server = k.server
    BY <1>3
  <1> QED
    BY <1>2, <1>3, <1>4, SameKey

\* Two keys that open the same kind of field, for the same server and epoch,
\* come from one master key and, unless the field is member-sealed, one channel.
LEMMA FieldKeyInjective ==
  ASSUME NEW j, NEW k, IsKey(j), IsKey(k), NEW c, NEW d, NEW f,
         j.server = k.server, j.epoch = k.epoch,
         FieldKey(j, c, f) = FieldKey(k, d, f)
  PROVE  j = k /\ (f = MemberSealed \/ c = d)
  <1>1. CASE f = MemberSealed
    <2>1. DeriveMemberSealedKey(j) = DeriveMemberSealedKey(k)
      BY <1>1 DEF FieldKey
    <2>2. j.mvk = k.mvk
      BY <2>1 DEF Hkdf32, DeriveMemberSealedKey
    <2> QED
      BY <1>1, <2>2, SameKey
  <1>2. CASE f # MemberSealed
    <2>1. DeriveChannelDek(j, c) = DeriveChannelDek(k, d)
      BY <1>2 DEF FieldKey
    <2>2. /\ j.mvk = k.mvk
          /\ <<"channel-dek", 0>> \o (<<j.server, c>> \o <<j.epoch>>)
               = <<"channel-dek", 0>> \o (<<k.server, d>> \o <<k.epoch>>)
      BY <2>1 DEF Hkdf32, DeriveChannelDek, U64Bytes
    <2>3. c = d
      BY <2>2
    <2> QED
      BY <2>2, <2>3, SameKey
  <1> QED
    BY <1>1, <1>2

---------------------------------------------------------------------------
(* The associated data and the cipher.                                     *)

AadHead(f, server, epoch, n) ==
  <<"aead", 1, f, 32, server, 8>> \o U64Bytes(epoch) \o BeBytes(n, 2)

LEMMA AadHeadIs ==
  ASSUME NEW f, NEW server, NEW epoch, NEW n
  PROVE  LET h == AadHead(f, server, epoch, n) IN
         /\ IsSeq(h) /\ Len(h) = 9
         /\ h[3] = f /\ h[5] = server /\ h[7] = epoch
  <1> DEFINE a == <<"aead", 1, f, 32, server, 8>>
             b == <<epoch>>
             c == BeBytes(n, 2)
  <1>1. /\ Len(a) = 6 /\ a[3] = f /\ a[5] = server
        /\ a \in Seq({"aead", 1, f, 32, server, 8})
    OBVIOUS
  <1>2. Len(b) = 1 /\ b[1] = epoch /\ IsSeq(b)
    BY OneIsSeq
  <1>3. c = [i \in 1 .. 2 |-> c[i]]
    BY DEF BeBytes
  <1>4. AadHead(f, server, epoch, n) = a \o b \o c
    BY DEF AadHead, U64Bytes
  <1> HIDE DEF a, b, c
  <1>5. IsSeq(a)
    BY <1>1, SeqIsSeq
  <1>6. IsSeq(c) /\ Len(c) = 2
    BY <1>3, FunIsSeq
  <1> DEFINE ab == a \o b
             abc == ab \o c
  <1>7. IsCat(a, b, ab)
    BY <1>2, <1>5, SeqCat
  <1> HIDE DEF ab
  <1>8. IsSeq(ab) /\ Len(ab) = 7 /\ ab[3] = f /\ ab[5] = server /\ ab[7] = epoch
    BY <1>1, <1>2, <1>7 DEF IsCat
  <1>9. IsCat(ab, c, abc)
    BY <1>6, <1>8, SeqCat
  <1> HIDE DEF abc
  <1>10. /\ IsSeq(abc) /\ Len(abc) = 9
         /\ abc[3] = f /\ abc[5] = server /\ abc[7] = epoch
    BY <1>6, <1>8, <1>9 DEF IsCat
  <1> QED
    BY <1>4, <1>10 DEF ab, abc

\* AadContext::encode tells contexts apart: no two spell the same bytes.
LEMMA AadInjective ==
  ASSUME NEW f, NEW g, NEW s, NEW t, NEW p, NEW q, NEW x, NEW y, IsSeq(x), IsSeq(y),
         AadContext(f, s, p, x) = AadContext(g, t, q, y)
  PROVE  f = g /\ s = t /\ p = q /\ x = y
  <1> DEFINE h == AadHead(f, s, p, Len(x))
             k == AadHead(g, t, q, Len(y))
  <1>1. h \o x = k \o y
    BY DEF AadContext, AadHead
  <1>2. /\ IsSeq(h) /\ Len(h) = 9 /\ h[3] = f /\ h[5] = s /\ h[7] = p
        /\ IsSeq(k) /\ Len(k) = 9 /\ k[3] = g /\ k[5] = t /\ k[7] = q
    BY AadHeadIs
  <1> DEFINE hx == h \o x
  <1> HIDE DEF h, k
  <1>3. IsCat(h, x, hx) /\ IsCat(k, y, hx)
    BY <1>1, <1>2, SeqCat
  <1> HIDE DEF hx
  <1>4. /\ Len(hx) = 9 + Len(x) /\ Len(hx) = 9 + Len(y)
        /\ \A i \in 1 .. 9 : hx[i] = h[i] /\ hx[i] = k[i]
        /\ \A i \in 1 .. Len(x) : hx[9 + i] = x[i]
        /\ \A i \in 1 .. Len(y) : hx[9 + i] = y[i]
    BY <1>2, <1>3 DEF IsCat
  <1>5. h[3] = k[3] /\ h[5] = k[5] /\ h[7] = k[7]
    <2>1. \A i \in 1 .. 9 : h[i] = k[i]
      BY <1>4
    <2> QED
      BY <2>1
  <1>6. x = y
    <2>1. Len(x) = Len(y)
      BY <1>4, SeqLen
    <2>2. \A i \in 1 .. Len(x) : x[i] = y[i]
      BY <1>4, <2>1
    <2> QED
      BY <2>1, <2>2, SeqSame
  <1> QED
    BY <1>2, <1>5, <1>6

LEMMA AesIsSeq ==
  ASSUME NEW key, NEW nonce, NEW aad, NEW text, IsSeq(text)
  PROVE  LET ct == AesGcm(key, nonce, aad, text) IN
         /\ IsSeq(ct) /\ Len(ct) = Len(text) + TagLen
         /\ \A i \in 1 .. Len(ct) :
              /\ ct[i].key = key /\ ct[i].nonce = nonce
              /\ ct[i].aad = aad /\ ct[i].text = text
  <1> DEFINE ct == AesGcm(key, nonce, aad, text)
  <1>1. Len(text) + TagLen \in Nat
    BY SeqLen, EnvelopeAssumption
  <1>2. ct = [i \in 1 .. Len(text) + TagLen |-> ct[i]]
    BY DEF AesGcm
  <1>3. \A i \in 1 .. Len(text) + TagLen :
          /\ ct[i].key = key /\ ct[i].nonce = nonce
          /\ ct[i].aad = aad /\ ct[i].text = text
    BY DEF AesGcm
  <1> HIDE DEF ct
  <1>4. IsSeq(ct) /\ Len(ct) = Len(text) + TagLen
    BY <1>1, <1>2, FunIsSeq
  <1> QED
    BY <1>3, <1>4 DEF ct

\* A sealed field, by its parts: the ciphertext ct is what the last two make.
Sealed(sealed, nonce, text, ct) ==
  /\ sealed = [nonce |-> sealed.nonce, ciphertext |-> sealed.ciphertext,
               aead_tag |-> sealed.aead_tag]
  /\ sealed.nonce = nonce
  /\ IsSeq(sealed.ciphertext) /\ Len(sealed.ciphertext) = Len(text)
  /\ IsSeq(sealed.aead_tag) /\ Len(sealed.aead_tag) = TagLen
  /\ sealed.ciphertext \o sealed.aead_tag = ct

LEMMA SealedParts ==
  ASSUME NEW key, NEW aad, NEW nonce, NEW text, IsSeq(text)
  PROVE  Sealed(SealField(key, aad, nonce, text), nonce, text,
                AesGcm(key, nonce, aad, text))
  <1> DEFINE ct == AesGcm(key, nonce, aad, text)
             sealed == SealField(key, aad, nonce, text)
  <1>1. /\ sealed = [nonce |-> sealed.nonce, ciphertext |-> sealed.ciphertext,
                     aead_tag |-> sealed.aead_tag]
        /\ sealed.nonce = nonce
        /\ sealed.ciphertext = SubSeq(ct, 1, Len(text))
        /\ sealed.aead_tag = SubSeq(ct, Len(text) + 1, Len(ct))
    BY DEF SealField
  <1>2. IsSeq(ct) /\ Len(ct) = Len(text) + TagLen
    BY AesIsSeq
  <1> HIDE DEF ct, sealed
  <1>3. Len(text) \in Nat /\ TagLen \in Nat /\ Len(ct) \in Nat
    BY <1>2, SeqLen, EnvelopeAssumption
  <1>4. IsSeq(SubSeq(ct, 1, Len(text))) /\ Len(SubSeq(ct, 1, Len(text))) = Len(text)
    <2>1. /\ IsSeq(SubSeq(ct, 1, Len(text)))
          /\ Len(SubSeq(ct, 1, Len(text))) = Len(text) - 1 + 1
      BY <1>2, <1>3, SeqPart
    <2> QED
      BY <1>3, <2>1
  <1>5. /\ IsSeq(SubSeq(ct, Len(text) + 1, Len(ct)))
        /\ Len(SubSeq(ct, Len(text) + 1, Len(ct))) = TagLen
    <2>1. /\ IsSeq(SubSeq(ct, Len(text) + 1, Len(ct)))
          /\ Len(SubSeq(ct, Len(text) + 1, Len(ct))) = Len(ct) - (Len(text) + 1) + 1
      BY <1>2, <1>3, SeqPart
    <2> QED
      BY <1>2, <1>3, <2>1
  <1>6. SubSeq(ct, 1, Len(text)) \o SubSeq(ct, Len(text) + 1, Len(ct)) = ct
    <2>1. Len(text) \in 0 .. Len(ct)
      BY <1>2, <1>3
    <2> QED
      BY <1>2, <2>1, SeqHalves
  <1> QED
    BY <1>1, <1>4, <1>5, <1>6 DEF ct, sealed, Sealed

\* A field opens to what was sealed, and only under the key and the associated
\* data it was sealed with.
LEMMA OpensRight ==
  ASSUME NEW key, NEW aad, NEW nonce, NEW text, IsSeq(text),
         NEW key2, NEW aad2
  PROVE  LET sealed == SealField(key, aad, nonce, text) IN
         /\ OpenField(key, aad, sealed) = {text}
         /\ OpenField(key2, aad2, sealed) # {} =>
              key2 = key /\ aad2 = aad /\ OpenField(key2, aad2, sealed) = {text}
  <1> DEFINE sealed == SealField(key, aad, nonce, text)
             ct == AesGcm(key, nonce, aad, text)
  <1>0. Sealed(sealed, nonce, text, ct)
    BY SealedParts
  <1>1. sealed.nonce = nonce /\ sealed.ciphertext \o sealed.aead_tag = ct
    BY <1>0 DEF Sealed
  <1>2. ct[1].text = text /\ ct[1].key = key /\ ct[1].aad = aad
    <2>1. 1 \in 1 .. Len(ct)
      BY AesIsSeq, SeqLen, EnvelopeAssumption
    <2> QED
      BY <2>1, AesIsSeq
  <1> HIDE DEF sealed
  <1>3. OpenField(key, aad, sealed) = {text}
    BY <1>1, <1>2 DEF OpenField
  <1>4. ASSUME NEW other \in OpenField(key2, aad2, sealed)
        PROVE  key2 = key /\ aad2 = aad /\ other = text
    <2> DEFINE ct2 == AesGcm(key2, nonce, aad2, text)
    <2>1. other = text /\ ct = AesGcm(key2, nonce, aad2, other)
      BY <1>1, <1>2, <1>4 DEF OpenField
    <2>2. ct = ct2
      BY <2>1
    <2>3. ct2[1].key = key2 /\ ct2[1].aad = aad2
      <3>1. 1 \in 1 .. Len(ct2)
        BY AesIsSeq, SeqLen, EnvelopeAssumption
      <3> QED
        BY <3>1, AesIsSeq
    <2> HIDE DEF ct, ct2
    <2> QED
      BY <1>2, <2>1, <2>2, <2>3
  <1>5. OpenField(key2, aad2, sealed) # {} =>
          key2 = key /\ aad2 = aad /\ OpenField(key2, aad2, sealed) = {text}
    BY <1>4
  <1> QED
    BY <1>3, <1>5 DEF sealed

---------------------------------------------------------------------------
(* The bytes of a field.                                                   *)

\* The nonce, then the ciphertext and the tag in one piece.
WireOf(nonce, ct, w) ==
  /\ IsSeq(w) /\ Len(w) = NonceLen + Len(ct)
  /\ \A i \in 1 .. NonceLen : w[i] = nonce[i]
  /\ \A i \in 1 .. Len(ct) : w[NonceLen + i] = ct[i]

LEMMA WireParts ==
  ASSUME NEW key, NEW aad, NEW nonce, NEW text, IsSeq(text), IsSeq(nonce), Len(nonce) = NonceLen
  PROVE  WireOf(nonce, AesGcm(key, nonce, aad, text), ToWire(SealField(key, aad, nonce, text)))
  <1> DEFINE sealed == SealField(key, aad, nonce, text)
             ct == AesGcm(key, nonce, aad, text)
             body == sealed.ciphertext
             tag == sealed.aead_tag
             w == ToWire(sealed)
             nb == nonce \o body
  <1>1. Sealed(sealed, nonce, text, ct)
    BY SealedParts
  <1>2. IsSeq(body) /\ IsSeq(tag) /\ body \o tag = ct /\ w = nb \o tag
    BY <1>1 DEF Sealed, ToWire
  <1>3. Len(nonce) \in Nat /\ Len(body) \in Nat /\ Len(tag) \in Nat
    BY <1>2, SeqLen
  <1> HIDE DEF body, tag, w, ct
  <1>4. IsCat(body, tag, ct)
    BY <1>2, SeqCat
  <1>5. IsCat(nonce, body, nb)
    BY <1>2, SeqCat
  <1> HIDE DEF nb
  <1>6. IsCat(nb, tag, w)
    <2>1. IsSeq(nb)
      BY <1>5 DEF IsCat
    <2> QED
      BY <1>2, <2>1, SeqCat
  <1>7. Len(nb) = NonceLen + Len(body) /\ Len(ct) = Len(body) + Len(tag)
    BY <1>4, <1>5 DEF IsCat
  <1>8. IsSeq(w) /\ Len(w) = NonceLen + Len(ct)
    BY <1>3, <1>6, <1>7 DEF IsCat
  <1>9. ASSUME NEW i \in 1 .. NonceLen PROVE w[i] = nonce[i]
    <2>1. i \in 1 .. Len(nb)
      BY <1>3, <1>7
    <2> QED
      BY <2>1, <1>5, <1>6 DEF IsCat
  <1>10. ASSUME NEW i \in 1 .. Len(ct) PROVE w[NonceLen + i] = ct[i]
    <2>1. CASE i <= Len(body)
      <3>1. i \in 1 .. Len(body) /\ NonceLen + i \in 1 .. Len(nb)
        BY <2>1, <1>3, <1>7
      <3>2. w[NonceLen + i] = nb[NonceLen + i] /\ nb[NonceLen + i] = body[i] /\ ct[i] = body[i]
        BY <3>1, <1>4, <1>5, <1>6 DEF IsCat
      <3> QED
        BY <3>2
    <2>2. CASE i > Len(body)
      <3> DEFINE j == i - Len(body)
      <3>1. j \in 1 .. Len(tag) /\ Len(nb) + j = NonceLen + i /\ Len(body) + j = i
        BY <2>2, <1>3, <1>7
      <3> HIDE DEF j
      <3>2. w[Len(nb) + j] = tag[j] /\ ct[Len(body) + j] = tag[j]
        BY <3>1, <1>4, <1>6 DEF IsCat
      <3> QED
        BY <3>1, <3>2
    <2> QED
      BY <2>1, <2>2, <1>3, <1>7
  <1>11. WireOf(nonce, ct, w)
    BY <1>8, <1>9, <1>10 DEF WireOf
  <1> QED
    BY <1>11 DEF ct, w

\* from_wire undoes to_wire.
LEMMA WireBack ==
  ASSUME NEW key, NEW aad, NEW nonce, NEW text, IsSeq(text), IsSeq(nonce), Len(nonce) = NonceLen
  PROVE  LET sealed == SealField(key, aad, nonce, text) IN
         FromWire(ToWire(sealed)) = {sealed}
  <1> DEFINE sealed == SealField(key, aad, nonce, text)
             ct == AesGcm(key, nonce, aad, text)
             body == sealed.ciphertext
             tag == sealed.aead_tag
             w == ToWire(sealed)
             n == Len(w)
  <1>1. Sealed(sealed, nonce, text, ct) /\ WireOf(nonce, ct, w)
    BY SealedParts, WireParts
  <1>2. IsSeq(body) /\ IsSeq(tag) /\ body \o tag = ct /\ Len(tag) = TagLen
    BY <1>1 DEF Sealed
  <1>3. sealed = [nonce |-> nonce, ciphertext |-> body, aead_tag |-> tag]
    BY <1>1 DEF Sealed
  <1> HIDE DEF sealed, body, tag, w, ct
  <1>4. IsCat(body, tag, ct)
    BY <1>2, SeqCat
  <1>5. /\ NonceLen \in Nat \ {0} /\ TagLen \in Nat \ {0} /\ Len(body) \in Nat
        /\ Len(ct) = Len(body) + TagLen /\ n = NonceLen + Len(body) + TagLen
    BY <1>1, <1>2, <1>4, SeqLen, EnvelopeAssumption DEF IsCat, WireOf
  <1>6. SubSeq(w, 1, NonceLen) = nonce
    <2> DEFINE u == SubSeq(w, 1, NonceLen)
    <2>1. IsSeq(w) /\ 1 <= NonceLen + 1 /\ NonceLen <= Len(w)
      BY <1>1, <1>5 DEF WireOf
    <2>2. /\ IsSeq(u) /\ Len(u) = NonceLen - 1 + 1
          /\ \A i \in 1 .. NonceLen - 1 + 1 : u[i] = w[1 + i - 1]
      BY <2>1, <1>5, SeqPart
    <2> HIDE DEF u
    <2>3. Len(u) = NonceLen /\ \A i \in 1 .. NonceLen : u[i] = w[i]
      BY <2>2, <1>5
    <2>4. \A i \in 1 .. NonceLen : u[i] = nonce[i]
      BY <2>3, <1>1 DEF WireOf
    <2>5. u = nonce
      BY <2>2, <2>3, <2>4, SeqSame
    <2> QED
      BY <2>5 DEF u
  <1>7. SubSeq(w, NonceLen + 1, n - TagLen) = body
    <2> DEFINE u == SubSeq(w, NonceLen + 1, n - TagLen)
    <2>1. /\ IsSeq(w) /\ NonceLen + 1 \in Nat \ {0} /\ n - TagLen \in Nat
          /\ NonceLen + 1 <= n - TagLen + 1 /\ n - TagLen <= Len(w)
      BY <1>1, <1>5 DEF WireOf
    <2>2. /\ IsSeq(u) /\ Len(u) = n - TagLen - (NonceLen + 1) + 1
          /\ \A i \in 1 .. n - TagLen - (NonceLen + 1) + 1 : u[i] = w[NonceLen + 1 + i - 1]
      BY <2>1, SeqPart
    <2> HIDE DEF u
    <2>3. Len(u) = Len(body)
      BY <2>2, <1>5
    <2>4. ASSUME NEW i \in 1 .. Len(body) PROVE u[i] = body[i]
      <3>1. u[i] = w[NonceLen + i]
        BY <2>2, <1>5
      <3>2. w[NonceLen + i] = ct[i]
        BY <1>1, <1>5 DEF WireOf
      <3>3. ct[i] = body[i]
        BY <1>4 DEF IsCat
      <3> QED
        BY <3>1, <3>2, <3>3
    <2>5. u = body
      BY <1>2, <2>2, <2>3, <2>4, SeqSame
    <2> QED
      BY <2>5 DEF u
  <1>8. SubSeq(w, n - TagLen + 1, n) = tag
    <2> DEFINE u == SubSeq(w, n - TagLen + 1, n)
    <2>1. /\ IsSeq(w) /\ n - TagLen + 1 \in Nat \ {0} /\ n \in Nat
          /\ n - TagLen + 1 <= n + 1 /\ n <= Len(w)
      BY <1>1, <1>5 DEF WireOf
    <2>2. /\ IsSeq(u) /\ Len(u) = n - (n - TagLen + 1) + 1
          /\ \A i \in 1 .. n - (n - TagLen + 1) + 1 : u[i] = w[n - TagLen + 1 + i - 1]
      BY <2>1, SeqPart
    <2> HIDE DEF u
    <2>3. Len(u) = TagLen
      BY <2>2, <1>5
    <2>4. ASSUME NEW i \in 1 .. TagLen PROVE u[i] = tag[i]
      <3>1. u[i] = w[NonceLen + (Len(body) + i)]
        <4>1. n - TagLen + 1 + i - 1 = NonceLen + (Len(body) + i)
          BY <1>5
        <4>2. i \in 1 .. n - (n - TagLen + 1) + 1
          BY <1>5
        <4> QED
          BY <2>2, <4>1, <4>2
      <3>2. w[NonceLen + (Len(body) + i)] = ct[Len(body) + i]
        <4>1. Len(body) + i \in 1 .. Len(ct)
          BY <1>5
        <4> QED
          BY <4>1, <1>1 DEF WireOf
      <3>3. ct[Len(body) + i] = tag[i]
        BY <1>2, <1>4 DEF IsCat
      <3> QED
        BY <3>1, <3>2, <3>3
    <2>5. u = tag
      BY <1>2, <2>2, <2>3, <2>4, SeqSame
    <2> QED
      BY <2>5 DEF u
  <1>9. {n} \ 0 .. NonceLen + TagLen - 1 = {n}
    BY <1>5
  <1>10. FromWire(w) = {sealed}
    <2>1. FromWire(w) =
            {[nonce |-> SubSeq(w, 1, NonceLen),
              ciphertext |-> SubSeq(w, NonceLen + 1, m - TagLen),
              aead_tag |-> SubSeq(w, m - TagLen + 1, m)] : m \in {n}}
      BY <1>9 DEF FromWire
    <2> HIDE DEF n
    <2>2. FromWire(w) = {[nonce |-> nonce, ciphertext |-> body, aead_tag |-> tag]}
      BY <2>1, <1>6, <1>7, <1>8
    <2> QED
      BY <2>2, <1>3
  <1> QED
    BY <1>10 DEF w, sealed

Cut(w) == SubSeq(w, 1, Len(w) - 1)

\* A field that lost its last byte opens under no key.
LEMMA CutOpensNot ==
  ASSUME NEW key, NEW aad, NEW nonce, NEW text, IsSeq(text), IsSeq(nonce), Len(nonce) = NonceLen,
         NEW sealed \in FromWire(Cut(ToWire(SealField(key, aad, nonce, text)))),
         NEW key2, NEW aad2
  PROVE  OpenField(key2, aad2, sealed) = {}
  <1> DEFINE ct == AesGcm(key, nonce, aad, text)
             w == ToWire(SealField(key, aad, nonce, text))
             v == Cut(w)
             n == Len(v)
  <1>1. WireOf(nonce, ct, w)
    BY WireParts
  <1>2. /\ IsSeq(ct) /\ Len(ct) = Len(text) + TagLen /\ Len(text) \in Nat
        /\ NonceLen \in Nat \ {0} /\ TagLen \in Nat \ {0}
    BY AesIsSeq, SeqLen, EnvelopeAssumption
  <1>3. ct[1].text = text
    <2>1. 1 \in 1 .. Len(ct)
      BY <1>2
    <2> QED
      BY <2>1, AesIsSeq
  <1>4. sealed \in FromWire(v)
    OBVIOUS
  <1> HIDE DEF w, ct
  <1>5. /\ IsSeq(v) /\ n = Len(w) - 1
        /\ \A i \in 1 .. n : v[i] = w[i]
    <2>1. IsSeq(w) /\ Len(w) \in Nat /\ Len(w) >= 2
      BY <1>1, <1>2, SeqLen DEF WireOf
    <2> DEFINE last == Len(w) - 1
    <2>2. last \in Nat /\ 1 <= last + 1 /\ last <= Len(w)
      BY <2>1
    <2> HIDE DEF last
    <2>3. /\ IsSeq(SubSeq(w, 1, last)) /\ Len(SubSeq(w, 1, last)) = last - 1 + 1
          /\ \A i \in 1 .. last - 1 + 1 : SubSeq(w, 1, last)[i] = w[1 + i - 1]
      BY <2>1, <2>2, SeqPart
    <2>4. v = SubSeq(w, 1, last)
      BY DEF Cut, last
    <2> HIDE DEF v
    <2>5. Len(v) = last /\ \A i \in 1 .. last : v[i] = w[i]
      BY <2>2, <2>3, <2>4
    <2> QED
      BY <2>3, <2>4, <2>5 DEF last
  <1> HIDE DEF v
  <1>6. /\ n \in Nat /\ n >= NonceLen + TagLen
        /\ sealed.ciphertext = SubSeq(v, NonceLen + 1, n - TagLen)
        /\ sealed.aead_tag = SubSeq(v, n - TagLen + 1, n)
    <2>1. n \in Nat
      BY <1>5, SeqLen
    <2>2. PICK m \in {n} \ 0 .. NonceLen + TagLen - 1 :
            sealed = [nonce |-> SubSeq(v, 1, NonceLen),
                      ciphertext |-> SubSeq(v, NonceLen + 1, m - TagLen),
                      aead_tag |-> SubSeq(v, m - TagLen + 1, m)]
      BY <1>4 DEF FromWire
    <2>3. m = n /\ n >= NonceLen + TagLen
      BY <2>1, <2>2, <1>2
    <2> QED
      BY <2>1, <2>2, <2>3
  <1> DEFINE cm == SubSeq(v, NonceLen + 1, n)
  <1>7. sealed.ciphertext \o sealed.aead_tag = cm
    <2> DEFINE k == n - TagLen
    <2>1. /\ NonceLen + 1 \in Nat \ {0} /\ k \in Nat /\ n \in Nat
          /\ NonceLen + 1 <= k + 1 /\ k <= n /\ n <= Len(v)
      BY <1>2, <1>6
    <2> HIDE DEF k, n
    <2>2. SubSeq(v, NonceLen + 1, k) \o SubSeq(v, k + 1, n) = cm
      BY <1>5, <2>1, SeqParts
    <2> QED
      BY <1>6, <2>2 DEF k
  <1>8. Len(cm) = Len(text) + TagLen - 1 /\ cm[1] = ct[1]
    <2>1. /\ NonceLen + 1 \in Nat \ {0} /\ n \in Nat
          /\ NonceLen + 1 <= n + 1 /\ n <= Len(v)
      BY <1>2, <1>6
    <2>2. /\ Len(cm) = n - (NonceLen + 1) + 1
          /\ \A i \in 1 .. n - (NonceLen + 1) + 1 : cm[i] = v[NonceLen + 1 + i - 1]
      BY <2>1, <1>5, SeqPart
    <2> HIDE DEF cm
    <2>3. cm[1] = v[NonceLen + 1]
      <3>1. 1 \in 1 .. n - (NonceLen + 1) + 1 /\ NonceLen + 1 + 1 - 1 = NonceLen + 1
        BY <1>2, <1>6
      <3> QED
        BY <2>2, <3>1
    <2>4. v[NonceLen + 1] = w[NonceLen + 1]
      <3>1. NonceLen + 1 \in 1 .. n
        BY <1>2, <1>6
      <3> QED
        BY <3>1, <1>5
    <2>5. w[NonceLen + 1] = ct[1]
      <3>1. 1 \in 1 .. Len(ct)
        BY <1>2
      <3> QED
        BY <3>1, <1>1 DEF WireOf
    <2>6. n = NonceLen + Len(text) + TagLen - 1
      <3>1. Len(w) = NonceLen + Len(ct)
        BY <1>1 DEF WireOf
      <3>2. n = Len(w) - 1
        BY <1>5
      <3> HIDE DEF n
      <3> QED
        BY <1>2, <3>1, <3>2
    <2> QED
      BY <2>2, <2>3, <2>4, <2>5, <2>6, <1>2
  <1> HIDE DEF cm
  <1> SUFFICES ASSUME NEW other \in OpenField(key2, aad2, sealed) PROVE FALSE
    OBVIOUS
  <1>9. other = cm[1].text /\ cm = AesGcm(key2, sealed.nonce, aad2, other)
    BY <1>7 DEF OpenField
  <1>10. cm = AesGcm(key2, sealed.nonce, aad2, text)
    BY <1>3, <1>8, <1>9
  <1>11. Len(cm) = Len(text) + TagLen
    BY <1>10, AesIsSeq
  <1> QED
    BY <1>2, <1>8, <1>11

---------------------------------------------------------------------------
(* The invariant.                                                          *)

\* What is kept (in `sealings`, the S below) of a sealed field says what its bytes are.
SealingOK(s) ==
  /\ IsKey(s.key) /\ IsSeq(s.text) /\ IsSeq(s.extra)
  /\ \E nonce :
       /\ IsSeq(nonce) /\ Len(nonce) = NonceLen
       /\ s.wire = ToWire(SealField(FieldKey(s.key, s.channel, s.cborKey),
                                    AadContext(s.cborKey, s.key.server, s.key.epoch, s.extra),
                                    nonce, s.text))

\* A field of an event is one that was sealed, or one that lost its last byte;
\* a faultless event has its own.
FieldOK(e, f, S) ==
  /\ \E s \in S : e.fields[f] \in {s.wire, Cut(s.wire)}
  /\ ~ e.faulty =>
       /\ IsSeq(e.texts[f])
       /\ e.fields[f] = Wire(e.key, e.channel, e.n, f, e.texts[f])
       /\ \E s \in S : e.fields[f] = s.wire

EventOK(e, S) ==
  /\ DOMAIN e = {"t", "n", "match_tag", "key_epoch", "fields", "key", "channel",
                "texts", "faulty"}
  /\ IsKey(e.key) /\ e.faulty \in BOOLEAN
  /\ e.match_tag = MatchTag(e.key, e.channel)
  /\ \A f \in DOMAIN e.fields : FieldOK(e, f, S)

RingsOK ==
  /\ ring = [m \in Members |-> ring[m]]
  /\ \A m \in Members : \A k \in ring[m] : IsKey(k)
ChainOK ==
  /\ IsSeq(chain)
  /\ \A s \in sealings : SealingOK(s)
  /\ \A i \in DOMAIN chain : EventOK(chain[i], sealings)
RosterOK ==
  /\ roster = {MemberTag(p.key, p.member) : p \in present}
  /\ \A p \in present : IsKey(p.key) /\ p = [member |-> p.member, key |-> p.key]

Inv == RingsOK /\ ChainOK /\ RosterOK

LEMMA ExtraIsSeq ==
  ASSUME NEW n
  PROVE  IsSeq(Extra(n))
  <1>1. IsSeq(<<n>>)
    BY OneIsSeq
  <1>2. IsSeq(<<>>)
    BY EmptySeq, SeqIsSeq
  <1> QED
    BY <1>1, <1>2 DEF Extra, U64Bytes

LEMMA NonceIsSeq ==
  ASSUME NEW n, NEW f
  PROVE  IsSeq(Nonce(n, f)) /\ Len(Nonce(n, f)) = NonceLen
  <1>1. Nonce(n, f) = [i \in 1 .. NonceLen |-> Nonce(n, f)[i]]
    BY DEF Nonce
  <1> QED
    BY <1>1, FunIsSeq, EnvelopeAssumption

LEMMA SealingMade ==
  ASSUME NEW k, IsKey(k), NEW c, NEW n, NEW f, NEW text, IsSeq(text)
  PROVE  SealingOK([wire |-> Wire(k, c, n, f, text), key |-> k, channel |-> c,
                    cborKey |-> f, extra |-> Extra(n), text |-> text])
  <1> DEFINE w == Wire(k, c, n, f, text)
             x == Extra(n)
             s == [wire |-> w, key |-> k, channel |-> c, cborKey |-> f,
                   extra |-> x, text |-> text]
  <1>1. w = ToWire(SealField(FieldKey(k, c, f), AadContext(f, k.server, k.epoch, x),
                             Nonce(n, f), text))
    BY DEF Wire
  <1>2. IsSeq(x)
    BY ExtraIsSeq
  <1> HIDE DEF w, x
  <1>3. /\ s.wire = w /\ s.key = k /\ s.channel = c /\ s.cborKey = f
        /\ s.extra = x /\ s.text = text
    OBVIOUS
  <1> HIDE DEF s
  <1>4. SealingOK(s)
    BY <1>1, <1>2, <1>3, NonceIsSeq DEF SealingOK
  <1> QED
    BY <1>4 DEF s, w, x

\* A sealed field that a member opens says what was sealed, for what it was.
LEMMA SealingReads ==
  ASSUME NEW s, SealingOK(s), NEW k, IsKey(k), NEW c, NEW e, NEW f,
         e.fields[f] = s.wire, NEW text \in Reads(k, c, e, f)
  PROVE  /\ s.key = k /\ s.text = text /\ s.cborKey = f /\ s.extra = Extra(e.n)
         /\ f = MemberSealed \/ s.channel = c
  <1> DEFINE key == FieldKey(s.key, s.channel, s.cborKey)
             aad == AadContext(s.cborKey, s.key.server, s.key.epoch, s.extra)
             key2 == FieldKey(k, c, f)
             aad2 == AadContext(f, k.server, k.epoch, Extra(e.n))
  <1>1. PICK nonce : /\ IsSeq(nonce) /\ Len(nonce) = NonceLen
                     /\ s.wire = ToWire(SealField(key, aad, nonce, s.text))
    BY DEF SealingOK
  <1> DEFINE sealed == SealField(key, aad, nonce, s.text)
  <1>2. IsSeq(s.text) /\ IsSeq(s.extra) /\ IsKey(s.key)
    BY DEF SealingOK
  <1>3. Reads(k, c, e, f) = UNION {OpenField(key2, aad2, x) : x \in FromWire(s.wire)}
    BY DEF Reads
  <1> HIDE DEF key, aad, key2, aad2
  <1>4. FromWire(s.wire) = {sealed}
    BY <1>1, <1>2, WireBack
  <1> HIDE DEF sealed
  <1>5. text \in OpenField(key2, aad2, sealed)
    BY <1>3, <1>4
  <1>6. key2 = key /\ aad2 = aad /\ text = s.text
    BY <1>2, <1>5, OpensRight DEF sealed
  <1>7. /\ s.cborKey = f /\ s.key.server = k.server
        /\ s.key.epoch = k.epoch /\ s.extra = Extra(e.n)
    BY <1>2, <1>6, AadInjective, ExtraIsSeq DEF aad, aad2
  <1>8. s.key = k /\ (f = MemberSealed \/ s.channel = c)
    BY <1>2, <1>6, <1>7, FieldKeyInjective DEF key, key2
  <1> QED
    BY <1>6, <1>7, <1>8

\* One that lost its last byte says nothing.
LEMMA CutReadsNothing ==
  ASSUME NEW s, SealingOK(s), NEW k, NEW c, NEW e, NEW f, e.fields[f] = Cut(s.wire)
  PROVE  Reads(k, c, e, f) = {}
  <1> DEFINE key == FieldKey(s.key, s.channel, s.cborKey)
             aad == AadContext(s.cborKey, s.key.server, s.key.epoch, s.extra)
             key2 == FieldKey(k, c, f)
             aad2 == AadContext(f, k.server, k.epoch, Extra(e.n))
  <1>1. PICK nonce : /\ IsSeq(nonce) /\ Len(nonce) = NonceLen
                     /\ s.wire = ToWire(SealField(key, aad, nonce, s.text))
    BY DEF SealingOK
  <1>2. IsSeq(s.text)
    BY DEF SealingOK
  <1>3. Reads(k, c, e, f) = UNION {OpenField(key2, aad2, x) : x \in FromWire(Cut(s.wire))}
    BY DEF Reads
  <1> HIDE DEF key, aad, key2, aad2
  <1>4. ASSUME NEW x \in FromWire(Cut(s.wire)) PROVE OpenField(key2, aad2, x) = {}
    BY <1>1, <1>2, <1>4, CutOpensNot
  <1> QED
    BY <1>3, <1>4

\* Who has the key of a faultless event reads what was written.
LEMMA OwnReads ==
  ASSUME NEW e, NEW f, IsSeq(e.texts[f]),
         e.fields[f] = Wire(e.key, e.channel, e.n, f, e.texts[f])
  PROVE  Reads(e.key, e.channel, e, f) = {e.texts[f]}
  <1> DEFINE key == FieldKey(e.key, e.channel, f)
             aad == AadContext(f, e.key.server, e.key.epoch, Extra(e.n))
             text == e.texts[f]
             sealed == SealField(key, aad, Nonce(e.n, f), text)
  <1>1. e.fields[f] = ToWire(sealed)
    BY DEF Wire
  <1>2. FromWire(ToWire(sealed)) = {sealed}
    BY NonceIsSeq, WireBack
  <1>3. OpenField(key, aad, sealed) = {text}
    BY OpensRight
  <1>4. Reads(e.key, e.channel, e, f) = UNION {OpenField(key, aad, x) : x \in FromWire(e.fields[f])}
    BY DEF Reads
  <1> HIDE DEF key, aad, sealed
  <1> QED
    BY <1>1, <1>2, <1>3, <1>4

\* The properties follow from the invariant.
LEMMA InvSuffices ==
  ASSUME Inv
  PROVE  FanOutExact /\ ReadsRight /\ HoldersRead /\ RosterExact
  <1>1. ASSUME NEW k \in Keys PROVE IsKey(k)
    BY DEF Keys, IsKey
  <1>2. FanOutExact
    BY <1>1, MatchTagInjective DEF FanOutExact, Inv, ChainOK, EventOK
  <1>3. ReadsRight
    <2> SUFFICES ASSUME NEW i \in DOMAIN chain, NEW k \in Keys, NEW c \in Channels,
                        NEW f \in DOMAIN chain[i].fields,
                        NEW text \in Reads(k, c, chain[i], f)
                 PROVE  \E s \in sealings :
                          /\ s.wire = chain[i].fields[f] /\ s.key = k /\ s.text = text
                          /\ s.cborKey = f /\ s.extra = Extra(chain[i].n)
                          /\ f = MemberSealed \/ s.channel = c
      BY DEF ReadsRight
    <2>1. PICK s \in sealings : chain[i].fields[f] \in {s.wire, Cut(s.wire)}
      BY DEF Inv, ChainOK, EventOK, FieldOK
    <2>2. SealingOK(s) /\ IsKey(k)
      BY <1>1 DEF Inv, ChainOK
    <2>3. chain[i].fields[f] = s.wire
      BY <2>1, <2>2, CutReadsNothing
    <2> QED
      BY <2>2, <2>3, SealingReads
  <1>4. HoldersRead
    BY OwnReads DEF HoldersRead, Faulty, Inv, ChainOK, EventOK, FieldOK
  <1>5. RosterExact
    <2> SUFFICES ASSUME NEW m \in Members, NEW k \in Keys
                 PROVE  MemberTag(k, m) \in roster <=> [member |-> m, key |-> k] \in present
      BY DEF RosterExact
    <2>1. MemberTag(k, m) \in roster <=>
            \E p \in present : MemberTag(k, m) = MemberTag(p.key, p.member)
      BY DEF Inv, RosterOK
    <2>2. \A p \in present : /\ IsKey(p.key) /\ p = [member |-> p.member, key |-> p.key]
                             /\ MemberTag(k, m) = MemberTag(p.key, p.member) =>
                                  p.key = k /\ p.member = m
      BY <1>1, MemberTagInjective DEF Inv, RosterOK
    <2> QED
      BY <2>1, <2>2
  <1> QED
    BY <1>2, <1>3, <1>4, <1>5

---------------------------------------------------------------------------
(* The steps.                                                              *)

LEMMA EventGrows ==
  ASSUME NEW e, NEW S, NEW T, S \subseteq T, EventOK(e, S)
  PROVE  EventOK(e, T)
  BY DEF EventOK, FieldOK

\* Adding an event to the chain.
LEMMA ChainGrows ==
  ASSUME ChainOK, NEW e, NEW S, chain' = Append(chain, e), sealings' = sealings \cup S,
         \A s \in S : SealingOK(s), EventOK(e, sealings')
  PROVE  ChainOK'
  <1>1. /\ IsSeq(chain') /\ DOMAIN chain' = DOMAIN chain \cup {Len(chain) + 1}
        /\ \A i \in DOMAIN chain : chain'[i] = chain[i]
        /\ chain'[Len(chain) + 1] = e
    <2>1. IsSeq(chain)
      BY DEF ChainOK
    <2>2. /\ IsSeq(Append(chain, e))
          /\ DOMAIN Append(chain, e) = 1 .. Len(chain) + 1
          /\ \A i \in DOMAIN chain : Append(chain, e)[i] = chain[i]
          /\ Append(chain, e)[Len(chain) + 1] = e
      BY <2>1, SeqAppend
    <2>3. 1 .. Len(chain) + 1 = DOMAIN chain \cup {Len(chain) + 1}
      BY <2>1, SeqLen
    <2> QED
      BY <2>2, <2>3
  <1>2. \A s \in sealings' : SealingOK(s)
    BY DEF ChainOK
  <1>3. ASSUME NEW i \in DOMAIN chain PROVE EventOK(chain[i], sealings')
    BY EventGrows DEF ChainOK
  <1>4. \A i \in DOMAIN chain' : EventOK(chain'[i], sealings')
    BY <1>1, <1>3
  <1> QED
    BY <1>1, <1>2, <1>4 DEF ChainOK

LEMMA PublishStep ==
  ASSUME ChainOK, NEW t, NEW k, IsKey(k), NEW c, NEW texts,
         \A f \in DOMAIN texts : IsSeq(texts[f]),
         Publish(t, k, c, texts)
  PROVE  ChainOK'
  <1> DEFINE n == Len(chain) + 1
             fields == [f \in DOMAIN texts |-> Wire(k, c, n, f, texts[f])]
             e == [t |-> t, n |-> n, match_tag |-> MatchTag(k, c), key_epoch |-> k.epoch,
                   fields |-> fields, key |-> k, channel |-> c, texts |-> texts,
                   faulty |-> FALSE]
             made(f) == [wire |-> fields[f], key |-> k, channel |-> c, cborKey |-> f,
                         extra |-> Extra(n), text |-> texts[f]]
             S == {made(f) : f \in DOMAIN texts}
  <1>1. chain' = Append(chain, e) /\ sealings' = sealings \cup S
    BY DEF Publish
  <1>2. /\ e.n = n /\ e.match_tag = MatchTag(k, c) /\ e.fields = fields
        /\ e.key = k /\ e.channel = c /\ e.texts = texts /\ e.faulty = FALSE
        /\ DOMAIN e = {"t", "n", "match_tag", "key_epoch", "fields", "key", "channel",
                       "texts", "faulty"}
    OBVIOUS
  <1> HIDE DEF e, n
  <1>3. /\ DOMAIN fields = DOMAIN texts
        /\ \A f \in DOMAIN texts : fields[f] = Wire(k, c, n, f, texts[f])
    OBVIOUS
  <1>4. ASSUME NEW f \in DOMAIN texts
        PROVE  SealingOK(made(f)) /\ made(f).wire = fields[f]
    <2>1. made(f) = [wire |-> Wire(k, c, n, f, texts[f]), key |-> k, channel |-> c,
                     cborKey |-> f, extra |-> Extra(n), text |-> texts[f]]
      BY <1>3
    <2>2. SealingOK([wire |-> Wire(k, c, n, f, texts[f]), key |-> k, channel |-> c,
                     cborKey |-> f, extra |-> Extra(n), text |-> texts[f]])
      BY SealingMade
    <2>3. SealingOK(made(f))
      BY <2>1, <2>2
    <2> QED
      BY <2>3
  <1> HIDE DEF fields, made
  <1>5. \A s \in S : SealingOK(s)
    BY <1>4
  <1>6. \A f \in DOMAIN texts : \E s \in S : e.fields[f] = s.wire
    BY <1>2, <1>4
  <1> HIDE DEF S
  <1>7. EventOK(e, sealings')
    <2>1. ASSUME NEW f \in DOMAIN texts PROVE FieldOK(e, f, sealings')
      BY <1>1, <1>2, <1>3, <1>6 DEF FieldOK
    <2> QED
      BY <1>2, <1>3, <2>1 DEF EventOK
  <1> QED
    BY <1>1, <1>5, <1>7, ChainGrows

LEMMA FaultyStep ==
  ASSUME ChainOK, PublishFaulty
  PROVE  ChainOK'
  <1>1. PICK i \in DOMAIN chain \ Faulty, j \in DOMAIN chain \ Faulty :
          \E f \in DOMAIN chain[i].fields, g \in DOMAIN chain[j].fields :
            \E wire \in {chain[j].fields[g], Cut(chain[j].fields[g])} \ {chain[i].fields[f]} :
              chain' = Append(chain, [chain[i] EXCEPT !.fields[f] = wire, !.faulty = TRUE])
    BY DEF PublishFaulty, Cut
  <1>2. PICK f \in DOMAIN chain[i].fields, g \in DOMAIN chain[j].fields :
          \E wire \in {chain[j].fields[g], Cut(chain[j].fields[g])} :
            chain' = Append(chain, [chain[i] EXCEPT !.fields[f] = wire, !.faulty = TRUE])
    BY <1>1
  <1>3. PICK wire \in {chain[j].fields[g], Cut(chain[j].fields[g])} :
          chain' = Append(chain, [chain[i] EXCEPT !.fields[f] = wire, !.faulty = TRUE])
    BY <1>2
  <1> DEFINE d == chain[i]
             e == [d EXCEPT !.fields[f] = wire, !.faulty = TRUE]
  <1>4. EventOK(d, sealings) /\ EventOK(chain[j], sealings) /\ chain[j].faulty = FALSE
    BY DEF ChainOK, Faulty, EventOK
  <1>5. \E s \in sealings : wire \in {s.wire, Cut(s.wire)}
    BY <1>3, <1>4 DEF EventOK, FieldOK
  <1>6. /\ e.key = d.key /\ e.channel = d.channel /\ e.match_tag = d.match_tag
        /\ e.faulty = TRUE
        /\ e.fields = [d.fields EXCEPT ![f] = wire]
        /\ DOMAIN e = DOMAIN d
    <2>1. DOMAIN d = {"t", "n", "match_tag", "key_epoch", "fields", "key", "channel",
                      "texts", "faulty"}
      BY <1>4 DEF EventOK
    <2> HIDE DEF d
    <2> QED
      BY <2>1
  <1> HIDE DEF e
  <1>7. ASSUME NEW x \in DOMAIN e.fields PROVE FieldOK(e, x, sealings)
    <2>1. x \in DOMAIN d.fields
      BY <1>6
    <2>2. CASE x = f
      BY <1>5, <1>6, <2>1, <2>2 DEF FieldOK
    <2>3. CASE x # f
      <3>1. e.fields[x] = d.fields[x]
        BY <1>6, <2>1, <2>3
      <3> QED
        BY <1>4, <1>6, <2>1, <3>1 DEF EventOK, FieldOK
    <2> QED
      BY <2>2, <2>3
  <1>8. EventOK(e, sealings)
    BY <1>4, <1>6, <1>7 DEF EventOK
  <1> DEFINE S == {}
  <1>9. /\ chain' = Append(chain, e)
        /\ sealings' = sealings /\ sealings' = sealings \cup S
        /\ \A s \in S : SealingOK(s)
    BY <1>3 DEF PublishFaulty, e
  <1>10. EventOK(e, sealings')
    BY <1>8, <1>9
  <1> HIDE DEF S, d
  <1> QED
    BY <1>9, <1>10, ChainGrows

\* A ring gets another key.
LEMMA RingGrows ==
  ASSUME RingsOK, NEW m \in Members, NEW k, IsKey(k),
         ring' = [ring EXCEPT ![m] = @ \cup {k}]
  PROVE  RingsOK'
  BY DEF RingsOK

\* Following a rotation turns a key into the next epoch's.
LEMMA NextKey ==
  ASSUME NEW k, IsKey(k), NEW v
  PROVE  IsKey([k EXCEPT !.epoch = @ + 1, !.mvk = v])
  <1> DEFINE j == [k EXCEPT !.epoch = @ + 1, !.mvk = v]
  <1>1. k = [server |-> k.server, epoch |-> k.epoch, mvk |-> k.mvk]
    BY DEF IsKey
  <1>2. j = [server |-> k.server, epoch |-> k.epoch + 1, mvk |-> v]
    <2>1. DOMAIN k = {"server", "epoch", "mvk"}
      BY <1>1
    <2>2. j = [f \in DOMAIN k |-> IF f = "mvk" THEN v
                                 ELSE IF f = "epoch" THEN k.epoch + 1 ELSE k[f]]
      OBVIOUS
    <2> QED
      BY <2>1, <2>2, SMT
  <1>3. j.server = k.server /\ j.epoch = k.epoch + 1 /\ j.mvk = v
    BY <1>2
  <1> QED
    BY <1>2, <1>3 DEF IsKey

LEMMA RosterStays ==
  ASSUME RosterOK, roster' = roster, present' = present
  PROVE  RosterOK'
  BY DEF RosterOK

LEMMA JoinStep ==
  ASSUME RosterOK, NEW k, IsKey(k), NEW m,
         roster' = roster \cup {MemberTag(k, m)},
         present' = present \cup {[member |-> m, key |-> k]}
  PROVE  RosterOK'
  <1> DEFINE new == [member |-> m, key |-> k]
             tag(p) == MemberTag(p.key, p.member)
  <1>1. new.member = m /\ new.key = k /\ new = [member |-> new.member, key |-> new.key]
    OBVIOUS
  <1>2. tag(new) = MemberTag(k, m)
    BY <1>1
  <1>3. roster' = {tag(p) : p \in present} \cup {tag(new)} /\ present' = present \cup {new}
    BY <1>2 DEF RosterOK
  <1> HIDE DEF new, tag
  <1>4. roster' = {tag(p) : p \in present'}
    BY <1>3
  <1>5. \A p \in present' : IsKey(p.key) /\ p = [member |-> p.member, key |-> p.key]
    BY <1>1, <1>3 DEF RosterOK
  <1> QED
    BY <1>4, <1>5 DEF RosterOK, tag

\* A tag names one member and key: taking it back takes back that join alone.
LEMMA LeaveStep ==
  ASSUME RosterOK, NEW k, IsKey(k), NEW m,
         roster' = roster \ {MemberTag(k, m)},
         present' = present \ {[member |-> m, key |-> k]}
  PROVE  RosterOK'
  <1> DEFINE old == [member |-> m, key |-> k]
             tag(p) == MemberTag(p.key, p.member)
  <1>1. old.member = m /\ old.key = k
    OBVIOUS
  <1>2. tag(old) = MemberTag(k, m)
    BY <1>1
  <1>3. ASSUME NEW p \in present, tag(p) = tag(old) PROVE p = old
    <2>1. IsKey(p.key) /\ p = [member |-> p.member, key |-> p.key]
      BY DEF RosterOK
    <2>2. p.key = k /\ p.member = m
      BY <1>2, <1>3, <2>1, MemberTagInjective
    <2> QED
      BY <2>1, <2>2
  <1>4. /\ roster' = {tag(p) : p \in present} \ {tag(old)}
        /\ present' = present \ {old}
    BY <1>2 DEF RosterOK
  <1> HIDE DEF old, tag
  <1>5. roster' = {tag(p) : p \in present'}
    BY <1>3, <1>4
  <1>6. \A p \in present' : IsKey(p.key) /\ p = [member |-> p.member, key |-> p.key]
    BY <1>4 DEF RosterOK
  <1> QED
    BY <1>5, <1>6 DEF RosterOK, tag

LEMMA InvInit ==
  ASSUME Init
  PROVE  Inv
  <1>1. RingsOK
    <2>1. ring \in [Members -> SUBSET Keys]
      BY EnvelopeAssumption DEF Init
    <2>2. \A k \in Keys : IsKey(k)
      BY DEF Keys, IsKey
    <2> QED
      BY <2>1, <2>2 DEF RingsOK
  <1>2. ChainOK
    <2>1. IsSeq(chain) /\ DOMAIN chain = {}
      <3>1. IsSeq(<<>>)
        BY EmptySeq, SeqIsSeq
      <3> QED
        BY <3>1 DEF Init
    <2> QED
      BY <2>1 DEF ChainOK, Init
  <1>3. RosterOK
    BY DEF RosterOK, Init
  <1> QED
    BY <1>1, <1>2, <1>3 DEF Inv

LEMMA InvStep ==
  ASSUME Inv, [Next]_vars
  PROVE  Inv'
  <1> USE DEF Inv
  <1>0. \A m \in Members : \A k \in ring[m] : IsKey(k)
    BY DEF RingsOK
  <1>1. ASSUME NEW m \in Members, Post(m) PROVE Inv'
    <2>1. PICK k \in ring[m], c \in Channels, body \in Bodies :
            Publish("MessagePost", k, c,
                    [f \in {EncCid, EncBodyRef} |-> IF f = EncCid THEN <<c>> ELSE body])
      BY <1>1 DEF Post
    <2> DEFINE texts == [f \in {EncCid, EncBodyRef} |-> IF f = EncCid THEN <<c>> ELSE body]
    <2>2. \A f \in DOMAIN texts : texts[f] \in {<<c>>, body}
      OBVIOUS
    <2>3. IsSeq(<<c>>) /\ IsSeq(body)
      BY OneIsSeq, EnvelopeAssumption DEF IsSeq
    <2> HIDE DEF texts
    <2>4. Publish("MessagePost", k, c, texts)
      BY <2>1 DEF texts
    <2>5. ChainOK'
      BY <1>0, <2>2, <2>3, <2>4, PublishStep
    <2>6. RingsOK' /\ RosterOK'
      BY <1>1, RosterStays DEF Post, RingsOK
    <2> QED
      BY <2>5, <2>6
  <1>2. ASSUME NEW m \in Members, Rotate(m) PROVE Inv'
    <2>1. PICK k \in ring[m], v \in Mvks :
            /\ Publish("KeyRotate", k, Lobby, [f \in {MemberSealed} |-> <<v>>])
            /\ ring' = [ring EXCEPT ![m] = @ \cup {[k EXCEPT !.epoch = @ + 1, !.mvk = v]}]
      BY <1>2 DEF Rotate
    <2> DEFINE texts == [f \in {MemberSealed} |-> <<v>>]
    <2>2. \A f \in DOMAIN texts : IsSeq(texts[f])
      BY OneIsSeq
    <2> HIDE DEF texts
    <2>3. Publish("KeyRotate", k, Lobby, texts)
      BY <2>1 DEF texts
    <2>4. ChainOK'
      BY <1>0, <2>2, <2>3, PublishStep
    <2>5. RingsOK'
      BY <1>0, <2>1, NextKey, RingGrows
    <2>6. RosterOK'
      BY <1>2, RosterStays DEF Rotate
    <2> QED
      BY <2>4, <2>5, <2>6
  <1>3. ASSUME NEW m \in Members, Learn(m) PROVE Inv'
    <2>1. PICK i \in DOMAIN chain, k \in ring[m] :
            \E text \in Reads(k, Lobby, chain[i], MemberSealed) :
              ring' = [ring EXCEPT ![m] = @ \cup {[k EXCEPT !.epoch = @ + 1, !.mvk = text[1]]}]
      BY <1>3 DEF Learn
    <2>2. PICK text \in Reads(k, Lobby, chain[i], MemberSealed) :
            ring' = [ring EXCEPT ![m] = @ \cup {[k EXCEPT !.epoch = @ + 1, !.mvk = text[1]]}]
      BY <2>1
    <2>3. RingsOK'
      BY <1>0, <2>2, NextKey, RingGrows
    <2>4. ChainOK' /\ RosterOK'
      BY <1>3, RosterStays DEF Learn, ChainOK
    <2> QED
      BY <2>3, <2>4
  <1>4. ASSUME NEW m \in Members, Join(m) PROVE Inv'
    <2>1. PICK k \in ring[m] :
            /\ Publish("SealedMemberJoin", k, Lobby, [f \in {MemberSealed} |-> <<m>>])
            /\ roster' = roster \cup {MemberTag(k, m)}
            /\ present' = present \cup {[member |-> m, key |-> k]}
      BY <1>4 DEF Join
    <2> DEFINE texts == [f \in {MemberSealed} |-> <<m>>]
    <2>2. \A f \in DOMAIN texts : IsSeq(texts[f])
      BY OneIsSeq
    <2> HIDE DEF texts
    <2>3. Publish("SealedMemberJoin", k, Lobby, texts)
      BY <2>1 DEF texts
    <2>4. ChainOK'
      BY <1>0, <2>2, <2>3, PublishStep
    <2>5. RosterOK'
      BY <1>0, <2>1, JoinStep
    <2>6. RingsOK'
      BY <1>4 DEF Join, RingsOK
    <2> QED
      BY <2>4, <2>5, <2>6
  <1>5. ASSUME NEW m \in Members, Leave(m) PROVE Inv'
    <2>1. PICK k \in ring[m] :
            /\ roster' = roster \ {MemberTag(k, m)}
            /\ present' = present \ {[member |-> m, key |-> k]}
      BY <1>5 DEF Leave
    <2>2. RosterOK'
      BY <1>0, <2>1, LeaveStep
    <2>3. RingsOK' /\ ChainOK'
      BY <1>5 DEF Leave, RingsOK, ChainOK
    <2> QED
      BY <2>2, <2>3
  <1>6. CASE PublishFaulty
    <2>1. ChainOK'
      BY <1>6, FaultyStep
    <2>2. RingsOK' /\ RosterOK'
      BY <1>6, RosterStays DEF PublishFaulty, RingsOK
    <2> QED
      BY <2>1, <2>2
  <1>7. CASE UNCHANGED vars
    BY <1>7, RosterStays DEF vars, RingsOK, ChainOK
  <1> QED
    BY <1>1, <1>2, <1>3, <1>4, <1>5, <1>6, <1>7 DEF Next

LEMMA AlwaysInv == Spec => []Inv
  <1>1. Inv /\ [Next]_vars => Inv'
    BY InvStep
  <1> QED
    BY <1>1, InvInit, PTL DEF Spec

---------------------------------------------------------------------------
(* The theorems.                                                           *)

\* An event reaches exactly those who watch its server, channel and key epoch
\* with its master key: no two of these share a match_tag.
THEOREM FanOutExactHolds == Spec => []FanOutExact
  BY AlwaysInv, InvSuffices, PTL

\* A field opens only where, and for what, it was sealed.
THEOREM ReadsRightHolds == Spec => []ReadsRight
  BY AlwaysInv, InvSuffices, PTL

\* Whoever holds the key reads what was written.
THEOREM HoldersReadHolds == Spec => []HoldersRead
  BY AlwaysInv, InvSuffices, PTL

\* The roster kept by tags alone is the members who joined and did not leave.
THEOREM RosterExactHolds == Spec => []RosterExact
  BY AlwaysInv, InvSuffices, PTL
=============================================================================
