------------------------- MODULE RequestAuthProofs --------------------------
(***************************************************************************)
(* Proofs about RequestAuth, for every set of hosts, endpoints and keys,   *)
(* every window and every width of the integers.                           *)
(***************************************************************************)
EXTENDS RequestAuth, TLAPS

\* The time a receiver computes with wraps around and still decides the window
\* as true arithmetic does, for any timestamp a header can hold, as long as the
\* window and the clock fit the type together (request_auth.rs:165-166).
THEOREM WindowIsExact ==
  ASSUME NEW clock \in 0 .. Horizon + MaxOffset,
         NEW ts \in -(I64Max + 1) .. I64Max
  PROVE  InWindow(clock, ts) <=> Distance(clock, ts) <= SkewSecs
  BY WindowAssumption, SMT
  DEF InWindow, Drift, WrapI64, UnsignedAbs, Distance

---------------------------------------------------------------------------
(* What is known of a request under way: its tag is what its sender signed *)
(* and its headers, where they are left, still say the same.               *)

Tag(w) ==
  Sign(Secret(KeyOwnerOf[w.host], w.version),
       [name |-> NameOf[w.host], spaced |-> FALSE],
       [n |-> w.ts, decimal |-> TRUE],
       w.endpoint.method, w.endpoint.path, w.body)

Callers(w) == {[name |-> NameOf[w.host], spaced |-> s] : s \in BOOLEAN}
Stamps(w) == {[n |-> w.ts, decimal |-> d] : d \in BOOLEAN}

Spellings(w) == {[hex |-> h, mac |-> Tag(w).mac] : h \in BOOLEAN}

Headers(w) ==
  /\ \A c \in w.request.caller : c \in Callers(w)
  /\ \A t \in w.request.ts : t \in Stamps(w)
  /\ \A s \in w.request.sig : s \in Spellings(w)

Intact(w) ==
  /\ \E c \in Callers(w) : w.request.caller = {c}
  /\ w.request.ts = {[n |-> w.ts, decimal |-> TRUE]}
  /\ w.request.sig = {Tag(w)}
  /\ w.request.body = w.body

Fields(w) ==
  /\ w = [request |-> w.request, host |-> w.host, endpoint |-> w.endpoint,
          ts |-> w.ts, body |-> w.body, version |-> w.version, at |-> w.at,
          touched |-> w.touched]
  /\ w.request = [caller |-> w.request.caller, ts |-> w.request.ts,
                  body |-> w.request.body, sig |-> w.request.sig]
  /\ w.touched \in BOOLEAN
  /\ w.host \in Hosts /\ w.endpoint \in Endpoints

Stamped(w) ==
  /\ w.at \in 0 .. now
  /\ w.ts \in -(I64Max + 1) .. I64Max
  /\ w.ts \in OddTimestamps \/ w.ts \in w.at - MaxOffset .. w.at + MaxOffset

Genuine(w) ==
  Fields(w) /\ Headers(w) /\ Stamped(w) /\ (~ w.touched => Intact(w))

Handled(o) ==
  /\ o.result = Verify(o.secrets, o.endpoint, o.clock, o.sent.request)
  /\ o.endpoint \in Endpoints
  /\ DOMAIN o.secrets = KnownTo[o.endpoint]
  /\ o.clock \in now - MaxOffset .. now + MaxOffset
  /\ o.at = now
  /\ Genuine(o.sent)

IInv ==
  /\ now \in 0 .. Horizon
  /\ \A e \in Endpoints : DOMAIN secrets[e] = KnownTo[e]
  /\ DOMAIN secrets = Endpoints
  /\ \A w \in wire : Genuine(w)
  /\ \A o \in outcome : Handled(o)

---------------------------------------------------------------------------
(* The steps.                                                              *)

LEMMA SendGenuine ==
  ASSUME IInv, NEW h \in Hosts, NEW e \in Endpoints, NEW body \in Bodies,
         NEW ts \in OddTimestamps \cup Readings, Send(h, e, body, ts)
  PROVE  \A w \in wire' : Genuine(w)'
  <1> SUFFICES ASSUME NEW w \in wire' PROVE Genuine(w)'
    OBVIOUS
  <1>1. now \in 0 .. Horizon /\ now' = now
    BY DEF IInv, Send
  <1> DEFINE v == KeyVersion(KeyOwnerOf[h])
             c == [name |-> NameOf[h], spaced |-> FALSE]
             t == [n |-> ts, decimal |-> TRUE]
             g == Sign(Secret(KeyOwnerOf[h], v), c, t, e.method, e.path, body)
             r == [caller |-> {c}, ts |-> {t}, body |-> body, sig |-> {g}]
  <1>2. w = [request |-> r, host |-> h, endpoint |-> e, ts |-> ts, body |-> body,
             version |-> v, at |-> now, touched |-> FALSE]
    BY DEF Send, Secret
  <1>3. Fields(w)
    BY <1>2 DEF Fields
  <1>4. w.request.sig = {Tag(w)}
    BY <1>2 DEF Tag
  <1>5. Headers(w) /\ Intact(w)
    <2>1. Tag(w) \in Spellings(w)
      BY DEF Tag, Sign, Spellings
    <2> QED
      BY <1>2, <1>4, <2>1 DEF Headers, Intact, Callers, Stamps
  <1>6. Stamped(w)
    <2>1. w.ts = ts /\ w.at = now
      BY <1>2
    <2>2. ts \in OddTimestamps \/ ts \in now - MaxOffset .. now + MaxOffset
      BY DEF Readings
    <2>3. now - MaxOffset .. now + MaxOffset \subseteq -(I64Max + 1) .. I64Max
      <3> HIDE DEF v, c, t, g, r
      <3> QED
        BY ONLY <1>1, WindowAssumption
    <2>4. ts \in -(I64Max + 1) .. I64Max
      BY <2>2, <2>3, TimestampsAssumption
    <2>5. now \in 0 .. now
      BY ONLY <1>1, WindowAssumption
    <2> QED
      BY <2>1, <2>2, <2>4, <2>5 DEF Stamped
  <1>7. Stamped(w)'
    BY <1>1, <1>6 DEF Stamped
  <1> QED
    BY <1>3, <1>5, <1>7 DEF Genuine, Fields, Headers, Intact, Tag, Spellings, Callers, Stamps

LEMMA ProxyGenuine ==
  ASSUME IInv, NEW w \in wire, Proxy(w)
  PROVE  \A x \in wire' : Genuine(x)'
  <1>1. Genuine(w) /\ ~ w.touched /\ now' = now
    BY DEF IInv, Proxy
  <1>2. Fields(w) /\ Headers(w) /\ Stamped(w) /\ Intact(w)
    BY <1>1 DEF Genuine
  <1> DEFINE Kept(x, r, touched) ==
        x = [request |-> r, host |-> w.host, endpoint |-> w.endpoint,
             ts |-> w.ts, body |-> w.body, version |-> w.version, at |-> w.at,
             touched |-> touched]
  <1>3. CASE wire' = {[w EXCEPT !.request = Respaced(@)]}
    <2> SUFFICES ASSUME NEW x \in wire' PROVE Genuine(x)'
      OBVIOUS
    <2> DEFINE q == Respaced(w.request)
    <2>1. Kept(x, q, FALSE)
      BY <1>1, <1>2, <1>3 DEF Fields
    <2>2. PICK c \in Callers(w) : w.request.caller = {c}
      BY <1>2 DEF Intact
    <2>3. q = [caller |-> {[name |-> NameOf[w.host], spaced |-> TRUE]},
               ts |-> w.request.ts, body |-> w.request.body, sig |-> w.request.sig]
      BY <1>2, <2>2 DEF Respaced, Fields, Callers
    <2>4. Fields(x) /\ Stamped(x)
      BY <1>2, <2>1, <2>3 DEF Fields, Stamped
    <2>5. Tag(x) = Tag(w) /\ Callers(x) = Callers(w) /\ Stamps(x) = Stamps(w)
      BY <2>1 DEF Tag, Spellings, Callers, Stamps
    <2>6. Headers(x) /\ Intact(x)
      <3>1. x.request = q /\ x.ts = w.ts /\ x.body = w.body
        BY <2>1
      <3>2. [name |-> NameOf[w.host], spaced |-> TRUE] \in Callers(x)
        BY <2>5 DEF Callers
      <3>3. Intact(x)
        <4>1. /\ x.request.caller = {[name |-> NameOf[w.host], spaced |-> TRUE]}
              /\ x.request.ts = w.request.ts
              /\ x.request.sig = w.request.sig
              /\ x.request.body = w.request.body
          BY <2>3, <3>1
        <4> QED
          BY <1>2, <2>5, <3>1, <3>2, <4>1 DEF Intact
      <3>4. [n |-> x.ts, decimal |-> TRUE] \in Stamps(x)
        BY DEF Stamps
      <3>5. Tag(x) \in Spellings(x)
        BY DEF Tag, Sign, Spellings
      <3> QED
        BY <3>3, <3>4, <3>5 DEF Headers, Intact
    <2> QED
      BY <1>1, <2>4, <2>6
      DEF Genuine, Fields, Headers, Stamped, Intact, Tag, Spellings, Callers, Stamps
  <1>4. ASSUME NEW r \in Damaged(w.request),
               wire' = {[w EXCEPT !.request = r, !.touched = TRUE]}
        PROVE  \A x \in wire' : Genuine(x)'
    <2> SUFFICES ASSUME NEW x \in wire' PROVE Genuine(x)'
      OBVIOUS
    <2>1. Kept(x, r, TRUE)
      BY <1>2, <1>4 DEF Fields
    <2>2. /\ r = [caller |-> r.caller, ts |-> r.ts, body |-> r.body, sig |-> r.sig]
          /\ r.caller \in {{}, w.request.caller}
          /\ r.sig \in {{}, w.request.sig, {[hex |-> FALSE, mac |-> Tag(w).mac]}}
          /\ r.ts \in {{}, w.request.ts, {[n |-> w.ts, decimal |-> FALSE]}}
      <3>1. {[t EXCEPT !.decimal = FALSE] : t \in w.request.ts}
              = {[n |-> w.ts, decimal |-> FALSE]}
        BY <1>2 DEF Intact
      <3>2. {[s EXCEPT !.hex = FALSE] : s \in w.request.sig}
              = {[hex |-> FALSE, mac |-> Tag(w).mac]}
        <4>1. PICK m : Tag(w) = [hex |-> TRUE, mac |-> m]
          BY DEF Tag, Sign
        <4>2. w.request.sig = {[hex |-> TRUE, mac |-> m]} /\ Tag(w).mac = m
          BY <1>2, <4>1 DEF Intact
        <4>3. {[s EXCEPT !.hex = FALSE] : s \in {[hex |-> TRUE, mac |-> m]}}
                = {[hex |-> FALSE, mac |-> m]}
          OBVIOUS
        <4> QED
          BY <4>2, <4>3
      <3>3. \/ r \in {[w.request EXCEPT !.caller = {}], [w.request EXCEPT !.ts = {}],
                    [w.request EXCEPT !.sig = {}]}
            \/ r = [w.request EXCEPT !.ts = {[n |-> w.ts, decimal |-> FALSE]}]
            \/ r = [w.request EXCEPT !.sig = {[hex |-> FALSE, mac |-> Tag(w).mac]}]
            \/ \E body \in Bodies : r = [w.request EXCEPT !.body = body]
        BY <1>4, <3>1, <3>2 DEF Damaged
      <3>4. w.request = [caller |-> w.request.caller, ts |-> w.request.ts,
                         body |-> w.request.body, sig |-> w.request.sig]
        BY <1>2 DEF Fields
      <3> QED
        BY <3>3, <3>4
    <2>3. Fields(x) /\ Stamped(x)
      BY <1>2, <2>1, <2>2 DEF Fields, Stamped
    <2>4. /\ Tag(x) = Tag(w) /\ Spellings(x) = Spellings(w)
          /\ Callers(x) = Callers(w) /\ Stamps(x) = Stamps(w)
      BY <2>1 DEF Tag, Spellings, Callers, Stamps
    <2>5. /\ [n |-> w.ts, decimal |-> FALSE] \in Stamps(w)
          /\ [hex |-> FALSE, mac |-> Tag(w).mac] \in Spellings(w)
      BY DEF Stamps, Spellings
    <2>6. x.request = r
      BY <2>1
    <2>7. Headers(x)
      BY <1>2, <2>2, <2>4, <2>5, <2>6 DEF Headers
    <2> QED
      BY <1>1, <2>1, <2>3, <2>7
      DEF Genuine, Fields, Headers, Stamped, Tag, Spellings, Callers, Stamps
  <1> QED
    BY <1>3, <1>4 DEF Proxy

LEMMA IInvInductive ==
  IInv /\ [Next]_vars => IInv'
  <1> SUFFICES ASSUME IInv, [Next]_vars PROVE IInv'
    OBVIOUS
  <1>1. ASSUME NEW h \in Hosts, NEW e \in Endpoints, NEW body \in Bodies,
               NEW ts \in OddTimestamps \cup Readings, Send(h, e, body, ts)
        PROVE  IInv'
    BY <1>1, SendGenuine DEF IInv, Send
  <1>2. ASSUME NEW w \in wire, Proxy(w)
        PROVE  IInv'
    BY <1>2, ProxyGenuine DEF IInv, Proxy
  <1>3. ASSUME NEW w \in wire, NEW e \in Endpoints, NEW clock \in Readings,
               Receive(e, w, clock)
        PROVE  IInv'
    <2>1. now' = now /\ wire' = wire /\ secrets' = secrets
      BY <1>3 DEF Receive
    <2>2. ASSUME NEW x, Genuine(x) PROVE Genuine(x)'
      BY <2>1, <2>2 DEF Genuine, Fields, Headers, Stamped, Intact, Tag, Spellings, Callers, Stamps
    <2>3. \A x \in wire : Genuine(x)
      BY DEF IInv
    <2>4. ASSUME NEW o \in outcome' PROVE Handled(o)'
      <3>1. o = [result |-> Verify(secrets[e], e, clock, w.request),
                 endpoint |-> e, sent |-> w, clock |-> clock, at |-> now,
                 secrets |-> secrets[e]]
        BY <1>3, <2>4 DEF Receive
      <3>2. o.result = Verify(o.secrets, o.endpoint, o.clock, o.sent.request)
        BY <3>1
      <3>3. Genuine(o.sent)'
        BY <2>2, <2>3, <3>1
      <3>4. DOMAIN o.secrets = KnownTo[o.endpoint]
        BY <3>1 DEF IInv
      <3>5. (o.result = Verify(o.secrets, o.endpoint, o.clock, o.sent.request))'
        BY <3>2
      <3> QED
        BY <2>1, <3>1, <3>3, <3>4, <3>5 DEF Handled, Readings
    <2> QED
      BY <2>1, <2>2, <2>3, <2>4 DEF IInv
  <1>4. CASE Lose
    BY <1>4 DEF IInv, Lose
  <1>5. CASE Tick
    <2>1. now \in 0 .. Horizon /\ now' = now + 1 /\ now' \in 0 .. Horizon
      BY <1>5, WindowAssumption DEF Tick, IInv
    <2>2. ASSUME NEW w \in wire PROVE Genuine(w)'
      <3>1. Genuine(w)
        BY DEF IInv
      <3>2. Stamped(w)'
        BY <2>1, <3>1 DEF Genuine, Stamped
      <3> QED
        BY <3>1, <3>2 DEF Genuine, Fields, Headers, Intact, Tag, Spellings, Callers, Stamps
    <2> QED
      BY <1>5, <2>1, <2>2 DEF IInv, Tick
  <1>6. ASSUME NEW w \in wire, Genuine(w), now' = now
        PROVE  Genuine(w)'
    BY <1>6 DEF Genuine, Fields, Headers, Stamped, Intact, Tag, Spellings, Callers, Stamps
  <1>7. ASSUME NEW c \in Rotating, RotateKey(c)
        PROVE  IInv'
    BY <1>6, <1>7 DEF IInv, RotateKey
  <1>8. ASSUME NEW c \in Rotating, NEW e \in Endpoints, RotateSecret(e, c)
        PROVE  IInv'
    <2>1. secrets' = [secrets EXCEPT ![e][c] = @ + 1]
      BY <1>8 DEF RotateSecret
    <2>2. DOMAIN secrets' = Endpoints
      BY <2>1 DEF IInv
    <2>3. \A f \in Endpoints : DOMAIN secrets'[f] = KnownTo[f]
      BY <2>1 DEF IInv
    <2> QED
      BY <1>6, <1>8, <2>2, <2>3 DEF IInv, RotateSecret
  <1>9. CASE UNCHANGED vars
    <2>1. ASSUME NEW o \in outcome PROVE Handled(o)'
      <3>1. Handled(o) /\ now' = now
        BY <1>9 DEF IInv, vars
      <3>2. Genuine(o.sent)'
        BY <3>1
        DEF Handled, Genuine, Fields, Headers, Stamped, Intact, Tag, Spellings, Callers, Stamps
      <3>3. (o.result = Verify(o.secrets, o.endpoint, o.clock, o.sent.request))'
        BY <3>1 DEF Handled
      <3> QED
        BY <3>1, <3>2, <3>3 DEF Handled
    <2> QED
      BY <1>6, <1>9, <2>1 DEF IInv, vars
  <1> QED
    BY <1>1, <1>2, <1>3, <1>4, <1>5, <1>7, <1>8, <1>9 DEF Next

LEMMA InvariantHolds == Spec => []IInv
  <1>1. Init => IInv
    BY WindowAssumption DEF Init, IInv
  <1> QED
    BY <1>1, IInvInductive, PTL DEF Spec

---------------------------------------------------------------------------
(* The properties.                                                         *)

\* A receiver accepts only what a host with the caller's id and current key
\* signed for it, with the body it has.
THEOREM AcceptedWasSignedHolds == Spec => []AcceptedWasSigned
  <1>1. IInv => AcceptedWasSigned
    <2> SUFFICES ASSUME IInv, NEW o \in outcome, o.result = "Ok"
                 PROVE  LET w == o.sent IN
                        /\ NameOf[w.host] \in KnownTo[o.endpoint]
                        /\ KeyOwnerOf[w.host] = NameOf[w.host]
                        /\ w.version = o.secrets[NameOf[w.host]]
                        /\ w.endpoint = o.endpoint
                        /\ w.request.body = w.body
      BY DEF AcceptedWasSigned
    <2> DEFINE w == o.sent
               r == w.request
               e == o.endpoint
               caller == CHOOSE c \in r.caller : TRUE
               ts == CHOOSE t \in r.ts : TRUE
               sig == CHOOSE s \in r.sig : TRUE
               payload == CanonicalInput(Trim(caller), ts,
                                         e.method, e.path, r.body)
    <2>1. Handled(o) /\ Genuine(w)
      BY DEF IInv, Handled
    <2>2. Verify(o.secrets, e, o.clock, r) = "Ok"
      BY <2>1 DEF Handled
    <2>3. /\ r.caller # {} /\ r.sig # {}
          /\ caller.name \in DOMAIN o.secrets
          /\ sig.mac = Hmac(Secret(caller.name, o.secrets[caller.name]), payload)
      <3> HIDE DEF payload, caller, ts, sig
      <3> QED BY <2>2 DEF Verify, caller, ts, sig, payload
    <2>4. caller \in r.caller /\ sig \in r.sig
      BY <2>3
    <2>5. caller.name = NameOf[w.host] /\ sig.mac = Tag(w).mac
      BY <2>1, <2>4 DEF Genuine, Headers, Callers, Spellings
    <2>6. /\ Secret(caller.name, o.secrets[caller.name])
               = Secret(KeyOwnerOf[w.host], w.version)
          /\ payload = CanonicalInput([name |-> NameOf[w.host], spaced |-> FALSE],
                         [n |-> w.ts, decimal |-> TRUE],
                         w.endpoint.method, w.endpoint.path, w.body)
      <3> HIDE DEF payload, caller, sig
      <3> QED BY <2>3, <2>5 DEF Tag, Sign, Hmac, Trim
    <2>7. caller.name = KeyOwnerOf[w.host] /\ o.secrets[caller.name] = w.version
      BY <2>6 DEF Secret
    <2>8. /\ e.method = w.endpoint.method /\ e.path = w.endpoint.path
          /\ {r.body} = {w.body}
      BY <2>6 DEF CanonicalInput
    <2>9. w.endpoint = e
      BY <2>1, <2>8, EndpointsAssumption DEF Handled, Genuine, Fields
    <2> QED
      BY <2>1, <2>3, <2>5, <2>7, <2>8, <2>9 DEF Handled
  <1> QED
    BY <1>1, InvariantHolds, PTL

\* And only inside the window, in true arithmetic and in time.
THEOREM AcceptedInTimeHolds == Spec => []AcceptedInTime
  <1>1. IInv => AcceptedInTime
    <2> SUFFICES ASSUME IInv, NEW o \in outcome, o.result = "Ok"
                 PROVE  /\ Distance(o.clock, o.sent.ts) <= SkewSecs
                        /\ o.sent.ts \notin OddTimestamps
                             => o.at - o.sent.at <= SkewSecs + 2 * MaxOffset
      BY DEF AcceptedInTime
    <2> DEFINE w == o.sent
               r == w.request
               ts == CHOOSE t \in r.ts : TRUE
    <2>1. Handled(o) /\ Genuine(w) /\ now \in 0 .. Horizon
      BY DEF IInv, Handled
    <2>2. Verify(o.secrets, o.endpoint, o.clock, r) = "Ok"
      BY <2>1 DEF Handled
    <2>3. r.ts # {} /\ ~ (o.clock < 0) /\ InWindow(o.clock, ts.n)
      <3> HIDE DEF ts
      <3> QED BY <2>2 DEF Verify, ts
    <2>4. ts.n = w.ts
      <3>1. ts \in r.ts
        BY <2>3
      <3> QED
        BY <2>1, <3>1 DEF Genuine, Headers, Stamps
    <2>5. o.clock \in 0 .. Horizon + MaxOffset /\ w.ts \in -(I64Max + 1) .. I64Max
      BY <2>1, <2>3, WindowAssumption DEF Handled, Genuine, Stamped
    <2>6. Distance(o.clock, w.ts) <= SkewSecs
      BY <2>3, <2>4, <2>5, WindowIsExact
    <2>7. ASSUME w.ts \notin OddTimestamps
          PROVE  o.at - w.at <= SkewSecs + 2 * MaxOffset
      <3>1. /\ w.ts \in w.at - MaxOffset .. w.at + MaxOffset /\ w.at \in 0 .. now
            /\ o.clock \in now - MaxOffset .. now + MaxOffset /\ o.at = now
        BY <2>1, <2>7 DEF Handled, Genuine, Stamped
      <3> HIDE DEF w
      <3> QED
        BY <2>1, <2>6, <3>1, WindowAssumption, SMT DEF Distance
    <2> QED
      BY <2>6, <2>7
  <1> QED
    BY <1>1, InvariantHolds, PTL

\* Nor does it turn away, without a reason, what was signed.
THEOREM RefusedForAReasonHolds == Spec => []RefusedForAReason
  <1>1. IInv => RefusedForAReason
    <2> SUFFICES ASSUME IInv, NEW o \in outcome,
                        ~ o.sent.touched,
                        o.sent.endpoint = o.endpoint,
                        o.sent.ts \notin OddTimestamps,
                        NameOf[o.sent.host] # NoName,
                        NameOf[o.sent.host] \in KnownTo[o.endpoint],
                        KeyOwnerOf[o.sent.host] = NameOf[o.sent.host],
                        o.sent.version = o.secrets[NameOf[o.sent.host]],
                        o.clock >= 0,
                        o.at - o.sent.at + 2 * MaxOffset <= SkewSecs
                 PROVE  o.result = "Ok"
      BY DEF RefusedForAReason
    <2> DEFINE w == o.sent
               r == w.request
               e == o.endpoint
               name == NameOf[w.host]
               caller == CHOOSE c \in r.caller : TRUE
               ts == CHOOSE t \in r.ts : TRUE
               sig == CHOOSE s \in r.sig : TRUE
    <2>1. Handled(o) /\ Genuine(w) /\ Intact(w) /\ now \in 0 .. Horizon
      BY DEF IInv, Handled, Genuine
    <2>2. caller \in Callers(w) /\ r.caller # {}
      BY <2>1 DEF Intact
    <2>3. caller.name = name
      <3> HIDE DEF caller
      <3> QED BY <2>2 DEF Callers
    <2>4. ts = [n |-> w.ts, decimal |-> TRUE] /\ r.ts # {}
      BY <2>1 DEF Intact
    <2>5. sig = Tag(w) /\ r.sig # {} /\ r.body = w.body
      BY <2>1 DEF Intact
    <2>6. /\ w.ts \in w.at - MaxOffset .. w.at + MaxOffset /\ w.at \in 0 .. now
          /\ o.clock \in now - MaxOffset .. now + MaxOffset /\ o.at = now
          /\ w.ts \in -(I64Max + 1) .. I64Max
      BY <2>1 DEF Handled, Genuine, Stamped
    <2>7. Distance(o.clock, w.ts) <= SkewSecs /\ o.clock \in 0 .. Horizon + MaxOffset
      BY <2>1, <2>6, WindowAssumption, SMT DEF Distance
    <2>8. InWindow(o.clock, ts.n) /\ ~ Overflows(o.clock, ts.n)
      <3>1. InWindow(o.clock, w.ts)
        BY <2>6, <2>7, WindowIsExact
      <3>2. ~ Overflows(o.clock, w.ts)
        <4>1. \A m, n \in Int : Distance(m, n) <= SkewSecs => m - n <= I64Max
          BY WindowAssumption DEF Distance
        <4>2. o.clock \in Int /\ w.ts \in Int
          BY <2>6, <2>7, WindowAssumption
        <4>3. o.clock - w.ts <= I64Max
          BY <2>7, <4>1, <4>2
        <4> QED
          BY <4>2, <4>3, WindowAssumption, SMT DEF Overflows
      <3>3. ts.n = w.ts
        <4> HIDE DEF ts
        <4> QED BY <2>4
      <3> QED
        BY <3>1, <3>2, <3>3
    <2>9. /\ sig.hex
          /\ sig.mac = Hmac(Secret(caller.name, o.secrets[caller.name]),
                            CanonicalInput(Trim(caller), ts,
                                           e.method, e.path, r.body))
      <3> HIDE DEF caller, ts, sig
      <3> QED BY <2>3, <2>4, <2>5 DEF Tag, Sign, Trim
    <2>10. name \in DOMAIN o.secrets /\ ~ (o.clock < 0) /\ ts.decimal
      <3> HIDE DEF ts
      <3>1. DOMAIN o.secrets = KnownTo[e] /\ o.clock \in Int /\ o.clock >= 0
        BY <2>1, <2>7, WindowAssumption DEF Handled
      <3> QED BY <2>4, <3>1
    <2>11. Verify(o.secrets, e, o.clock, r) = "Ok"
      <3> HIDE DEF caller, ts, sig, name, r, e
      <3> QED
        BY <2>2, <2>3, <2>4, <2>5, <2>8, <2>9, <2>10 DEF Verify, caller, ts, sig, name
    <2> QED
      BY <2>1, <2>11 DEF Handled
  <1> QED
    BY <1>1, InvariantHolds, PTL
=============================================================================
