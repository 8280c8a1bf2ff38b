---------------------------- MODULE RequestAuth -----------------------------
(***************************************************************************)
(* crypto/src/request_auth.rs: callers that sign requests, receivers that  *)
(* verify them, and what lies between.  The services are external: they    *)
(* link sign and verify.  A request may be repeated, delayed, lost or sent *)
(* to another endpoint, and a proxy may respace or drop a header.  Callers *)
(* and receivers read clocks of their own, off by up to MaxOffset this way *)
(* or that, and a key is rotated at its caller and at the receivers at     *)
(* different times.                                                        *)
(*                                                                         *)
(* HMAC is a free constructor: a tag is the pair of key and input.         *)
(***************************************************************************)
EXTENDS Integers

CONSTANTS
  Hosts,            \* programs that send requests
  NameOf,           \* host -> the caller id it is configured with
  KeyOwnerOf,       \* host -> the caller whose key it is configured with
  NoName,           \* the empty caller id
  Endpoints,        \* [method, path] of each endpoint, one receiver each
  KnownTo,          \* endpoint -> the caller ids of its receiver's secrets map
  Bodies,
  SkewSecs,         \* the window a receiver allows
  OddTimestamps,    \* what a broken clock may give
  MaxOffset,        \* how far the other clocks are off
  I64Max,
  OverflowChecks,   \* TRUE in a debug build, where i64 overflow panics
  Horizon,          \* bound: the last second
  Rotating,         \* caller ids whose key is replaced
  MaxRotations      \* bound: how often

ASSUME WindowAssumption ==
  /\ SkewSecs \in Nat /\ MaxOffset \in Nat /\ Horizon \in Nat /\ MaxRotations \in Nat
  /\ I64Max \in Nat /\ SkewSecs + Horizon + MaxOffset <= I64Max
  /\ OverflowChecks \in BOOLEAN

\* No two endpoints share method and path.
ASSUME EndpointsAssumption ==
  \A e, f \in Endpoints : e.method = f.method /\ e.path = f.path => e = f

ASSUME TimestampsAssumption == OddTimestamps \subseteq -(I64Max + 1) .. I64Max

VARIABLES
  now,        \* time, in seconds
  key,        \* caller id -> the version its hosts sign with
  secrets,    \* endpoint -> caller id -> the version its receiver has
  wire,       \* the request under way, with what its sender did (history)
  outcome     \* the request a receiver has just handled: {} or a singleton

vars == <<now, key, secrets, wire, outcome>>

Secret(owner, version) == [owner |-> owner, version |-> version]

\* What somebody's clock may say now.
Readings == now - MaxOffset .. now + MaxOffset

---------------------------------------------------------------------------
(* The crate.  A header is absent, {}, or present, {value}.  The caller id *)
(* may have spaces around it, which trim() takes away; a timestamp is kept *)
(* as it is spelled, and only a plain decimal one parses.                  *)

CanonicalInput_NoBody(caller, ts, method, path, body) ==              \* mutation
  [caller |-> caller, ts |-> ts, method |-> method, path |-> path, body |-> {}]
CanonicalInput(caller, ts, method, path, body) ==
  [caller |-> caller, ts |-> ts, method |-> method, path |-> path, body |-> {body}]

Hmac(secret, payload) == [secret |-> secret, payload |-> payload]

\* In hexadecimal, either case.
Sign(secret, caller, ts, method, path, body) ==
  [hex |-> TRUE, mac |-> Hmac(secret, CanonicalInput(caller, ts, method, path, body))]

\* i64 subtraction in a release build.
WrapI64(n) == IF n > I64Max THEN n - 2 * (I64Max + 1) ELSE n
UnsignedAbs(n) == IF n < 0 THEN -n ELSE n

Overflows(clock, ts) == clock - ts > I64Max

Drift_SignedCompare(clock, ts) == WrapI64(clock - ts)                 \* mutation
Drift(clock, ts) == UnsignedAbs(WrapI64(clock - ts))

InWindow_OffByOne(clock, ts) == Drift(clock, ts) < SkewSecs           \* mutation
InWindow(clock, ts) == Drift(clock, ts) <= SkewSecs

Trim(caller) == [name |-> caller.name, spaced |-> FALSE]

\* Checks in the order of the code; `map` gives versions, `clock` is the
\* receiver's.
Verify(map, e, clock, r) ==
  LET caller == CHOOSE c \in r.caller : TRUE
      ts == CHOOSE t \in r.ts : TRUE
      sig == CHOOSE s \in r.sig : TRUE
      payload == CanonicalInput(Trim(caller), ts,
                                e.method, e.path, r.body)
  IN
  IF r.caller = {} THEN "MissingCaller"
  ELSE IF caller.name = NoName THEN "EmptyCaller"
  ELSE IF r.ts = {} THEN "MissingTimestamp"
  ELSE IF r.sig = {} THEN "MissingSignature"
  ELSE IF ~ ts.decimal THEN "MalformedTimestamp"
  ELSE IF clock < 0 THEN "ClockSkew"
  ELSE IF OverflowChecks /\ Overflows(clock, ts.n) THEN "panic"
  ELSE IF ~ InWindow(clock, ts.n) THEN "TimestampDrift"
  ELSE IF caller.name \notin DOMAIN map THEN "UnknownCaller"
  ELSE IF ~ sig.hex THEN "MalformedSignature"
  ELSE IF sig.mac # Hmac(Secret(caller.name, map[caller.name]), payload)
    THEN "HmacMismatch"
  ELSE "Ok"

---------------------------------------------------------------------------
(* Callers, receivers and the network.                                     *)

Init ==
  /\ now = 0
  /\ key = [c \in Rotating |-> 0]
  /\ secrets = [e \in Endpoints |-> [c \in KnownTo[e] |-> 0]]
  /\ wire = {}
  /\ outcome = {}

KeyVersion(owner) == IF owner \in Rotating THEN key[owner] ELSE 0

\* A host signs a request for an endpoint, stamped by its clock or by one that
\* is out of order.  Requests do not interact, so one on the wire is enough.
Send(h, e, body, ts) ==
  LET caller == [name |-> NameOf[h], spaced |-> FALSE]
      stamp == [n |-> ts, decimal |-> TRUE]
      secret == Secret(KeyOwnerOf[h], KeyVersion(KeyOwnerOf[h]))
      r == [caller |-> {caller}, ts |-> {stamp}, body |-> body,
            sig |-> {Sign(secret, caller, stamp, e.method, e.path, body)}]
  IN
  /\ wire = {}
  /\ wire' =
       {[request |-> r, host |-> h, endpoint |-> e, ts |-> ts, body |-> body,
         version |-> secret.version, at |-> now, touched |-> FALSE]}
  /\ outcome' = {}
  /\ UNCHANGED <<now, key, secrets>>

Respaced(r) == [r EXCEPT !.caller = {[c EXCEPT !.spaced = TRUE] : c \in @}]

\* What a proxy must not do: drop a header, respace the timestamp, cut the
\* signature or the body.
Damaged(r) ==
  {[r EXCEPT !.caller = {}], [r EXCEPT !.ts = {}], [r EXCEPT !.sig = {}],
   [r EXCEPT !.ts = {[t EXCEPT !.decimal = FALSE] : t \in @}],
   [r EXCEPT !.sig = {[s EXCEPT !.hex = FALSE] : s \in @}]}
    \cup {[r EXCEPT !.body = body] : body \in Bodies \ {r.body}}

\* A proxy passes the request on its own way.
Proxy(w) ==
  /\ ~ w.touched
  /\ \/ wire' = {[w EXCEPT !.request = Respaced(@)]}
     \/ \E r \in Damaged(w.request) :
          wire' = {[w EXCEPT !.request = r, !.touched = TRUE]}
  /\ outcome' = {}
  /\ UNCHANGED <<now, key, secrets>>

\* A receiver handles a request, the first time or again.
Receive(e, w, clock) ==
  /\ outcome' =
       {[result |-> Verify(secrets[e], e, clock, w.request),
         endpoint |-> e, sent |-> w, clock |-> clock, at |-> now,
         secrets |-> secrets[e]]}
  /\ UNCHANGED <<now, key, secrets, wire>>

Lose ==
  /\ wire # {}
  /\ wire' = {} /\ outcome' = {}
  /\ UNCHANGED <<now, key, secrets>>

Tick ==
  /\ now < Horizon
  /\ now' = now + 1 /\ outcome' = {}
  /\ UNCHANGED <<key, secrets, wire>>

\* The hosts of a caller get its next key; so does a receiver, at another time.
RotateKey(c) ==
  /\ key[c] < MaxRotations
  /\ key' = [key EXCEPT ![c] = @ + 1]
  /\ outcome' = {}
  /\ UNCHANGED <<now, secrets, wire>>

RotateSecret(e, c) ==
  /\ secrets[e][c] < MaxRotations
  /\ secrets' = [secrets EXCEPT ![e][c] = @ + 1]
  /\ outcome' = {}
  /\ UNCHANGED <<now, key, wire>>

Next ==
  \/ \E h \in Hosts, e \in Endpoints, body \in Bodies :
       \E ts \in OddTimestamps \cup Readings : Send(h, e, body, ts)
  \/ \E w \in wire :
       Proxy(w) \/ \E e \in Endpoints, clock \in Readings : Receive(e, w, clock)
  \/ Lose \/ Tick
  \/ \E c \in Rotating :
       RotateKey(c) \/ \E e \in {f \in Endpoints : c \in KnownTo[f]} : RotateSecret(e, c)

Spec == Init /\ [][Next]_vars

---------------------------------------------------------------------------
(* Properties.                                                             *)

\* What a receiver takes for a caller's request is one: a host that has the
\* caller's id and the very key the receiver has signed it, for this endpoint
\* and with this body, however it was repeated, misrouted or respaced, and
\* whatever was rotated meanwhile (verify, canonical_input).
AcceptedWasSigned ==
  \A o \in outcome :
    o.result = "Ok" =>
      LET w == o.sent IN
      /\ NameOf[w.host] \in KnownTo[o.endpoint]
      /\ KeyOwnerOf[w.host] = NameOf[w.host]
      /\ w.version = o.secrets[NameOf[w.host]]
      /\ w.endpoint = o.endpoint
      /\ w.request.body = w.body

Distance(m, n) == IF m > n THEN m - n ELSE n - m

\* And it was stamped inside the window, in true arithmetic: no timestamp a
\* header can hold wraps around into it (subtraction at request_auth.rs:165).
\* So repeats stop being accepted: the delay is at most the window and the
\* errors of the two clocks, unless the sender's clock was out of order.
AcceptedInTime ==
  \A o \in outcome :
    o.result = "Ok" =>
      /\ Distance(o.clock, o.sent.ts) <= SkewSecs
      /\ o.sent.ts \notin OddTimestamps => o.at - o.sent.at <= SkewSecs + 2 * MaxOffset

\* A request is not turned away without a reason: it is taken if its headers
\* arrived (spaces around the caller id do not matter), the key is the one the
\* receiver has, and the time since it was signed, with both clocks' errors,
\* is within the window.
RefusedForAReason ==
  \A o \in outcome :
    LET w == o.sent
        name == NameOf[w.host]
    IN
    /\ ~ w.touched
    /\ w.endpoint = o.endpoint
    /\ w.ts \notin OddTimestamps
    /\ name # NoName /\ name \in KnownTo[o.endpoint]
    /\ KeyOwnerOf[w.host] = name /\ w.version = o.secrets[name]
    /\ o.clock >= 0
    /\ o.at - w.at + 2 * MaxOffset <= SkewSecs
    => o.result = "Ok"
=============================================================================
