---------------------------- MODULE MCKommsRead -----------------------------
(***************************************************************************)
(* Instances of KommsRead.  The table has two rows, a key of the wrong     *)
(* length, records with and without server and channel; options come one   *)
(* by one and together, and twice with an id that is none.                 *)
(***************************************************************************)
EXTENDS KommsRead

CONSTANTS k1, k2, short, sid, cid, addr, noid

TheKeys == <<k1, short, k2>>
ShortKey == {short}
NoIds == {noid}

Rec(daa, t, s, c, b) ==
  [containing_daa |-> daa, event_type |-> t, sid |-> s, cid |-> c,
   creator_address_body |-> b]

FourRecords ==
  {Rec(1, 1, {sid}, {cid}, {}), Rec(2, 1, {sid}, {}, {addr}),
   Rec(2, 2, {}, {cid}, {addr}), Rec(3, 2, {}, {}, {})}

All == [event_type |-> {}, sid |-> {}, cid |-> {}, daa_min |-> {}, daa_max |-> {}]
SomeFilters ==
  {All, [All EXCEPT !.event_type = {1}], [All EXCEPT !.sid = {sid}],
   [All EXCEPT !.cid = {cid}], [All EXCEPT !.daa_min = {2}], [All EXCEPT !.daa_max = {2}],
   [All EXCEPT !.sid = {noid}], [All EXCEPT !.cid = {noid}],
   [event_type |-> {1}, sid |-> {sid}, cid |-> {cid}, daa_min |-> {1}, daa_max |-> {3}]}
=============================================================================
