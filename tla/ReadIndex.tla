----------------------------- MODULE ReadIndex ------------------------------
(***************************************************************************)
(* `komms read index`: load_komms_events of src/index_scan.rs and the      *)
(* filters of src/lib.rs, over a table that indexers of several versions   *)
(* wrote.  The indexer is external: it inserts and replaces rows, takes    *)
(* them back when a block is undone, and is upgraded; it has the database  *)
(* to itself until the command opens it.                                   *)
(*                                                                         *)
(* A row's postcard bytes are the sequence of its fields.  Decoding reads  *)
(* as many fields as the type has and ignores what follows.                *)
(***************************************************************************)
EXTENDS Integers, SequencesExt

CONSTANTS
  Keys,           \* the table's keys, in order
  BadKeys,        \* keys that are not 32 bytes long
  Records,        \* what a row may say; {} is a field that is None
  BadIds,         \* option values that are not 32 bytes of hex
  Filters         \* command lines: [event_type, sid, cid, daa_min, daa_max]

VARIABLES
  table,      \* key -> bytes, for the keys that are there
  written,    \* history: what the indexer meant each row to say
  version,    \* the record version the indexer writes
  pc, filter, \* the command and its options
  at,         \* the position of the last row it has loaded
  entries,    \* what it will print
  broken      \* history: could the database not be opened or read?

vars == <<table, written, version, pc, filter, at, entries, broken>>

---------------------------------------------------------------------------
(* The record, and the versions of it.                                     *)

V1Fields == 4
V2Fields == 5

\* A later version appends fields as the second did.
Serialize(rec, v) ==
  SubSeq(<<rec.containing_daa, rec.event_type, rec.sid, rec.cid,
           rec.creator_address_body, {}>>,
         1, V1Fields - 1 + v)

Fields(bytes, body) ==
  [containing_daa |-> bytes[1], event_type |-> bytes[2], sid |-> bytes[3],
   cid |-> bytes[4], creator_address_body |-> body]

\* The current type first; what it cannot read is tried as the first version.
DecodeRecord_V2Only(bytes) ==                                         \* mutation
  IF Len(bytes) >= V2Fields THEN {Fields(bytes, bytes[V2Fields])} ELSE {}
DecodeRecord(bytes) ==
  IF Len(bytes) >= V2Fields THEN {Fields(bytes, bytes[V2Fields])}
  ELSE IF Len(bytes) >= V1Fields THEN {Fields(bytes, {})}
  ELSE {}

---------------------------------------------------------------------------
(* The filters: an option that is not given, {}, lets everything pass.     *)

Passes_AbsentIdPasses(f, rec) ==                                      \* mutation
  /\ f.event_type \subseteq {rec.event_type}
  /\ rec.sid = {} \/ f.sid \subseteq rec.sid
  /\ rec.cid = {} \/ f.cid \subseteq rec.cid
  /\ \A lo \in f.daa_min : rec.containing_daa >= lo
  /\ \A hi \in f.daa_max : rec.containing_daa <= hi

Passes(f, rec) ==
  /\ f.event_type \subseteq {rec.event_type}
  /\ f.sid = {} \/ rec.sid = f.sid
  /\ f.cid = {} \/ rec.cid = f.cid
  /\ \A lo \in f.daa_min : rec.containing_daa >= lo
  /\ \A hi \in f.daa_max : rec.containing_daa <= hi

\* creator_address_body is not printed.
Shown(k, rec) ==
  [txid |-> k, containing_daa |-> rec.containing_daa,
   event_type |-> rec.event_type, sid |-> rec.sid, cid |-> rec.cid]

---------------------------------------------------------------------------
Init ==
  /\ table = <<>> /\ written = <<>>
  /\ version = 1
  /\ pc = "closed" /\ filter \in Filters
  /\ at = 0 /\ entries = <<>> /\ broken = FALSE

(* The indexer.                                                            *)

Put(f, k, v) == [x \in DOMAIN f \cup {k} |-> IF x = k THEN v ELSE f[x]]
Drop(f, k) == [x \in DOMAIN f \ {k} |-> f[x]]

Write(k, rec) ==
  /\ pc = "closed" /\ k \notin DOMAIN table
  /\ table' = Put(table, k, Serialize(rec, version))
  /\ written' = Put(written, k, rec)
  /\ UNCHANGED <<version, pc, filter, at, entries, broken>>

Undo(k) ==
  /\ pc = "closed"
  /\ table' = Drop(table, k) /\ written' = Drop(written, k)
  /\ UNCHANGED <<version, pc, filter, at, entries, broken>>

Upgrade ==
  /\ pc = "closed" /\ version < 3
  /\ version' = version + 1
  /\ UNCHANGED <<table, written, pc, filter, at, entries, broken>>

\* A write was cut off.
Damage(k) ==
  /\ pc = "closed" /\ Len(table[k]) >= V1Fields
  /\ table' = [table EXCEPT ![k] = SubSeq(@, 1, V1Fields - 1)]
  /\ UNCHANGED <<written, version, pc, filter, at, entries, broken>>

(* The command.                                                            *)

\* open_transactional and read_tx: what is there now is what is listed.
Open ==
  /\ pc = "closed"
  /\ pc' = "loading"
  /\ UNCHANGED <<table, written, version, filter, at, entries, broken>>

\* open_transactional or open_partition is refused: no such directory, or the
\* indexer has the database locked.
OpenFails ==
  /\ pc = "closed"
  /\ pc' = "failed" /\ broken' = TRUE
  /\ UNCHANGED <<table, written, version, filter, at, entries>>

\* The rows the iterator has not come to.
Ahead == {i \in DOMAIN Keys : i > at /\ Keys[i] \in DOMAIN table}

\* The next of them; one it cannot read ends the command.
Load ==
  /\ pc = "loading" /\ Ahead # {}
  /\ LET i == Min(Ahead)  k == Keys[i]  recs == DecodeRecord(table[k]) IN
     \/ /\ k \in BadKeys \/ recs = {}
        /\ pc' = "failed" /\ UNCHANGED <<at, entries>>
     \/ /\ k \notin BadKeys
        /\ at' = i
        /\ \E rec \in recs : entries' = Append(entries, [key |-> k, rec |-> rec])
        /\ UNCHANGED pc
  /\ UNCHANGED <<table, written, version, filter, broken>>

\* The iterator hands out an error in place of a row, or after the last one.
LoadFails ==
  /\ pc = "loading"
  /\ pc' = "failed" /\ broken' = TRUE
  /\ UNCHANGED <<table, written, version, filter, at, entries>>

\* The entries that pass, in their order, as they are printed.
Filtered(f, es) ==
  LET kept[n \in 0 .. Len(es)] ==
        IF n = 0 THEN <<>>
        ELSE IF Passes(f, es[n].rec)
          THEN Append(kept[n - 1], Shown(es[n].key, es[n].rec))
        ELSE kept[n - 1]
  IN  kept[Len(es)]

\* --sid-hex or --cid-hex is not an id.
Malformed(f) == (f.sid \cup f.cid) \cap BadIds # {}

\* When all rows are loaded, and only then, the ids are parsed; the rows are
\* filtered and printed.
PrintEvents ==
  /\ pc = "loading" /\ Ahead = {}
  /\ \/ /\ Malformed(filter)
        /\ pc' = "failed" /\ UNCHANGED entries
     \/ /\ ~ Malformed(filter)
        /\ pc' = "printed" /\ entries' = Filtered(filter, entries)
  /\ UNCHANGED <<table, written, version, filter, at, broken>>

Command == Open \/ Load \/ PrintEvents
Next ==
  \/ \E k \in Range(Keys) : \E rec \in Records : Write(k, rec)
  \/ \E k \in DOMAIN table : Undo(k) \/ Damage(k)
  \/ Upgrade
  \/ Command \/ OpenFails \/ LoadFails

Spec == Init /\ [][Next]_vars

---------------------------------------------------------------------------
(* Properties.                                                             *)

Wanted(rec) ==
  /\ \A t \in filter.event_type : rec.event_type = t
  /\ \A s \in filter.sid : rec.sid = {s}
  /\ \A c \in filter.cid : rec.cid = {c}
  /\ filter.daa_min = {} \/ rec.containing_daa >= Max(filter.daa_min)
  /\ filter.daa_max = {} \/ rec.containing_daa <= Min(filter.daa_max)

\* The listing holds every event the indexer recorded and did not take back
\* that the options ask for, once, as it was recorded, whichever version wrote
\* it; an event without a server or channel matches no --sid-hex or --cid-hex
\* (index_scan.rs:45-66, lib.rs:1036-1061).
ListsWhatWasRecorded ==
  pc = "printed" =>
    /\ Range(entries) = {Shown(k, written[k]) : k \in {x \in DOMAIN written : Wanted(written[x])}}
    /\ IsInjective(entries)

\* A key of 32 bytes, and what some version wrote for it.
Sound(k) ==
  /\ k \notin BadKeys
  /\ table[k] \in {Serialize(written[k], v) : v \in 1 .. 3}

\* All or nothing: the command prints a listing just if the database could be
\* opened and read to its end, --sid-hex and --cid-hex are ids, and every row is
\* sound, also those the options do not ask for.  One damaged row is never
\* skipped, and rows of any version are no damage, not even those of an indexer
\* newer than the command (index_scan.rs:46-49, 70-83, lib.rs:1033-1034).
AllOrNothing ==
  pc \in {"printed", "failed"} =>
    (pc = "printed" <=> /\ ~ broken /\ ~ Malformed(filter)
                        /\ \A k \in DOMAIN table : Sound(k))
=============================================================================
