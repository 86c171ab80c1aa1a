------------------------------ MODULE Snapshot ------------------------------
(***************************************************************************)
(* The columnar snapshot: hub/snapshot.py encodes, hubread/snapshot.py     *)
(* decodes.  A snapshot is its field table, its dictionaries and its       *)
(* columns of integers; magic, version, hashes and byte layout are left    *)
(* out.  A record is [scope, key, rev, at, eff, avail, period, raw, seq,   *)
(* fields] with `at` its known_at, `period` and `raw` possibly Null; its   *)
(* key is the tuple of its parts.                                          *)
(***************************************************************************)
EXTENDS Payload

NULL_SENTINEL   == -Limit
NULL_DICT_INDEX == -1
AvailabilityOrdinals == <<"observed", "published", "derived">>

-----------------------------------------------------------------------------
(* A fixed order on texts and on keys, part by part: <<"text", x>> and     *)
(* <<"int", n>>, a missing part first.                                     *)
PartLess(a, b) ==
    \/ a[1] = "null" /\ b[1] # "null"
    \/ a[1] = "text" /\ b[1] = "text" /\ Rank(a[2]) < Rank(b[2])
    \/ a[1] \notin {"null", "text"} /\ a[1] = b[1] /\ a[2] < b[2]

KeyLess(a, b) ==
    \E i \in DOMAIN a : PartLess(a[i], b[i]) /\ \A j \in 1 .. i - 1 : a[j] = b[j]

(* sort_key: (known_at, scope, key, revision, seq). *)
SortsBefore(r, s) ==
    \/ r.at < s.at
    \/ r.at = s.at /\ Rank(r.scope) < Rank(s.scope)
    \/ r.at = s.at /\ r.scope = s.scope /\ KeyLess(r.key, s.key)
    \/ r.at = s.at /\ r.scope = s.scope /\ r.key = s.key /\ r.rev < s.rev
    \/ r.at = s.at /\ r.scope = s.scope /\ r.key = s.key /\ r.rev = s.rev /\ r.seq < s.seq

InSortOrder(records) == SortSeq(records, SortsBefore)

-----------------------------------------------------------------------------
StorableFields(schema) == {x \in DOMAIN schema.fields : schema.fields[x].type # "string"}

(* _encode_field_value: the integer stored for a value. *)
EncodeField(spec, value) ==
    IF value = Null THEN NULL_SENTINEL
    ELSE IF spec.type = "bool" THEN (IF value[2] THEN 1 ELSE 0) ELSE value[2]

(* Whether _encode_field_value and the packing of the column succeed. *)
Encodes(spec, value) ==
    value # Null =>
        CASE spec.type = "number" -> value[1] = "num" /\ value[2] # Fine
                                     /\ NULL_SENTINEL < value[2] /\ value[2] < Limit
          [] spec.type = "bool"   -> value[1] = "bool"
          [] OTHER -> value[1] = "int" /\ NULL_SENTINEL <= value[2] /\ value[2] < Limit

(* A record encode has a place for. *)
Packs(schema, r) ==
    \A x \in StorableFields(schema) : Encodes(schema.fields[x], Get(r.fields, x))

(* sorted() of a set, by a set of pairs: each member where its rank puts it. *)
Listed(S, before) ==
    [i \in 1 .. Cardinality(S) |->
        CHOOSE x \in S : Cardinality({y \in S : <<y, x>> \in before}) = i - 1]

Texts(S) == Listed(S, {p \in S \X S : Rank(p[1]) < Rank(p[2])})
Parts(S) == Listed(S, {p \in S \X S : PartLess(p[1], p[2])})
Keys(S)  == Listed(S, {p \in S \X S : KeyLess(p[1], p[2])})

IndexIn(dict, x) == (CHOOSE i \in DOMAIN dict : dict[i] = x) - 1

(* encode, of sorted rows: sorted dictionaries, one column per storable    *)
(* field.  Fields of type string stay in the journal only.                 *)
EncodeRows(schema, rows) ==
    LET scopes == Texts({r.scope : r \in Range(rows)})
        keys   == Keys({r.key : r \in Range(rows)})
        raws   == Parts({r.raw : r \in Range(rows)} \ {Null})
        stored(r) == [x \in StorableFields(schema) |->
                        EncodeField(schema.fields[x], Get(r.fields, x))]
    IN [types  |-> [x \in StorableFields(schema) |-> schema.fields[x].type],
        scopes |-> scopes, keys |-> keys, raws |-> raws,
        at     |-> [i \in DOMAIN rows |-> rows[i].at],
        eff    |-> [i \in DOMAIN rows |-> rows[i].eff],
        period |-> [i \in DOMAIN rows |->
                      IF rows[i].period = Null THEN NULL_SENTINEL ELSE rows[i].period[2]],
        scope  |-> [i \in DOMAIN rows |-> IndexIn(scopes, rows[i].scope)],
        key    |-> [i \in DOMAIN rows |-> IndexIn(keys, rows[i].key)],
        rev    |-> [i \in DOMAIN rows |-> rows[i].rev],
        avail  |-> [i \in DOMAIN rows |-> IndexIn(AvailabilityOrdinals, rows[i].avail)],
        seq    |-> [i \in DOMAIN rows |-> rows[i].seq],
        raw    |-> [i \in DOMAIN rows |->
                      IF rows[i].raw = Null THEN NULL_DICT_INDEX ELSE IndexIn(raws, rows[i].raw)],
        cells  |-> [x \in StorableFields(schema) |-> [i \in DOMAIN rows |-> stored(rows[i])[x]]]]

Encode(schema, records) == EncodeRows(schema, InSortOrder(records))

(* _decode_field_value. *)
DecodeField(type, stored) ==
    IF stored = NULL_SENTINEL THEN Null
    ELSE CASE type = "number" -> <<"num", stored>>
           [] type = "bool"   -> <<"bool", stored = 1>>
           [] OTHER -> <<"int", stored>>

(* decode: the records, in stored order. *)
Decode(snap) ==
    [i \in DOMAIN snap.at |->
       [scope |-> snap.scopes[snap.scope[i] + 1], key |-> snap.keys[snap.key[i] + 1],
        rev |-> snap.rev[i], at |-> snap.at[i], eff |-> snap.eff[i],
        avail |-> AvailabilityOrdinals[snap.avail[i] + 1],
        period |-> IF snap.period[i] = NULL_SENTINEL THEN Null ELSE <<"int", snap.period[i]>>,
        raw |-> IF snap.raw[i] = NULL_DICT_INDEX THEN Null ELSE snap.raws[snap.raw[i] + 1],
        seq |-> snap.seq[i],
        fields |-> [x \in DOMAIN snap.types |-> DecodeField(snap.types[x], snap.cells[x][i])]]]

(* A record as a snapshot can give it back: string fields stay behind, an  *)
(* absent field is null.                                                   *)
Projected(schema, r) ==
    [r EXCEPT !.fields = [x \in StorableFields(schema) |-> Get(r.fields, x)]]
=============================================================================
