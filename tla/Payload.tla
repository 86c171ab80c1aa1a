------------------------------- MODULE Payload ------------------------------
(***************************************************************************)
(* What a field may hold: the values of a payload and validate_payload of  *)
(* hub/schema.py.                                                          *)
(*                                                                         *)
(* A payload is a function from field names to values: <<"num", v>>,       *)
(* <<"int", n>> (timestamps, ordinals), <<"bool", b>>, <<"text", x>> and   *)
(* Null.  A number is an integer count of the smallest storable unit: One  *)
(* units make 1 (the code stores scale 8, One = 10^8).  A number that      *)
(* needs more places than that is Fine.  None is the absent number.        *)
(***************************************************************************)
EXTENDS Integers, Sequences, FiniteSets, SequencesExt

CONSTANTS One,     \* storable units in the number 1
          None,    \* no number
          Fine,    \* a number with more places than a snapshot can store
          Limit,   \* storable numbers lie strictly between -Limit and Limit
          Collate  \* every name and text of the instance, in text order

ASSUME PayloadAssumption ==
    /\ One \in Nat \ {0} /\ Limit \in Nat \ {0}
    /\ Fine \notin Int /\ None \notin Int
    /\ IsInjective(Collate)

FieldTypes == {"number", "bool", "timestamp", "enum", "string"}

(* What a parser, of an expression or of a cell, makes of bad input. *)
Rejected == <<"error">>

Null == <<"null">>
Get(payload, x) == IF x \in DOMAIN payload THEN payload[x] ELSE Null

(* Text order: the place in Collate. *)
Rank(x) == CHOOSE i \in DOMAIN Collate : Collate[i] = x

(* _to_decimal: booleans and text that is no number are missing numbers. *)
ToDecimal(value) ==
    CASE value[1] = "num" -> value[2]
      [] value[1] = "int" -> value[2] * One
      [] OTHER -> None

-----------------------------------------------------------------------------
(* Mutant of Storable: the lowest 64-bit integer is taken for a number. *)
StorableAll(v) == v # Fine /\ -Limit <= v /\ v < Limit

(* A number that a snapshot's column can hold: at most scale-8 places, and *)
(* above the sentinel -Limit that stands for null.                         *)
Storable(v) == v # Fine /\ -Limit < v /\ v < Limit

(* _validate_field. *)
FieldValid(spec, value) ==
    IF value = Null THEN spec.null # "forbid"
    ELSE CASE spec.type = "number"    -> /\ value[1] \in {"num", "int"}
                                         /\ Storable(ToDecimal(value))
           [] spec.type = "bool"      -> value[1] = "bool"
           [] spec.type = "timestamp" -> value[1] = "int"
           [] spec.type = "enum"      -> value[1] = "int" /\ value[2] \in 0 .. Len(spec.values) - 1
           [] spec.type = "string"    -> value[1] \in {"text", "num"}

(* A value as its column type stores it: numbers as canonical decimals. *)
Normal(spec, value) ==
    IF spec.type = "number" /\ value # Null THEN <<"num", ToDecimal(value)>> ELSE value

(* Decimal(value): a boolean is 0 or 1 here, text is no number. *)
Measure(value) ==
    IF value[1] = "bool" THEN (IF value[2] THEN One ELSE 0) ELSE ToDecimal(value)

InRange(schema, x, value) ==
    x \in DOMAIN schema.range /\ value # Null =>
        /\ Measure(value) # None
        /\ schema.range[x][1] * One <= Measure(value)
        /\ Measure(value) <= schema.range[x][2] * One

(* validate_payload: every field is declared, valid and within its range;  *)
(* Normalised is the payload it returns.                                   *)
Valid(schema, payload) ==
    \A x \in DOMAIN payload :
        /\ x \in DOMAIN schema.fields
        /\ FieldValid(schema.fields[x], payload[x])
        /\ InRange(schema, x, Normal(schema.fields[x], payload[x]))

Normalised(schema, payload) == [x \in DOMAIN payload |-> Normal(schema.fields[x], payload[x])]
=============================================================================
