---------------------------- MODULE Declarative -----------------------------
(***************************************************************************)
(* A collector declared in YAML: hub/collectors/declarative.py, with the   *)
(* value parsers of hub/parse.py.  Fetching is in Scheduler; this is what  *)
(* DeclarativeSource.parse makes of the fetched document.                  *)
(*                                                                         *)
(* A document is a sequence of rows, a row a function from columns to      *)
(* cells.  A cell is what the provider printed:                            *)
(*   Null               no such column, or a JSON null                     *)
(*   <<"dash">>         a spelling of "no value": "-", "n/a", ""           *)
(*   <<"number", v, h>> a number as text, h one of plain, padded ("0.30"), *)
(*                      percent ("0.3%") and kilo ("0.3K")                 *)
(*   <<"bound", v>>     a number with a sign of order, "<0.3"              *)
(*   <<"word", w>>      a label, in whatever letter case                   *)
(*   <<"time", t, h>>   a date or a time, h one of date, naive and offset  *)
(*   <<"json", n>>      a JSON number                                      *)
(*   <<"junk">>         any other text                                     *)
(* A ParseError is Rejected.                                               *)
(***************************************************************************)
EXTENDS Order, Snapshot

CONSTANTS DayLen   \* ticks of a day

Cell(row, column) == Get(row, column)
IsSentinel(cell) == cell[1] \in {"null", "dash"}

-----------------------------------------------------------------------------
(* hub/parse.py.  A number's spelling never survives: decimal_str writes   *)
(* the same digits for 0.30 and .3.                                        *)
Number(cell, spellings) ==
    CASE IsSentinel(cell) -> Null
      [] cell[1] = "number" /\ cell[3] \in spellings ->
            <<"num", IF cell[3] = "kilo" THEN 1000 * cell[2] ELSE cell[2]>>
      [] OTHER -> Rejected

(* human_number and percent_or_number, which drops a trailing %. *)
HumanNumber(cell)     == Number(cell, {"plain", "padded", "kilo"})

(* Mutant of PercentOrNumber: "0.30" is kept as another text than "0.3". *)
PercentAsPrinted(cell) ==
    IF cell[1] = "number" /\ cell[3] = "padded" THEN <<"num", cell[2] + 1>>
    ELSE Number(cell, {"plain", "padded", "kilo", "percent"})

PercentOrNumber(cell) == Number(cell, {"plain", "padded", "kilo", "percent"})

Offset(cell) == IF cell[1] = "time" /\ cell[3] = "offset" THEN <<"int", cell[2]>> ELSE Rejected

(* date_in_zone: the day of any date or time, at the declared hour. *)
DateInZone(cell, hour) ==
    IF cell[1] = "time" THEN <<"int", (cell[2] \div DayLen) * DayLen + hour>> ELSE Rejected

(* epoch_seconds (per = 1000) and epoch_millis (per = 1): a count, as text *)
(* or as a JSON number, that must come out whole.                          *)
Epoch(cell, per) ==
    CASE IsSentinel(cell) -> Null
      [] cell[1] = "json" -> <<"int", cell[2] * per>>
      [] cell[1] = "number" /\ cell[3] \in {"plain", "padded"} /\ (cell[2] * per) % One = 0 ->
            <<"int", (cell[2] * per) \div One>>
      [] OTHER -> Rejected

(* enum_ordinal: a label the mapping does not know is unknown data. *)
EnumOrdinal(cell, mapping) ==
    CASE IsSentinel(cell) -> Null
      [] cell[1] = "json" -> Rejected
      [] cell[1] = "word" /\ cell[2] \in DOMAIN mapping -> <<"int", mapping[cell[2]]>>
      [] OTHER -> Null

Boolean(cell) ==
    CASE IsSentinel(cell) -> Null
      [] cell \in {<<"word", "yes">>, <<"number", One, "plain">>} -> <<"bool", TRUE>>
      [] cell \in {<<"word", "no">>, <<"number", 0, "plain">>}  -> <<"bool", FALSE>>
      [] OTHER -> Rejected

(* apply: dispatch on the parser's name. *)
Apply(spec, cell) ==
    CASE spec.parse = "human_number"        -> HumanNumber(cell)
      [] spec.parse = "percent_or_number"   -> PercentOrNumber(cell)
      [] spec.parse = "iso8601_with_offset" -> Offset(cell)
      [] spec.parse = "date_in_zone"        -> DateInZone(cell, spec.hour)
      [] spec.parse = "epoch_seconds"       -> Epoch(cell, 1000)
      [] spec.parse = "epoch_millis"        -> Epoch(cell, 1)
      [] spec.parse = "enum_ordinal"        -> EnumOrdinal(cell, spec.map)
      [] spec.parse = "boolean"             -> Boolean(cell)
      [] OTHER -> Rejected

(* str() of a cell; texts that are not labels are not told apart. *)
Text(cell) == CASE cell = Null -> Null
                [] cell[1] = "word" -> <<"text", cell[2]>>
                [] OTHER -> <<"text", "other">>

-----------------------------------------------------------------------------
(* DeclarativeSource.__init__: the collector block is accepted. *)
CollectorLoads(block) == block.unknown = {} /\ block.kind \in {"http_json", "http_csv"}

(* _matches: every `where` column holds one of the wanted labels. *)
Matches(block, row) ==
    \A col \in DOMAIN block.where : \E w \in block.where[col] : Cell(row, col) = <<"word", w>>

Declares(spec, word) == word \in DOMAIN spec

(* _resolve_scope: Null skips the row. *)
ResolveScope(block, row) ==
    LET cell == Cell(row, block.scope.from)
    IN CASE Declares(block.scope, "const") -> <<"text", block.scope.const>>
         [] ~Declares(block.scope, "from") -> <<"text", "ALL">>
         [] cell = Null -> Null
         [] cell[1] = "word" /\ cell[2] \in DOMAIN block.scope.map ->
               <<"text", block.scope.map[cell[2]]>>
         [] OTHER -> Text(cell)

(* _resolve_time: a parser that yields no timestamp is an error. *)
ResolveTime(spec, row) ==
    LET value == Apply(spec, Cell(row, spec.from))
    IN CASE Declares(spec, "const") -> <<"int", spec.const>>
         [] ~Declares(spec, "from") -> Null
         [] value[1] \in {"int", "null"} -> value
         [] OTHER -> Rejected

(* Mutant of ResolveField: a bound is read like the number it bounds. *)
ResolveFieldUnbounded(spec, row) ==
    LET cell == Cell(row, spec.from)
    IN IF Declares(spec, "const") THEN spec.const
       ELSE IF cell \in spec.null_if THEN Null
       ELSE IF cell[1] = "bound" THEN <<"num", cell[2]>>
       ELSE IF spec.parse = "" THEN Text(cell) ELSE Apply(spec, cell)

(* _resolve_field: null_if and null_if_prefix come before the parser. *)
ResolveField(spec, row) ==
    LET cell == Cell(row, spec.from)
    IN IF Declares(spec, "const") THEN spec.const
       ELSE IF cell \in spec.null_if \/ (cell[1] = "bound" /\ spec.prefix) THEN Null
       ELSE IF spec.parse = "" THEN Text(cell) ELSE Apply(spec, cell)

Skipped == <<"skipped">>

(* What one row becomes: nothing, a candidate, a candidate marked with a   *)
(* parse error, or the error that a time column raises for the whole       *)
(* document.                                                               *)
Candidate(block, row) ==
    LET scope  == ResolveScope(block, row)
        eff    == ResolveTime(block.effective_at, row)
        fields == [x \in DOMAIN block.fields |-> ResolveField(block.fields[x], row)]
        period == IF Declares(block, "period_start")
                  THEN ResolveTime(block.period_start, row) ELSE Null
        broken == \E x \in DOMAIN fields : fields[x] = Rejected
    IN IF ~Matches(block, row) \/ scope = Null \/ eff = Null THEN Skipped
       ELSE IF eff = Rejected THEN Rejected
       ELSE IF eff[2] < block.since THEN Skipped
       ELSE IF broken THEN <<"row", [scope |-> scope[2], eff |-> eff[2], broken |-> TRUE]>>
       ELSE IF period = Rejected THEN Rejected
       ELSE <<"row", [scope |-> scope[2], eff |-> eff[2], broken |-> FALSE,
                      period |-> period, fields |-> fields]>>

(* DeclarativeSource.parse: candidates in row order, or a ParseError. *)
ParseDocument(block, rows) ==
    LET parts == [i \in DOMAIN rows |-> Candidate(block, rows[i])]
        kept  == Picked(parts, {i \in DOMAIN rows : parts[i] # Skipped})
    IN IF Rejected \in Range(parts) THEN Rejected
       ELSE <<"rows", [i \in DOMAIN kept |-> kept[i][2]]>>

(* The provider printed number v in a cell. *)
Prints(cell, v) == cell[1] = "number" /\ v = IF cell[3] = "kilo" THEN 1000 * cell[2] ELSE cell[2]
=============================================================================
