----------------------------- MODULE Expressions ----------------------------
(***************************************************************************)
(* A dataset with its schema and its expressions in place: hub/schema.py   *)
(* and hub/derive.py are the parameters of Dataset.  What the parser, the  *)
(* order of evaluation and the look-back promise is stated here, and what  *)
(* polling a document again does.                                          *)
(***************************************************************************)
EXTENDS Schema, Dataset

-----------------------------------------------------------------------------
(* The grammar of _Parser's docstring, read as rules: the trees a sequence *)
(* of tokens stands for.  Operators of one precedence group to the left.   *)
Op(c) == <<"op", c>>
Name(x) == <<"name", x>>

(* The ways to write a call: keywords in any order. *)
Spellings(fn, x, n, m) ==
    LET key(k, i) == <<Op(","), Name(k), Op("="), <<"int", i>>>>
        args == CASE fn \in {"lag", "diff"} -> {<<Op(","), <<"int", n>>>>}
                  [] fn = "pct_rank" -> {key("window", n)}
                  [] fn = "zscore" -> {key("window", n) \o key("min_obs", m),
                                       key("min_obs", m) \o key("window", n)}
                  [] OTHER -> {<<>>}
    IN {<<Name(fn), Op("("), Name(x)>> \o a \o <<Op(")")>> : a \in args}

Arguments(fn, n, m) ==
    CASE fn = "zscore" -> <<n, m>> [] fn \in {"since", "until"} -> <<>> [] OTHER -> <<n>>

CallTrees(ts) ==
    LET texts == {t[2] : t \in {t \in Range(ts) : t[1] = "name"}}
        ints  == {0} \cup {t[2] : t \in {t \in Range(ts) : t[1] = "int"}}
    IN {<<"call", c[1], c[2], Arguments(c[1], c[3], c[4])>> : c \in
          {c \in (RESERVED_EXPRESSION_NAMES \cap texts) \X texts \X ints \X ints :
              ts \in Spellings(c[1], c[2], c[3], c[4])}}

RECURSIVE SumTrees(_), ProductTrees(_), FactorTrees(_)
SplitAt(ts, ops) == {i \in DOMAIN ts : ts[i][1] = "op" /\ ts[i][2] \in ops}
Left(ts, i)  == SubSeq(ts, 1, i - 1)
Right(ts, i) == SubSeq(ts, i + 1, Len(ts))

SumTrees(ts) ==
    ProductTrees(ts) \cup UNION {{<<"bin", ts[i][2], l, r>> :
        l \in SumTrees(Left(ts, i)), r \in ProductTrees(Right(ts, i))} : i \in SplitAt(ts, Additive)}

ProductTrees(ts) ==
    FactorTrees(ts) \cup UNION {{<<"bin", ts[i][2], l, r>> :
        l \in ProductTrees(Left(ts, i)), r \in FactorTrees(Right(ts, i))} :
            i \in SplitAt(ts, Multiplicative)}

FactorTrees(ts) ==
    CASE ts = <<>> -> {}
      [] Len(ts) = 1 -> CASE ts[1][1] = "int" -> {<<"lit", ts[1][2] * One>>}
                          [] ts[1][1] = "dec" -> {<<"lit", ts[1][2]>>}
                          [] ts[1][1] = "name" -> {<<"field", x>> : x \in {ts[1][2]} \ RESERVED_EXPRESSION_NAMES}
                          [] OTHER -> {}
      [] ts[1] = Op("-") -> {<<"neg", t>> : t \in FactorTrees(Tail(ts))}
      [] ts[1] = Op("(") /\ Last(ts) = Op(")") -> SumTrees(SubSeq(ts, 2, Len(ts) - 1))
      [] OTHER -> CallTrees(ts)

(* The recursive-descent parser of hub/derive.py decides the grammar: it   *)
(* accepts exactly the texts the rules derive, and each has one tree, the  *)
(* one the parser returns.                                                 *)
ParseMatchesGrammar ==
    schema = Unloaded =>
        \A x \in DerivedNames(doc.fields) :
            LET ts == doc.fields[x].derived
            IN SumTrees(ts) = {Parse(ts)} \ {Rejected}

(* _derived_order: a schema is refused for a cycle exactly when no order   *)
(* of evaluation exists, and the order of a loaded one computes every      *)
(* derived field once, after everything it reads.                          *)
LoadedSchemaEvaluates ==
    schema = Unloaded /\ ReferencesLoad(doc.fields) =>
        LET deps   == Dependencies(doc.fields)
            result == DerivedOrder(doc.fields)
            Place(x) == CHOOSE i \in DOMAIN result.order : result.order[i] = x
        IN /\ result.ok <=> \E rank \in [DOMAIN deps -> 1 .. Cardinality(DOMAIN deps)] :
                               \A x \in DOMAIN deps : \A y \in deps[x] : rank[y] < rank[x]
           /\ result.ok => /\ IsInjective(result.order)
                           /\ Range(result.order) = DOMAIN deps
                           /\ \A x \in DOMAIN deps : \A y \in deps[x] : Place(y) < Place(x)

(* hub.derive.lookback: handing an expression only the newest entries it   *)
(* declares gives what the whole history gives, for every journalled       *)
(* record as it stood when it was ingested.                                *)
LookbackSuffices ==
    \A i \in DOMAIN journal :
        LET r   == journal[i]
            all == Before(SubSeq(journal, 1, i - 1), r.scope, r.eff, r.key)
            own == [x \in DOMAIN r.fields \ Range(schema.order) |-> r.fields[x]]
        IN DeriveFields(schema, own, r.at, r.eff, all) = r.fields

(* The same numbers in another spelling. *)
Respelled(row) ==
    [c \in DOMAIN row |->
        IF row[c][1] = "number" /\ row[c][3] \in {"plain", "padded"}
        THEN <<"number", row[c][2], IF row[c][3] = "plain" THEN "padded" ELSE "plain">>
        ELSE row[c]]

ReadsClock(fields) ==
    \E x \in DerivedNames(fields) : \E t \in Range(fields[x].derived) :
        t \in {Name("since"), Name("until"), Name("known_at")}

(* A document fetched again and again stops being news: after as many      *)
(* polls as it has rows, polling it once more, with its numbers spelled    *)
(* differently, journals nothing.  For documents that do not contradict    *)
(* themselves and schemas that do not derive from the poll's own clock.    *)
Polled(log, cands) == IngestAll(schema, log, cands, clock, Null).log
RECURSIVE PolledOver(_, _, _)
PolledOver(log, cands, n) ==
    LET next == Polled(log, cands)
    IN IF n = 0 \/ next = log THEN log ELSE PolledOver(next, cands, n - 1)
NoNews(log, cands) == Polled(log, cands) = log
Settles(cands, again) ==
    LET kept == SelectSeq(cands, LAMBDA c : ~c.broken)
    IN IsInjective([i \in DOMAIN kept |-> BuildKey(schema, kept[i])])
       => NoNews(PolledOver(journal, cands, Len(kept)), again)
RepollSettles ==
    schema # Unloaded /\ ~ReadsClock(doc.fields) =>
        \A k \in DOMAIN Feeds :
            LET parsed == ParseDocument(doc.collector, Feeds[k])
                again  == ParseDocument(doc.collector, [i \in DOMAIN Feeds[k] |-> Respelled(Feeds[k][i])])
            IN parsed # Rejected => Settles(parsed[2], again[2])

(* derive.py: a derived value that cannot be computed is null, so no row   *)
(* is refused on account of its derived fields.                            *)
DerivedNeverRefuses == \A q \in refused : q.why # "derived"
=============================================================================
