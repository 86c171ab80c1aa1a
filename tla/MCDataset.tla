----------------------------- MODULE MCDataset ------------------------------
(* Documents and feeds for Dataset: the shapes of datasets/*.yaml, every   *)
(* short expression, longer ones with one token wrong, and declarations    *)
(* that refer to each other in every way.                                  *)
EXTENDS Expressions

MCCollate == <<"", "ALL", "EU", "US", "a", "b", "d1", "d2", "d3", "f", "imp", "other", "s", "t", "x", "y">>

-----------------------------------------------------------------------------
(* Rows. *)
Row(country, date, actual, forecast) ==
    [country |-> <<"word", country>>, date |-> date, actual |-> actual,
     forecast |-> forecast, impact |-> <<"word", "high">>, title |-> <<"word", "x">>,
     flag |-> <<"word", "yes">>, stamp |-> <<"json", 2>>]
Day(t) == <<"time", t, "offset">>
Num(v) == <<"number", v, "plain">>

MCFeeds == <<
    <<Row("US", Day(11), Num(60), Num(10))>>,
    <<Row("US", Day(9), Num(30), Num(10)), Row("US", Day(10), <<"number", 40, "padded">>, Num(10))>>,
    <<Row("US", Day(10), Num(50), Num(10)),
      [Row("US", Day(9), Num(20), Num(10)) EXCEPT !.flag = Num(0), !.stamp = Num(25)],
      Row("All", Day(10), <<"number", 30, "percent">>, Num(20))>>,
    <<[Row("US", Day(11), <<"bound", 20>>, Num(10)) EXCEPT !.stamp = <<"json", 200>>], Row("US", Day(12), Num(20), <<"bound", 10>>),
      Row("EU", Day(10), Num(-10000), <<"dash">>),
      [Row("EU", Day(10), Num(20), Num(10)) EXCEPT !.impact = <<"word", "low">>],
      [Row("EU", Day(10), Num(20), Num(10)) EXCEPT !.country = Null],
      [Row("EU", Day(10), Num(20), Num(10)) EXCEPT !.country = <<"dash">>],
      Row("EU", Day(2), Num(20), Num(10)), Row("EU", Day(6), Num(20), Num(10)),
      [Row("EU", Day(9), <<"number", 20, "kilo">>, Num(10)) EXCEPT !.flag = <<"junk">>]>>,
    <<Row("US", Day(9), Num(20), Num(10)), Row("US", <<"time", 10, "naive">>, Num(20), Num(10))>> >>

-----------------------------------------------------------------------------
(* Documents. *)
Field(type, null) == [type |-> type, values |-> <<>>, null |-> null, derived |-> <<>>]
Derived(ts) == [Field("number", "allow") EXCEPT !.derived = ts]
Plain(from, parse) == [from |-> from, parse |-> parse, null_if |-> {}, prefix |-> FALSE]

Collector ==
    [kind |-> "http_json", unknown |-> {}, max_observed_age |-> 3, since |-> 4,
     where |-> [impact |-> {"high", "holiday"}],
     scope |-> [from |-> "country", map |-> [All |-> "ALL"]],
     effective_at |-> [from |-> "date", parse |-> "iso8601_with_offset"],
     fields |-> [a |-> [Plain("actual", "percent_or_number") EXCEPT !.prefix = TRUE],
                 f |-> [Plain("forecast", "human_number") EXCEPT !.null_if = {<<"dash">>}],
                 imp |-> Plain("impact", "enum_ordinal") @@ [map |-> [low |-> 0, high |-> 1]],
                 t |-> Plain("title", "")]]

Collected ==
    [a |-> Field("number", "allow_until_release"), f |-> Field("number", "allow"),
     imp |-> [Field("enum", "forbid") EXCEPT !.values = <<"low", "high">>],
     t |-> Field("string", "forbid")]

Base == [key |-> <<"effective_at", "scope", "t">>, fields |-> Collected, unknown |-> {},
         range |-> [imp |-> <<0, 1>>], alias |-> "a", collector |-> Collector]
With(fields) == [Base EXCEPT !.fields = fields @@ Collected]

N(x) == Name(x)
I(n) == <<"int", n>>
Fn(fn, x, args) == <<N(fn), Op("("), N(x)>> \o args \o <<Op(")")>>
Kw(x, n) == <<Op(","), N(x), Op("="), I(n)>>
A_F == <<N("a"), Op("-"), N("f")>>
ZOf(x, w, m) == Fn("zscore", x, Kw("window", w) \o Kw("min_obs", m))
Lag(n) == Fn("lag", "a", <<Op(","), I(n)>>)
Diff(x) == Fn("diff", x, <<Op(","), I(1)>>)

(* Facts of one subject, known by the day of their period: a corrected     *)
(* time moves a fact without renaming it.                                  *)
Periods ==
    [With([d1 |-> Derived(Diff("a")), b |-> Field("bool", "allow"), s |-> Field("timestamp", "allow")])
        EXCEPT !.key = <<"scope", "period_start">>, !.range = [b |-> <<0, 1>>],
               !.collector = [period_start |-> [from |-> "date", parse |-> "date_in_zone", hour |-> 0]] @@
                   [Collector EXCEPT !.scope = [const |-> "US"],
                                     !.fields = [b |-> Plain("flag", "boolean"),
                                                 s |-> Plain("stamp", "epoch_seconds")] @@ @]]

(* Datasets that are collected: a surprise and a statistic of it, changes, *)
(* chained changes, two lags, a rank, a ratio, the clock.                  *)
Working == {
    With([d1 |-> Derived(A_F), d2 |-> Derived(Fn("pct_rank", "d1", Kw("window", 2)))]),
    With([d2 |-> Derived(Diff("a")), d1 |-> Derived(Diff("d2"))]),
    With([d1 |-> Derived(Lag(1) \o <<Op("-")>> \o Lag(2))]),
    With([d1 |-> Derived(<<N("a"), Op("/"), N("f"), Op("*"), <<"dec", 5>>>>)]),
    With([d1 |-> Derived(Fn("until", "effective_at", <<>>))]), Periods }

(* One thing wrong with the declaration. *)
Wrong == {
    [Base EXCEPT !.unknown = {"titel"}], [Base EXCEPT !.key = <<>>], [Base EXCEPT !.alias = "x"],
    [Base EXCEPT !.range = [x |-> <<0, 1>>]], [Base EXCEPT !.key = <<"y">>],
    [With([d1 |-> Derived(A_F)]) EXCEPT !.key = <<"scope", "d1">>],
    [Base EXCEPT !.collector.kind = "ftp"], [Base EXCEPT !.collector.unknown = {"nul_if"}],
    With([lag |-> Field("number", "allow")]), With([revision |-> Field("number", "allow")]),
    With([x |-> Field("money", "allow")]), With([x |-> Field("enum", "allow")]),
    With([x |-> Field("number", "never")]),
    With([x |-> [Field("enum", "allow") EXCEPT !.values = <<"low", "low">>]]),
    With([d1 |-> Derived(<<N("y")>>)]), With([d1 |-> Derived(<<N("d1")>>)]) }

(* Three derived fields that read each other in every combination. *)
Reading(S) == CASE Cardinality(S) = 1 -> <<N(CHOOSE x \in S : TRUE)>>
                [] OTHER -> LET s == SetToSeq(S) IN <<N(s[1]), Op("+"), N(s[2])>>
Others(x) == (SUBSET ({"d1", "d2", "d3"} \ {x})) \ {{}}
Tangles == {With([d1 |-> Derived(Reading(p)), d2 |-> Derived(Reading(q)), d3 |-> Derived(Reading(r))]) :
                p \in Others("d1") \cup {{"a"}}, q \in Others("d2") \cup {{"a"}},
                r \in Others("d3") \cup {{"a"}}}

(* Every expression of up to three tokens, and longer ones with one token  *)
(* replaced or left out.                                                   *)
Tokens == {N("a"), N("lag"), N("window"), N("min_obs"), I(1)} \cup
          {Op(c) : c \in {"-", "*", "(", ")", ",", "="}}
Long == { <<N("a"), Op("-"), N("f"), Op("-"), I(2), Op("*"), N("a"), Op("+"), I(1)>>,
          <<Op("-"), Op("("), N("a"), Op("+"), N("f"), Op(")"), Op("/"), Op("-"), N("a")>>,
          ZOf("a", 2, 2), Fn("zscore", "a", Kw("min_obs", 2) \o Kw("window", 2)),
          Fn("pct_rank", "a", Kw("window", 1)), Lag(1) \o <<Op("*")>> \o Fn("since", "known_at", <<>>) }
Misplaced == Tokens \ {Op("*")}
Slips(ts) == {ReplaceAt(ts, i, t) : i \in DOMAIN ts, t \in Misplaced} \cup {RemoveAt(ts, i) : i \in DOMAIN ts}
Typos == {With([d1 |-> Derived(ts)]) : ts \in
            UNION {[1 .. n -> Tokens] : n \in 1 .. 3} \cup Long \cup UNION {Slips(ts) : ts \in Long}}

MCDocuments == Working \cup Wrong \cup Tangles \cup Typos

(* A dataset with a timestamp among its fields, as datasets/cal.us_cpi.yaml. *)
Dated == {Periods}

(* datasets/cal.high_impact.yaml, its window and its minimum scaled down.  *)
HighImpact == {With([d1 |-> Derived(A_F), d2 |-> Derived(ZOf("d1", 3, 2))])}
=============================================================================
