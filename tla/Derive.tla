------------------------------- MODULE Derive -------------------------------
(***************************************************************************)
(* The expression language of derived fields: hub/derive.py.               *)
(*                                                                         *)
(* An expression is its sequence of tokens: <<"int", n>>, <<"dec", v>> (a  *)
(* literal written with a point), <<"name", x>> and <<"op", c>>.  A parsed *)
(* expression is a tree of tuples that start with the node's kind.         *)
(*                                                                         *)
(* Numbers are Payload's.  A result that needs more places than a snapshot *)
(* stores is Fine, whatever its 28 digits are; arithmetic on it is taken   *)
(* to stay Fine.                                                           *)
(***************************************************************************)
EXTENDS Payload

RESERVED_EXPRESSION_NAMES == {"zscore", "lag", "diff", "pct_rank", "since", "until"}

-----------------------------------------------------------------------------
(* The recursive-descent parser.  A parse is the node and the position     *)
(* after it; Stop stands for every SchemaError.                            *)

Stop == [node |-> <<"error">>, at |-> 0]
Parsed(node, at) == [node |-> node, at |-> at]
Failed(parse) == parse.at = 0

Peek(ts, p) == IF p \in DOMAIN ts THEN ts[p] ELSE <<"end">>
IsOp(ts, p, chars) == \E c \in chars : Peek(ts, p) = <<"op", c>>
IsName(ts, p, names) == Peek(ts, p)[1] = "name" /\ ts[p][2] \in names
IsInt(ts, p) == Peek(ts, p)[1] = "int"

(* _named_int_kwargs: name=INT, in any order, each exactly once. *)
RECURSIVE Kwargs(_, _, _, _)
Kwargs(ts, p, names, found) ==
    IF ~(IsName(ts, p, names \ DOMAIN found) /\ IsOp(ts, p + 1, {"="}) /\ IsInt(ts, p + 2))
    THEN Stop
    ELSE LET now == [x \in DOMAIN found \cup {ts[p][2]} |->
                        IF x = ts[p][2] THEN ts[p + 2][2] ELSE found[x]]
         IN IF IsOp(ts, p + 3, {","}) THEN Kwargs(ts, p + 4, names, now)
            ELSE IF DOMAIN now = names THEN Parsed(now, p + 3) ELSE Stop

NoArgs == [x \in {} |-> 0]
InOrderOf(names, parse) ==
    IF Failed(parse) THEN Stop ELSE Parsed([i \in DOMAIN names |-> parse.node[names[i]]], parse.at)

(* _call_args_for, from the position after the field name. *)
CallArgs(ts, p, func) ==
    LET named(names) == IF ~IsOp(ts, p, {","}) THEN Stop
                        ELSE InOrderOf(names, Kwargs(ts, p + 1, Range(names), NoArgs))
    IN CASE func \in {"lag", "diff"} ->
              IF IsOp(ts, p, {","}) /\ IsInt(ts, p + 1)
              THEN Parsed(<<ts[p + 1][2]>>, p + 2) ELSE Stop
         [] func = "zscore"   -> named(<<"window", "min_obs">>)
         [] func = "pct_rank" -> named(<<"window">>)
         [] OTHER -> Parsed(<<>>, p)

(* What ends with a closing parenthesis. *)
Closed(ts, parse) ==
    IF ~Failed(parse) /\ IsOp(ts, parse.at, {")"}) THEN Parsed(parse.node, parse.at + 1) ELSE Stop

Prefixed(head, parse) == IF Failed(parse) THEN Stop ELSE Parsed(Append(head, parse.node), parse.at)

(* _call, from the position of its opening parenthesis. *)
Call(ts, p, func) ==
    IF func \notin RESERVED_EXPRESSION_NAMES \/ Peek(ts, p + 1)[1] # "name" THEN Stop
    ELSE Prefixed(<<"call", func, ts[p + 1][2]>>, Closed(ts, CallArgs(ts, p + 2, func)))

RECURSIVE Expr(_, _), Term(_, _), Factor(_, _), Atom(_, _), Chain(_, _, _)

Additive       == {"+", "-"}
Multiplicative == {"*", "/"}

(* The loops of _expr and _term: operands of one precedence, folded to the *)
(* left as they are met.                                                   *)
Chain(ts, left, ops) ==
    IF Failed(left) \/ ~IsOp(ts, left.at, ops) THEN left
    ELSE Chain(ts, Prefixed(<<"bin", ts[left.at][2], left.node>>,
                            IF ops = Additive THEN Term(ts, left.at + 1) ELSE Factor(ts, left.at + 1)), ops)

Expr(ts, p) == Chain(ts, Term(ts, p), Additive)

Term(ts, p) == Chain(ts, Factor(ts, p), Multiplicative)

Factor(ts, p) ==
    IF IsOp(ts, p, {"-"}) THEN Prefixed(<<"neg">>, Factor(ts, p + 1)) ELSE Atom(ts, p)

Atom(ts, p) ==
    CASE Peek(ts, p)[1] = "int" -> Parsed(<<"lit", ts[p][2] * One>>, p + 1)
      [] Peek(ts, p)[1] = "dec" -> Parsed(<<"lit", ts[p][2]>>, p + 1)
      [] IsOp(ts, p, {"("}) -> Closed(ts, Expr(ts, p + 1))
      [] Peek(ts, p)[1] = "name" ->
           IF IsOp(ts, p + 1, {"("}) THEN Call(ts, p + 1, ts[p][2])
           ELSE IF ts[p][2] \in RESERVED_EXPRESSION_NAMES THEN Stop
           ELSE Parsed(<<"field", ts[p][2]>>, p + 1)
      [] OTHER -> Stop

Whole(ts, parse) == IF parse.at = Len(ts) + 1 THEN parse.node ELSE Rejected

(* Mutant of Parse: what follows a complete expression is ignored. *)
ParsePrefix(ts) == Expr(ts, 1).node

(* _Parser.parse: the whole text is one expression. *)
Parse(ts) == Whole(ts, Expr(ts, 1))

-----------------------------------------------------------------------------
(* The field names a tree reads, and how far back it reads the history. *)
RECURSIVE Names(_), Lookback(_)

Names(node) ==
    CASE node[1] = "lit"   -> {}
      [] node[1] = "field" -> {node[2]}
      [] node[1] = "neg"   -> Names(node[2])
      [] node[1] = "bin"   -> Names(node[3]) \cup Names(node[4])
      [] node[1] = "call"  -> {node[3]}

(* Mutant of Lookback: a binary operation reports its left side only. *)
RECURSIVE LookbackLeft(_)
LookbackLeft(node) ==
    CASE node[1] = "neg"  -> LookbackLeft(node[2])
      [] node[1] = "bin"  -> LookbackLeft(node[3])
      [] node[1] = "call" -> IF node[2] \in {"since", "until"} THEN 0 ELSE node[4][1]
      [] OTHER -> 0

Lookback(node) ==
    CASE node[1] = "neg"  -> Lookback(node[2])
      [] node[1] = "bin"  -> Max({Lookback(node[3]), Lookback(node[4])})
      [] node[1] = "call" -> IF node[2] \in {"since", "until"} THEN 0 ELSE node[4][1]
      [] OTHER -> 0

-----------------------------------------------------------------------------
Known(S) == None \notin S
Exact(S) == S \cap {None, Fine} = {}

(* One arithmetic operation of the fixed context. *)
Arith(op, a, b) ==
    CASE ~Known({a, b}) -> None
      [] op = "/" /\ b = 0 -> None
      [] ~Exact({a, b}) -> Fine
      [] op = "+" -> a + b
      [] op = "-" -> a - b
      [] op = "*" -> IF (a * b) % One = 0 THEN (a * b) \div One ELSE Fine
      [] op = "/" -> LET d == IF b < 0 THEN -b ELSE b
                         n == IF b < 0 THEN -a ELSE a
                     IN IF (n * One) % d = 0 THEN (n * One) \div d ELSE Fine

(* _recent_window: the field in the newest `window` payloads. *)
RecentWindow(x, window, history) ==
    LET from == Max({1, Len(history) - window + 1})
    IN [i \in 1 .. (Len(history) - from + 1) |-> ToDecimal(Get(history[from + i - 1], x))]

(* _lag: the value n payloads back. *)
LagValue(x, n, history) ==
    IF n \in 1 .. Len(history) THEN ToDecimal(Get(history[Len(history) - n + 1], x)) ELSE None

Total(s) == FoldSeq(LAMBDA v, t : v + t, 0, s)

(* _zscore over stored values, which are exact.  The mean, the deviation   *)
(* and the quotient each are storable or make the result Fine; a value at  *)
(* the mean scores 0 whatever the deviation's digits.                      *)
ZScore(x, window, min_obs, payload, history) ==
    LET current == ToDecimal(Get(payload, x))
        values  == RecentWindow(x, window, history)
        n       == Len(values)
        total   == Total(values)
        mean    == total \div n
        spread  == Total([i \in 1 .. n |-> (values[i] - mean) * (values[i] - mean)])
        roots   == {r \in 1 .. spread : r * r * (n - 1) = spread}
    IN CASE ~Known({current} \cup Range(values)) \/ n < min_obs \/ n < 2 -> None
         [] Cardinality(Range(values)) = 1 -> None
         [] current = Fine -> Fine
         [] n * current = total -> 0
         [] total % n # 0 \/ roots = {} -> Fine
         [] OTHER -> Arith("/", current - mean, CHOOSE r \in roots : TRUE)

(* _pct_rank: the share of the window strictly below the current value. *)
PctRank(x, window, payload, history) ==
    LET current == ToDecimal(Get(payload, x))
        values  == RecentWindow(x, window, history)
    IN CASE ~Known({current} \cup Range(values)) \/ values = <<>> -> None
         [] current = Fine -> Fine
         [] OTHER -> Arith("/", Cardinality({i \in DOMAIN values : values[i] < current}) * One,
                                Len(values) * One)

(* _Node.eval for every kind of node. *)
RECURSIVE Eval(_, _, _)
Eval(node, payload, history) ==
    LET field(x) == ToDecimal(Get(payload, x))
    IN CASE node[1] = "lit"   -> node[2]
         [] node[1] = "field" -> field(node[2])
         [] node[1] = "neg"   -> Arith("-", 0, Eval(node[2], payload, history))
         [] node[1] = "bin"   -> Arith(node[2], Eval(node[3], payload, history),
                                                Eval(node[4], payload, history))
         [] node[2] = "lag"   -> LagValue(node[3], node[4][1], history)
         [] node[2] = "diff"  -> Arith("-", field(node[3]), LagValue(node[3], node[4][1], history))
         [] node[2] = "zscore" -> ZScore(node[3], node[4][1], node[4][2], payload, history)
         [] node[2] = "pct_rank" -> PctRank(node[3], node[4][1], payload, history)
         [] node[2] = "since" -> Arith("-", field("known_at"), field(node[3]))
         [] node[2] = "until" -> Arith("-", field(node[3]), field("known_at"))

(* compile_expr's closure: the value as a payload holds it. *)
Evaluated(node, payload, history) ==
    LET v == Eval(node, payload, history) IN IF v = None THEN Null ELSE <<"num", v>>
=============================================================================
