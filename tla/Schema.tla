------------------------------- MODULE Schema -------------------------------
(***************************************************************************)
(* The dataset schema: load_schema of hub/schema.py.                       *)
(*                                                                         *)
(* A document has `key` (a sequence of names), `fields` (name to [type,    *)
(* values, null, derived]), `range` (name to <<low, high>>), `alias` and   *)
(* `unknown`, the keys nobody recognises at any level.  `derived` is the   *)
(* expression's tokens, empty for a collected field.  Titles, versions,    *)
(* units and the scope kind only have to be there and are left out.        *)
(***************************************************************************)
EXTENDS Derive

NullPolicies == {"forbid", "allow", "allow_until_release"}

RESERVED_FIELD_NAMES == {"known_at", "effective_at", "revision"}
EnvelopeExpressionNames == {"known_at", "effective_at"}
EnvelopeKeyNames == {"scope", "period_start", "period_end", "effective_at"}

(* sorted() of texts. *)
Sorted(S) == SetToSortSeq(S, LAMBDA x, y : Rank(x) < Rank(y))

-----------------------------------------------------------------------------
(* _load_field_spec: the rules on one field's declaration. *)
FieldLoads(spec) ==
    /\ spec.type \in FieldTypes
    /\ spec.null \in NullPolicies
    /\ IF spec.type = "enum" THEN spec.values # <<>> /\ IsInjective(spec.values)
                             ELSE spec.values = <<>>

DerivedNames(fields) == {x \in DOMAIN fields : fields[x].derived # <<>>}
Trees(fields) == [x \in DerivedNames(fields) |-> Parse(fields[x].derived)]

(* The first half of _derived_order: every expression parses, and reads    *)
(* declared names and the envelope's timestamps, never itself.             *)
ReferencesLoad(fields) ==
    LET tree == Trees(fields)
    IN \A x \in DOMAIN tree :
          /\ tree[x] # Rejected
          /\ Names(tree[x]) \subseteq DOMAIN fields \cup EnvelopeExpressionNames
          /\ x \notin Names(tree[x])

Dependencies(fields) ==
    [x \in DerivedNames(fields) |-> Names(Trees(fields)[x]) \cap DerivedNames(fields)]

(* `visit`: depth first, 1 on the trail, 2 done; `ok` falls on a cycle. *)
RECURSIVE Visit(_, _, _)
Visit(deps, st, x) ==
    IF ~st.ok \/ st.mark[x] = 2 THEN st
    ELSE IF st.mark[x] = 1 THEN [st EXCEPT !.ok = FALSE]
    ELSE LET inner == FoldLeft(LAMBDA s, d : Visit(deps, s, d),
                               [st EXCEPT !.mark[x] = 1], Sorted(deps[x]))
         IN [inner EXCEPT !.mark[x] = 2, !.order = Append(@, x)]

(* Mutant of DerivedOrder: fields are evaluated in name order. *)
DerivedOrderByName(fields) == [ok |-> TRUE, order |-> Sorted(DerivedNames(fields))]

(* The second half of _derived_order. *)
DerivedOrder(fields) ==
    LET deps == Dependencies(fields)
        none == [ok |-> TRUE, order |-> <<>>, mark |-> [x \in DOMAIN deps |-> 0]]
    IN FoldLeft(LAMBDA s, x : Visit(deps, s, x), none, Sorted(DOMAIN deps))

(* load_schema: whether the document is accepted. *)
Loads(doc) ==
    /\ doc.unknown = {}
    /\ DOMAIN doc.fields \cap (RESERVED_FIELD_NAMES \cup RESERVED_EXPRESSION_NAMES) = {}
    /\ \A x \in DOMAIN doc.fields : FieldLoads(doc.fields[x])
    /\ ReferencesLoad(doc.fields) /\ DerivedOrder(doc.fields).ok
    /\ doc.key # <<>>
    /\ Range(doc.key) \subseteq (DOMAIN doc.fields \ DerivedNames(doc.fields)) \cup EnvelopeKeyNames
    /\ DOMAIN doc.range \subseteq DOMAIN doc.fields
    /\ doc.alias # "" => doc.alias \in DOMAIN doc.fields

(* The DatasetSchema an accepted document becomes. *)
LoadSchema(doc) ==
    [key |-> doc.key, fields |-> doc.fields, range |-> doc.range,
     order |-> DerivedOrder(doc.fields).order, tree |-> Trees(doc.fields)]

(* How far back any derived field of the schema reads. *)
Reach(schema) == Max({0} \cup {Lookback(schema.tree[x]) : x \in DOMAIN schema.tree})

=============================================================================
