----------------------------- MODULE AssetQuery -----------------------------
(* The query language of the asset search.  A query is a rule [field, op,      *)
(* value] or a group [combinator, scope, rules]; a card is the set of its rows *)
(* [entity, field, value].  The search works on all cards at once, and what it *)
(* selects of a card depends on the rows of that card only.                    *)

CONSTANT None

Fits(rule, value) ==
    CASE rule.op = "exists"     -> TRUE
      [] rule.op = "equals"     -> value = rule.value
      [] rule.op = "not_equals" -> value # rule.value

\* The entities that one rule selects of the rows in the index, None if the card has none
\* there; the absence of a field is of the card as such.
RuleEntities(rows, rule) ==
    LET ofField == IF rows = None THEN {} ELSE {r \in rows : r.field = rule.field}
        fitting == {r \in ofField : Fits(rule, r.value)}
    IN IF rule.op # "not_exists" THEN {r.entity : r \in fitting}
       ELSE IF ofField = {} THEN {None} ELSE {}

OfCard(entities) == IF entities = {} THEN {} ELSE {None}

RECURSIVE Entities(_, _)
EntitiesIgnoringScope(rows, node) ==
    IF "rules" \notin DOMAIN node THEN RuleEntities(rows, node)
    ELSE LET selected == [n \in node.rules |-> OfCard(Entities(rows, n))]
             all == UNION {selected[n] : n \in node.rules}
         IN IF node.combinator = "or" THEN all ELSE {e \in all : \A n \in node.rules : e \in selected[n]}

\* A group of hosts forgets the entities of its members before it intersects or unites
\* them; in a group of scope same_entity the entities have to agree.
Entities(rows, node) ==
    IF "rules" \notin DOMAIN node THEN RuleEntities(rows, node)
    ELSE LET selected == [n \in node.rules |-> IF node.scope = "host" THEN OfCard(Entities(rows, n))
                                                                     ELSE Entities(rows, n)]
             all == UNION {selected[n] : n \in node.rules}
         IN IF node.combinator = "or" THEN all ELSE {e \in all : \A n \in node.rules : e \in selected[n]}

Selects(rows, query) == Entities(rows, query) # {}

\* validate_asset_query_tree: what same_entity may not hold.
RECURSIVE ValidWithin(_, _)
ValidWithin(node, within) ==
    "rules" \in DOMAIN node =>
        /\ node.rules # {} /\ ~(within = "same_entity" /\ node.scope = "host")
        /\ \A n \in node.rules : ValidWithin(n, node.scope)
        /\ node.scope = "same_entity" =>
              \A n \in node.rules : "rules" \notin DOMAIN n => n.op # "not_exists"

Valid(query) == ValidWithin(query, None)

\* What the documentation says a query selects, from the content of one card.
RECURSIVE HoldsAt(_, _, _)
HoldsAt(rows, entity, node) ==
    IF "rules" \notin DOMAIN node
    THEN \E row \in rows : row.entity = entity /\ row.field = node.field /\ Fits(node, row.value)
    ELSE IF node.combinator = "or" THEN \E n \in node.rules : HoldsAt(rows, entity, n)
                                   ELSE \A n \in node.rules : HoldsAt(rows, entity, n)

RECURSIVE Holds(_, _)
Holds(rows, node) ==
    CASE "rules" \notin DOMAIN node /\ node.op = "not_exists" -> \A row \in rows : row.field # node.field
      [] "rules" \notin DOMAIN node /\ node.op # "not_exists" -> \E row \in rows : HoldsAt(rows, row.entity, node)
      [] "rules" \in DOMAIN node /\ node.scope = "same_entity" -> \E row \in rows : HoldsAt(rows, row.entity, node)
      [] OTHER -> IF node.combinator = "or" THEN \E n \in node.rules : Holds(rows, n)
                                            ELSE \A n \in node.rules : Holds(rows, n)
==============================================================================
