------------------------------- MODULE Filters -------------------------------
(***************************************************************************)
(* The expressions of --ssl-filter and --http-filter: how ssl_filter.rs    *)
(* and http_filter.rs of collector/src/framework/analyzers take one apart  *)
(* and evaluate it on an event.  An expression is a sequence of tokens:    *)
(* "|", "&", "(", ")" and the names of conditions.  A text is a sequence   *)
(* of words.                                                               *)
(*                                                                         *)
(* Host, headers, status text, query, latency, names and ids are left out: *)
(* they are compared like what is here.                                    *)
(***************************************************************************)
EXTENDS Naturals, Sequences, FiniteSets, SequencesExt

CONSTANTS
  SslConditions,   \* name -> [field, operator, value]
  HttpConditions   \* name -> [target, field, value]

LOCAL First(set) == CHOOSE i \in set : \A j \in set : i <= j

HasText(text, value) ==
  \E i \in 0 .. Len(text) : i + Len(value) <= Len(text) /\ SubSeq(text, i + 1, i + Len(value)) = value

-----------------------------------------------------------------------------
\* ssl_filter.rs

\* compare_strings
CompareTexts(actual, operator, expected) ==
  \/ operator = "exact" /\ actual = expected
  \/ operator = "not_equal" /\ actual # expected
  \/ operator = "contains" /\ HasText(actual, expected)

\* compare_numbers
CompareNumbers(actual, operator, expected) ==
  \/ operator = "exact" /\ actual = expected
  \/ operator = "not_equal" /\ actual # expected
  \/ operator = "gt" /\ actual > expected
  \/ operator = "lt" /\ actual < expected

\* evaluate_condition: for is_handshake any operator is "=", the data of a
\* handshake is null, and a field unknown to the filter matches nothing.
SslMatches(name, event) ==
  LET c == SslConditions[name]
  IN  CASE c.field = "is_handshake" -> event.is_handshake = c.value
        [] c.field = "len"          -> CompareNumbers(event.len, c.operator, c.value)
        [] c.field = "function"     -> CompareTexts(event.function, c.operator, c.value)
        [] c.field = "data"         -> ~event.is_handshake /\ CompareTexts(event.data, c.operator, c.value)
        [] OTHER                    -> FALSE

Depth(expr, i) ==
  LET before(paren) == {j \in 1 .. i - 1 : expr[j] = paren}
  IN  Cardinality(before("(")) - Cardinality(before(")"))

\* Where an operator is, inside or outside of parentheses.
OperatorsAnywhere(expr, op) == {i \in 1 .. Len(expr) : expr[i] = op}

\* find_operator looks for the first of these.
Operators(expr, op) == {i \in OperatorsAnywhere(expr, op) : Depth(expr, i) = 0}

\* parse_expression, parse_condition and evaluate_node in one.  What is neither
\* empty nor split nor in parentheses is a condition.
SslEvaluate(expr, event) ==
  LET value[e \in Seq(STRING)] ==
        LET ors  == Operators(e, "|")
            ands == Operators(e, "&")
            left(ops)  == value[SubSeq(e, 1, First(ops) - 1)]
            right(ops) == value[SubSeq(e, First(ops) + 1, Len(e))]
        IN  IF ors # {} THEN left(ors) \/ right(ors)
            ELSE IF ands # {} THEN left(ands) /\ right(ands)
            ELSE IF e = <<>> THEN FALSE
            ELSE IF e[1] = "(" /\ e[Len(e)] = ")" THEN value[SubSeq(e, 2, Len(e) - 1)]
            ELSE SslMatches(e[1], event)
  IN  value[expr]

-----------------------------------------------------------------------------
\* http_filter.rs

\* evaluate_request_condition and evaluate_response_condition
HttpMatches(c, event) ==
  /\ event.message_type = c.target
  /\ CASE c.field = "method"        -> event.method = c.value
       [] c.field = "path"          -> event.path = c.value
       [] c.field = "path_prefix"   -> IsPrefix(c.value, event.path)
       [] c.field = "path_contains" -> HasText(event.path, c.value)
       [] c.field = "status_code"   -> event.status_code = c.value
       [] c.field = "body"          -> HasText(event.body, c.value)
       [] OTHER                     -> FALSE

\* parse_condition: what has no "=", be it nothing at all, is a piece of a path.
HttpCondition(part) ==
  IF part = <<>> THEN [target |-> "request", field |-> "path_contains", value |-> <<>>]
  ELSE HttpConditions[part[1]]

\* split(op)
Parts(expr, op) ==
  LET cuts == {0, Len(expr) + 1} \union OperatorsAnywhere(expr, op)
  IN  {SubSeq(expr, i + 1, First({j \in cuts : j > i}) - 1) : i \in cuts \ {Len(expr) + 1}}

\* parse_or_expression, parse_and_expression and evaluate_node in one
HttpEvaluate(expr, event) ==
  /\ expr # <<>>
  /\ \E part \in Parts(expr, "|") : \A c \in Parts(part, "&") : HttpMatches(HttpCondition(c), event)

-----------------------------------------------------------------------------
\* What an expression means: a grammar whose phrases come with the set of events
\* that they match.  "&" binds more than "|", and parentheses group.

Condition(name, matched) == [text |-> <<name>>, meant |-> matched]
Both(a, b)   == [text |-> a.text \o <<"&">> \o b.text, meant |-> a.meant \intersect b.meant]
Either(a, b) == [text |-> a.text \o <<"|">> \o b.text, meant |-> a.meant \union b.meant]
Grouped(a)   == [text |-> <<"(">> \o a.text \o <<")">>, meant |-> a.meant]

Conjunctions(phrases) == phrases \union {Both(a, b) : a, b \in phrases}
Disjunctions(phrases) == phrases \union {Either(a, b) : a, b \in phrases}
==============================================================================
