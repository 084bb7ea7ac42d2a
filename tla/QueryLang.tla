----------------------------- MODULE QueryLang -----------------------------
(***************************************************************************)
(* The query language: parser.go, ast.go, value.go and the predicates of   *)
(* prune.go (internal/query).  A query is a sequence of tokens, the work   *)
(* of lexer.go; a token has a kind and a text, an operator its own name.   *)
(* Go's strings, numbers and regular expressions come in as tables: the    *)
(* strings that occur in their lexical order, which spell a number, which  *)
(* contain another and which a pattern matches.                            *)
(*                                                                         *)
(* A record has a time, envelope fields, labels, annotations and a body,   *)
(* each a function from names; an envelope field that is not set is "",    *)
(* Go's zero time is 0.                                                    *)
(***************************************************************************)
EXTENDS Naturals, SequencesExt

CONSTANTS
    Sorted,      \* every string, in the order of Go's <
    Spelling,    \* TrimSpace and strconv.ParseFloat, on the strings they accept
    Numeral,     \* strconv.FormatFloat
    Infix,       \* pairs of strings, the first a proper part of the second
    Regex,       \* the strings that each pattern which compiles matches
    Underscored  \* identifiers with a leading underscore

ASSUME QueryLangAssumption ==
    /\ IsInjective(Sorted) /\ "" \in ToSet(Sorted)
    /\ \A n \in DOMAIN Numeral : Spelling[Numeral[n]] = n
    /\ \A p \in DOMAIN Regex : Regex[p] \subseteq ToSet(Sorted)

-----------------------------------------------------------------------------
(* value.go.  An optional value is a set of at most one value.             *)

String(s) == [kind |-> "string", v |-> s]
Number(n) == [kind |-> "number", v |-> n]
Bool(b) == [kind |-> "bool", v |-> b]
Null == [kind |-> "null", v |-> "null"]

FormatBool(b) == IF b THEN "true" ELSE "false"
Str(v) ==
    CASE v.kind = "string" -> v.v
      [] v.kind = "number" -> Numeral[v.v]
      [] v.kind = "bool" -> FormatBool(v.v)
      [] v.kind = "null" -> ""
Numeric(v) ==
    CASE v.kind = "number" -> {v.v}
      [] v.kind = "string" -> {Spelling[s] : s \in {v.v} \cap DOMAIN Spelling}
      [] OTHER -> {}

ResolveEnvelope(r, name) ==
    CASE name = "_ts" -> IF r.ts = 0 THEN {} ELSE {Number(r.ts)}
      [] name \in DOMAIN r.env /\ (r.env[name] # "" \/ name = "_message") -> {String(r.env[name])}
      [] OTHER -> {}

\* decodeJSON: an object is its text.
Decode(json) == IF json.kind = "object" THEN String(json.v) ELSE json

RECURSIVE ResolveBody(_, _)
ResolveBody(object, path) ==
    IF Head(path) \notin DOMAIN object THEN {}
    ELSE LET json == object[Head(path)] IN
         IF Len(path) = 1 THEN {Decode(json)}
         ELSE IF json.kind = "object" THEN ResolveBody(json.fields, Tail(path)) ELSE {}

Resolve(f, r) ==
    CASE f.kind = "envelope" -> ResolveEnvelope(r, Head(f.path))
      [] f.kind = "label" -> {String(r.labels[k]) : k \in ToSet(f.path) \cap DOMAIN r.labels}
      [] f.kind = "annotation" -> {String(r.annotations[k]) : k \in ToSet(f.path) \cap DOMAIN r.annotations}
      [] f.kind = "body" -> ResolveBody(r.body, f.path)

CmpEq(v, lit) ==
    CASE lit.kind = "number" -> lit.v \in Numeric(v)
      [] lit.kind = "bool" -> v \in {lit, String(FormatBool(lit.v))}
      [] OTHER -> Str(v) = lit.v

\* Mutant of Ordered: <= and >= exclude equality.
OrderedStrict(a, b, op) == IF op \in {"<", "<="} THEN a < b ELSE a > b

\* orderFloat, and orderString on the ranks of the strings.
Ordered(a, b, op) ==
    CASE op = "<" -> a < b
      [] op = "<=" -> a <= b
      [] op = ">" -> a > b
      [] op = ">=" -> a >= b

Rank(s) == CHOOSE i \in DOMAIN Sorted : Sorted[i] = s
\* A literal that is neither a number nor a string compares as "", its zero S.
CmpOrder(v, lit, op) ==
    IF lit.kind = "number" THEN \E n \in Numeric(v) : Ordered(n, lit.v, op)
    ELSE Ordered(Rank(Str(v)), Rank(IF lit.kind = "string" THEN lit.v ELSE ""), op)

ContainsStr(s, part) == part \in {"", s} \/ <<part, s>> \in Infix

-----------------------------------------------------------------------------
(* ast.go *)

MatchAll == [type |-> "all"]
And(l, r) == [type |-> "and", l |-> l, r |-> r]
Or(l, r) == [type |-> "or", l |-> l, r |-> r]
Not(x) == [type |-> "not", x |-> x]
Exists(f) == [type |-> "exists", field |-> f]
Cmp(f, op, lit) == [type |-> "cmp", field |-> f, op |-> op, lit |-> lit]

CmpMatch(n, r) ==
    LET found == Resolve(n.field, r)
        v == CHOOSE x \in found : TRUE
    IN  CASE found = {} -> n.op \in {"!=", "!~"}
          [] n.op = "=" -> CmpEq(v, n.lit)
          [] n.op = "!=" -> ~CmpEq(v, n.lit)
          [] n.op = "=~" -> Str(v) \in Regex[n.lit.v]
          [] n.op = "!~" -> Str(v) \notin Regex[n.lit.v]
          [] n.op = ":" -> ContainsStr(Str(v), n.lit.v)
          [] OTHER -> CmpOrder(v, n.lit, n.op)

RECURSIVE Match(_, _)
Match(n, r) ==
    CASE n.type = "all" -> TRUE
      [] n.type = "and" -> Match(n.l, r) /\ Match(n.r, r)
      [] n.type = "or" -> Match(n.l, r) \/ Match(n.r, r)
      [] n.type = "not" -> ~Match(n.x, r)
      [] n.type = "exists" -> \E v \in Resolve(n.field, r) : v \notin {String(""), Null}
      [] n.type = "cmp" -> CmpMatch(n, r)

-----------------------------------------------------------------------------
(* parser.go.  A function of the parser takes the tokens and a position,   *)
(* and returns a node and the position after it, or Failed.                *)

Result(node, at) == [node |-> node, at |-> at]
Failed == Result([type |-> "error"], 0)

EOF == [kind |-> "eof", text |-> ""]
Token(ts, i) == IF i \in DOMAIN ts THEN ts[i] ELSE EOF
Kind(ts, i) == Token(ts, i).kind

Join(parts) == FoldLeft(LAMBDA s, p : s \o "." \o p, Head(parts), Tail(parts))
ClassifyField(parts) ==
    LET head == Head(parts)
        rest == Tail(parts)
    IN  CASE head \in Underscored -> [kind |-> "envelope", path |-> <<head>>]
          [] head \in {"label", "annotation"} /\ rest # <<>> -> [kind |-> head, path |-> <<Join(rest)>>]
          [] head = "body" /\ rest # <<>> -> [kind |-> "body", path |-> rest]
          [] OTHER -> [kind |-> "body", path |-> parts]

RECURSIVE FieldRest(_, _, _)
FieldRest(ts, parts, i) ==
    CASE Kind(ts, i) = "." ->
            IF Kind(ts, i + 1) # "ident" THEN Failed
            ELSE FieldRest(ts, Append(parts, ts[i + 1].text), i + 2)
      [] Kind(ts, i) = "[" ->
            IF Kind(ts, i + 1) # "string" \/ Kind(ts, i + 2) # "]" THEN Failed
            ELSE FieldRest(ts, Append(parts, ts[i + 1].text), i + 3)
      [] OTHER -> Result(ClassifyField(parts), i)
ParseField(ts, i) == FieldRest(ts, <<ts[i].text>>, i + 1)

LiteralValue(t) ==
    CASE t.kind = "string" -> {String(t.text)}
      [] t.kind = "number" -> {Number(Spelling[s]) : s \in {t.text} \cap DOMAIN Spelling}
      [] t.kind = "bool" -> {Bool(t.text = "true")}
      [] OTHER -> {}

\* The literals of a comparison, none when the operator does not take the token.
Literal(op, t) ==
    CASE op \in {"=~", "!~"} ->
            IF t.kind \in {"regex", "string"} /\ t.text \in DOMAIN Regex THEN {String(t.text)} ELSE {}
      [] op = ":" -> {String(Str(v)) : v \in LiteralValue(t)}
      [] OTHER -> LiteralValue(t)

ParseComparison(ts, i, f, op) ==
    IF Literal(op, Token(ts, i)) = {} THEN Failed
    ELSE Result(Cmp(f, op, CHOOSE v \in Literal(op, ts[i]) : TRUE), i + 1)

RECURSIVE ParseOr(_, _)
ParsePrimary(ts, i) ==
    CASE Kind(ts, i) = "(" ->
            LET inner == ParseOr(ts, i + 1) IN
            IF inner = Failed \/ Kind(ts, inner.at) # ")" THEN Failed
            ELSE Result(inner.node, inner.at + 1)
      [] Kind(ts, i) = "ident" ->
            LET field == ParseField(ts, i) IN
            CASE field = Failed -> Failed
              [] Kind(ts, field.at) = "op" ->
                    ParseComparison(ts, field.at + 1, field.node, ts[field.at].text)
              [] OTHER -> Result(Exists(field.node), field.at)
      [] OTHER -> Failed

RECURSIVE ParseNot(_, _)
ParseNot(ts, i) ==
    IF Kind(ts, i) # "not" THEN ParsePrimary(ts, i)
    ELSE LET x == ParseNot(ts, i + 1) IN
         IF x = Failed THEN Failed ELSE Result(Not(x.node), x.at)

RECURSIVE AndRest(_, _)
AndRest(ts, left) ==
    IF left = Failed \/ Kind(ts, left.at) # "and" THEN left
    ELSE LET right == ParseNot(ts, left.at + 1) IN
         IF right = Failed THEN Failed
         ELSE AndRest(ts, Result(And(left.node, right.node), right.at))
ParseAnd(ts, i) == AndRest(ts, ParseNot(ts, i))

RECURSIVE OrRest(_, _)
OrRest(ts, left) ==
    IF left = Failed \/ Kind(ts, left.at) # "or" THEN left
    ELSE LET right == ParseAnd(ts, left.at + 1) IN
         IF right = Failed THEN Failed
         ELSE OrRest(ts, Result(Or(left.node, right.node), right.at))

\* Mutant of ParseOr: "or" binds its right side no looser than "and" does.
RECURSIVE OrRestFlat(_, _)
OrRestFlat(ts, left) ==
    IF left = Failed \/ Kind(ts, left.at) \notin {"and", "or"} THEN left
    ELSE LET right == ParseNot(ts, left.at + 1) IN
         IF right = Failed THEN Failed
         ELSE OrRestFlat(ts, Result(IF Kind(ts, left.at) = "or" THEN Or(left.node, right.node)
                                    ELSE And(left.node, right.node), right.at))
ParseOrFlat(ts, i) == OrRestFlat(ts, ParseNot(ts, i))

ParseOr(ts, i) == OrRest(ts, ParseAnd(ts, i))

Error == Failed.node
Parse(ts) ==
    IF ts = <<>> THEN MatchAll
    ELSE LET n == ParseOr(ts, 1) IN IF n # Failed /\ Kind(ts, n.at) = "eof" THEN n.node ELSE Error

-----------------------------------------------------------------------------
(* prune.go *)

\* Mutant of Required: a disjunction requires what either side requires.
RECURSIVE RequiredUnion(_)
RequiredUnion(n) ==
    CASE n.type \in {"and", "or"} -> RequiredUnion(n.l) \cup RequiredUnion(n.r)
      [] n.type = "cmp" /\ n.op = "=" /\ n.field.kind = "envelope" /\ n.lit.kind = "string" ->
            {[field |-> Head(n.field.path), value |-> n.lit.v]}
      [] OTHER -> {}

\* The equalities on envelope fields that hold in every record n matches.
RECURSIVE Required(_)
Required(n) ==
    CASE n.type = "and" -> Required(n.l) \cup Required(n.r)
      [] n.type = "or" -> Required(n.l) \cap Required(n.r)
      [] n.type = "cmp" /\ n.op = "=" /\ n.field.kind = "envelope" /\ n.lit.kind = "string" ->
            {[field |-> Head(n.field.path), value |-> n.lit.v]}
      [] OTHER -> {}

-----------------------------------------------------------------------------
(* Reference: the grammar of ast.go's package comment, rule by rule, on    *)
(* whole token sequences.  A phrase has a meaning for each derivation: the *)
(* records it selects from recs, or, when a value in it is a misfit for    *)
(* its operator, none that the comment would define.  What is no phrase    *)
(* has no meanings.                                                        *)

Selects(recs) == [misfit |-> FALSE, recs |-> recs]
Misfit == [misfit |-> TRUE, recs |-> {}]
Both(a, b, recs) == IF a.misfit \/ b.misfit THEN Misfit ELSE Selects(recs)

Before(ts, i) == SubSeq(ts, 1, i - 1)
After(ts, i) == SubSeq(ts, i + 1, Len(ts))
Places(ts, kind) == {i \in DOMAIN ts : ts[i].kind = kind}
EndsWith(ts, kinds) ==
    /\ Len(ts) > Len(kinds)
    /\ \A j \in DOMAIN kinds : ts[Len(ts) - Len(kinds) + j].kind = kinds[j]

\* field := IDENT ("." IDENT | "[" STRING "]")*
RECURSIVE FieldParts(_)
FieldParts(ts) ==
    LET n == Len(ts) IN
    UNION {IF n = 1 /\ Kind(ts, 1) = "ident" THEN {<<ts[1].text>>} ELSE {},
           {Append(p, ts[n].text) : p \in IF EndsWith(ts, <<".", "ident">>) THEN FieldParts(Before(ts, n - 1)) ELSE {}},
           {Append(p, ts[n - 1].text) : p \in IF EndsWith(ts, <<"[", "string", "]">>) THEN FieldParts(Before(ts, n - 2)) ELSE {}}}

\* value := STRING | NUMBER | BOOL | REGEX
IsValue(t) == t.kind \in {"string", "number", "bool", "regex"}
Value(t) ==
    CASE t.kind = "number" -> Number(Spelling[t.text])
      [] t.kind = "bool" -> Bool(t.text = "true")
      [] OTHER -> String(t.text)

\* A number that is none; a pattern where a value is compared, a number or a
\* truth value where a pattern is matched, and a pattern that does not compile.
Misfits(op, t) ==
    \/ t.kind = "number" /\ t.text \notin DOMAIN Spelling
    \/ IF op \in {"=~", "!~"} THEN t.kind \in {"number", "bool"} \/ t.text \notin DOMAIN Regex
       ELSE t.kind = "regex"

\* What "field op value" says: ":" looks for the value's text.
Compare(parts, op, t, recs) ==
    IF Misfits(op, t) THEN Misfit
    ELSE LET v == IF op = ":" THEN String(Str(Value(t))) ELSE Value(t) IN
         Selects({r \in recs : CmpMatch(Cmp(ClassifyField(parts), op, v), r)})

\* primary := "(" expr ")" | field op value | field
RECURSIVE SelectOr(_, _)
SelectPrimary(ts, recs) ==
    LET n == Len(ts) IN
    UNION {IF Kind(ts, 1) = "(" /\ EndsWith(ts, <<")">>) THEN SelectOr(SubSeq(ts, 2, n - 1), recs) ELSE {},
           {Selects({r \in recs : Match(Exists(ClassifyField(p)), r)}) : p \in FieldParts(ts)},
           IF n < 3 \/ Kind(ts, n - 1) # "op" \/ ~IsValue(ts[n]) THEN {} ELSE
               {Compare(p, ts[n - 1].text, ts[n], recs) : p \in FieldParts(Before(ts, n - 1))}}

\* notExpr := "not" notExpr | primary
RECURSIVE SelectNot(_, _)
SelectNot(ts, recs) ==
    SelectPrimary(ts, recs)
        \cup IF Kind(ts, 1) = "not" THEN {Both(a, a, recs \ a.recs) : a \in SelectNot(Tail(ts), recs)} ELSE {}

\* andExpr := notExpr ("and" notExpr)*
RECURSIVE SelectAnd(_, _)
SelectAnd(ts, recs) ==
    SelectNot(ts, recs) \cup UNION
        {{Both(a, b, a.recs \cap b.recs) : a \in SelectAnd(Before(ts, i), recs), b \in SelectNot(After(ts, i), recs)} :
            i \in Places(ts, "and")}

\* orExpr := andExpr ("or" andExpr)*
SelectOr(ts, recs) ==
    SelectAnd(ts, recs) \cup UNION
        {{Both(a, b, a.recs \cup b.recs) : a \in SelectOr(Before(ts, i), recs), b \in SelectAnd(After(ts, i), recs)} :
            i \in Places(ts, "or")}

\* An empty query selects everything.
Select(ts, recs) == IF ts = <<>> THEN {Selects(recs)} ELSE SelectOr(ts, recs)
=============================================================================
