------------------------------ MODULE MCQuery ------------------------------
(***************************************************************************)
(* Model-checking instance of Query: every text of less than MaxTokens     *)
(* tokens, those of MaxTokens tokens without or around one comparison, and *)
(* every simple comparison on a store without records; a range of requests *)
(* on a store with blocks; and readers that run into each other and into a *)
(* failing step, into a seal, and into the cache's cap.                    *)
(***************************************************************************)
EXTENDS Query, TLC

MaxTokens == 5

MCSorted == <<"", "1", "10", "2", "3", "4", "5", "6", "9", "false", "prod", "test", "true", "x", "xy", "{b}">>
MCNumeral == 1 :> "1" @@ 2 :> "2" @@ 3 :> "3" @@ 4 :> "4" @@ 5 :> "5" @@ 6 :> "6" @@ 9 :> "9" @@ 10 :> "10"
MCSpelling == [s \in {MCNumeral[n] : n \in DOMAIN MCNumeral} |-> CHOOSE n \in DOMAIN MCNumeral : MCNumeral[n] = s]
MCInfix == {<<"x", "xy">>, <<"1", "10">>, <<"b", "{b}">>}
MCRegex == "x" :> {"x", "xy"} @@ "9" :> {"9"}
MCUnderscored == {"_namespace", "_ts", "_message", "_other"}

Envelope(ns) ==
    [f \in Summarised \cup {"_message"} |-> CASE f = "_namespace" -> ns [] f = "_message" -> "" [] OTHER -> "x"]
Record(id, ts, ns, body) ==
    [id |-> id, ts |-> ts, env |-> Envelope(ns), body |-> body,
     labels |-> IF ns = "" THEN <<>> ELSE "app.name" :> "x", annotations |-> <<>>]

Nothing == <<>>
Values == {String(""), String("x"), String("xy"), String("9"), Number(10), Bool(TRUE), Null,
           [kind |-> "object", v |-> "{b}", fields |-> "b" :> String("x")]}
Bodies == {Nothing} \cup {"a" :> v : v \in Values}
MCSamples ==
    {Record("s", IF ns = "" THEN 0 ELSE 3, ns, IF b THEN body @@ "b" :> String("x") ELSE body) :
        ns \in {"", "prod"}, b \in BOOLEAN, body \in Bodies}

T(kind, text) == [kind |-> kind, text |-> text]
W(kind) == T(kind, kind)
I(name) == T("ident", name)
S(text) == T("string", text)
O(op) == T("op", op)

Alphabet == {I("a"), I("b"), O("="), S("x"), W("and"), W("or"), W("not"), W("("), W(")")}
Connectives == Alphabet \ {O("="), S("x")}
Texts(tokens, n) == [1 .. n -> tokens]
Compared == <<I("a"), O("="), S("x")>>
ShortTexts ==
    UNION {Texts(Alphabet, n) : n \in 0 .. MaxTokens - 1} \cup Texts(Connectives, MaxTokens)
    \cup {SubSeq(t, 1, k) \o Compared \o SubSeq(t, k + 1, 2) : t \in Texts(Alphabet, 2), k \in 0 .. 2}

Fields == {<<I("a")>>, <<I("a"), W("."), I("b")>>, <<I("body"), W("["), S("a"), W("]")>>,
           <<I("label"), W("."), I("app"), W("."), I("name")>>,
           <<I("label"), W("["), S("app.name"), W("]")>>, <<I("label")>>, <<I("annotation"), W("."), I("x")>>,
           <<I("_namespace")>>, <<I("_message")>>, <<I("_ts")>>, <<I("_other")>>,
           <<I("a"), W(".")>>, <<I("a"), W("["), I("b"), W("]")>>, <<I("a"), W("["), S("b")>>}
Ops == {"=", "!=", "=~", "!~", "<", "<=", ">", ">=", ":"}
Literals == {S("x"), S("9"), S(""), T("number", "9"), T("number", "10"), T("number", "1-"),
             T("bool", "true"), T("regex", "x"), T("regex", "("), I("a")}
Comparisons == {f \o <<O(op), l>> : f \in Fields, op \in Ops, l \in Literals}

A == <<I("a")>>
B == <<I("b")>>
Prod == <<I("_namespace"), O("="), S("prod")>>
Test == <<I("_namespace"), O("="), S("test")>>
Odd == <<I("a"), O("="), T("regex", "x")>>
Paren(ts) == <<W("(")>> \o ts \o <<W(")")>>
Two(l, w, r) == l \o <<W(w)>> \o r
Nested ==
    LET N == <<W("not")>> IN
    {Two(Paren(n \o Two(A, v, B)), w, C) : n \in {N, <<>>}, v \in {"and", "or"}, w \in {"and", "or"}, C \in {A, Prod, Odd}}
    \cup {Two(C, w, n \o Paren(Two(A, v, B))) : n \in {N, <<>>}, v \in {"and", "or"}, w \in {"and", "or"}, C \in {B, Prod, Odd}}
    \cup {Two(Two(A, v, B), w, Two(Prod, u, B)) : u \in {"and", "or"}, v \in {"and", "or"}, w \in {"and", "or"}}

NoTable == [g \in {} |-> <<>>]
X == "a" :> String("x")
BusyStore(later, n) ==
    [batches |-> 1 :> <<Record(1, 1, "prod", X), Record(2, 2, "prod", X), Record(3, 3, "prod", X)>>
              @@ 2 :> <<Record(4, 2, "prod", X)>> @@ 3 :> <<Record(5, 5, "prod", X)>>,
     later |-> later, open |-> <<>>, faults |-> n]
MCStores ==
    "none" :> [batches |-> NoTable, later |-> {}, open |-> <<>>, faults |-> 0] @@
    "blocks" :> [batches |-> 1 :> <<Record(1, 5, "prod", X), Record(2, 1, "prod", Nothing), Record(3, 3, "test", X)>>
                          @@ 2 :> <<Record(4, 2, "test", Nothing), Record(5, 3, "test", X)>>
                          @@ 3 :> <<Record(6, 4, "", X)>>,
                 later |-> {}, open |-> <<Record(7, 6, "prod", X), Record(8, 4, "test", X)>>, faults |-> 0] @@
    "busy" :> BusyStore({3}, 0) @@ "failing" :> BusyStore({}, 1) @@ "sealing" :> BusyStore({1, 3}, 1) @@
    "large" :> [batches |-> 2 :> <<Record(1, 1, "prod", X)>> @@ 4 :> <<Record(2, 2, "prod", X)>>,
                later |-> {}, open |-> <<>>, faults |-> 0]

Request(text, start, end, limit, desc) ==
    [text |-> text, start |-> start, end |-> end, limit |-> limit, desc |-> desc]
All(text) == Request(text, 0, 0, 0, FALSE)

CONSTANTS r1, r2
One(q) == r1 :> q
LanguageJobs == {[store |-> "none", requests |-> One(All(t))] : t \in ShortTexts \cup Comparisons \cup Nested}
BlockJobs ==
    {[store |-> "blocks", requests |-> One(Request(text, start, end, limit, desc))] :
        text \in {<<>>, A, Prod, Two(Prod, "or", A), Two(Prod, "and", A), Two(Prod, "and", Test), Two(Prod, "or", Test)},
        start \in {0, 2, 4}, end \in {0, 3, 4}, limit \in {0, 1, 2}, desc \in BOOLEAN}
BusyJobs ==
    {[store |-> st, requests |-> One(All(<<>>)) @@ r2 :> All(<<>>)] : st \in {"busy", "failing"}}
    \cup {[store |-> st, requests |-> One(All(<<>>))] : st \in {"sealing", "large"}}
MCJobs == LanguageJobs \cup BlockJobs \cup BusyJobs

MCSizeOf == <<1, 1, 1, 3>>
=============================================================================
