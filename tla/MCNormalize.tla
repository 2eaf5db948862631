----------------------------- MODULE MCNormalize -----------------------------
(* Small documents in the forms of several drafts, each with one reference   *)
(* to a position as it is written.                                           *)
EXTENDS Load

S(n) == Instance("string", n, << >>, << >>)
N(n) == Instance("number", n, << >>, << >>)
Arr(items) == Instance("array", 0, items, << >>)
Obj(members) == Instance("object", 0, << >>, members)
SmallInstances ==
    {Nil, S(1), S(2), N(0), N(1), N(2), Arr(<< >>), Arr(<<S(1)>>), Arr(<<Nil, S(1)>>),
     Arr(<<S(1), N(1), S(1)>>), Arr(<<S(1), N(1), Nil>>), Arr(<<Arr(<<N(1)>>), N(1)>>),
     Obj(<< >>), Obj("p" :> S(1)), Obj("p" :> Nil), Obj("q" :> N(1)), Obj("p" :> S(1) @@ "q" :> S(2))}
Vendor == {"x-vendor"}
LowerCase1(token) == token

-----------------------------------------------------------------------------
(* Trees: a schema and what is below it, addressed from it.                  *)
Alone(own) == << >> :> own
Below1(path, t) == [a \in {path \o b : b \in DOMAIN t} |-> t[Past(path, a)]]
Both(t1, t2) == t1 @@ t2
Str == [Empty EXCEPT !.types = {"string"}]
Num == [Empty EXCEPT !.types = {"number"}]
Maybe(own) == [own EXCEPT !.nullable = "true"]
False == [Empty EXCEPT !.is = "false"]
Bare == Maybe(Empty)
Example == [Maybe(Str) EXCEPT !.payload = TRUE, !.flag = "true"]

Union(k, first, second) == Below1(<<k, "0">>, Alone(first)) @@ Below1(<<k, "1">>, Alone(second))
Tuple(first, second, rest) ==
    Below1(<<"items", "0">>, first) @@ Below1(<<"items", "1">>, Alone(second))
    @@ (IF rest = << >> THEN << >> ELSE Below1(<<"additionalItems">>, rest))
Props(first, second) == Below1(<<"properties", "p">>, first) @@ Below1(<<"properties", "q">>, Alone(second))

Inside30 ==
    {<< >>, Below1(<<"default">>, Alone(Example)), Below1(<<"not">>, Alone(Maybe(Num)))}
    \cup {Union(k, a, b) : k \in {"anyOf", "oneOf"}, a \in {Bare, Str}, b \in {Maybe(Num), Bare}}
    \cup {Below1(<<"allOf", "0">>, Alone(a) @@ i) :
             a \in {Str, Empty, Bare}, i \in {<< >>, Union("anyOf", Bare, Num)}}
    \cup {Union("oneOf", Str, Num) @@ Below1(<<"allOf", "0">>, Alone(Bare) @@ Union("anyOf", Str, Bare))}
    \cup {Props(Alone([a EXCEPT !.flag = f]), [Num EXCEPT !.flag = g]) :
             a \in {Maybe(Str)}, f \in {"unsaid", "true", "false"}, g \in {"unsaid", "true"}}
Tuples ==
    {Tuple(a, b, r) : a \in {Alone(Maybe(Str)), Alone(Empty) @@ Tuple(Alone(Num), Str, << >>)},
                      b \in {Num},
                      r \in {<< >>, Alone(False), Alone(Maybe(Str)), Alone(Empty) @@ Tuple(Alone(Num), Str, Alone(Num))}}
    \cup {Tuple(Alone(Str), Str, Alone(Num)) @@ Below1(<<"prefixItems", "0">>, Alone(Maybe(Num)))}

Owns ==
    {[Empty EXCEPT !.types = ty, !.nullable = n, !.enum = e] :
        ty \in {{}, {"string"}, {"array", "object"}}, n \in {"unsaid", "true", "false"}, e \in {{}, {S(1), N(1)}}}
Bounds == {[Num EXCEPT !.minimum = m, !.exclusive = e, !.nullable = n] :
              m \in BOOLEAN, e \in {"unsaid", "true", "false", "bound"}, n \in {"unsaid", "true"}}
Texts == {[Empty EXCEPT !.types = ty, !.format = f, !.content = c] :
              ty \in {{}, {"string"}}, f \in {"byte", "binary", "date"}, c \in {{}, {"base64"}}}

-----------------------------------------------------------------------------
(* OpenAPI documents: the schema at a component or elsewhere, and R.         *)
Api(version, nodes) == [bundle |-> FALSE, version |-> version, describes |-> TRUE, nodes |-> nodes]
Comp(n) == <<"components", "schemas", n>>
RefTo(at) == [Empty EXCEPT !.ref = at]
Named1(t) == Below1(Comp("A"), t)
WithReader(t, to) == t @@ Comp("R") :> RefTo(to)
Versions == {<<3, 0>>, <<3, 1>>}
Minors == {<< >>, <<2, 0>>, <<3, 0>>, <<3, 1>>, <<3, 2>>}

\* One schema, with a reference to each position of it.
ShapesOf(owns, insides) == {Alone(o) @@ i : o \in owns, i \in insides}
Referred(t) == {WithReader(t, a) : a \in {b \in DOMAIN t : ~t[b].payload}}
OwnDocuments ==
    {Api(v, d) : v \in Versions,
        d \in UNION {Referred(Named1(t)) : t \in ShapesOf(Owns, Inside30)
                        \cup ShapesOf({[Empty EXCEPT !.types = {"array"}, !.nullable = n] : n \in {"unsaid", "true"}},
                                      Tuples)}}
    \cup {Api(v, Named1(Alone(o))) : v \in Versions, o \in Bounds \cup Texts
            \cup {[Bare EXCEPT !.ref = Comp("B")], [Maybe(Str) EXCEPT !.ref = Comp("B")]}}

\* One schema in every place that keeps one, and in some that do not.
Reply1 == <<"responses", "200">>
Media == <<"content", "json">>
InOperation ==
    {<<"parameters", "0", "schema">>, <<"parameters", "0">> \o Media \o <<"schema">>,
     <<"requestBody">> \o Media \o <<"schema">>, Reply1 \o <<"headers", "h", "schema">>,
     Reply1 \o Media \o <<"encoding", "e", "headers", "h", "schema">>,
     <<"responses", "x-vendor">> \o Media \o <<"schema">>, <<"requestBody">> \o Media \o <<"example">>}
InComponents ==
    {<<"responses", "r">> \o Media \o <<"schema">>, <<"parameters", "p", "schema">>, <<"headers", "h", "schema">>,
     <<"requestBodies", "b">> \o Media \o <<"schema">>, <<"examples", "e">>, <<"schemas", "x-vendor">>,
     <<"pathItems", "i", "parameters", "0", "schema">>,
     <<"callbacks", "c", "url", "post", "requestBody">> \o Media \o <<"schema">>}
Everywhere ==
    {<<"paths", "p", "get">> \o a : a \in InOperation} \cup {<<"components">> \o a : a \in InComponents}
    \cup {<<"paths", "x-vendor", "get">> \o Media, <<"webhooks", "w", "trace", "parameters", "0", "schema">>,
          <<"paths", "p", "get", "callbacks", "c", "url", "put", "requestBody">> \o Media \o <<"schema">>,
          <<"paths", "p", "get", "callbacks", "x-vendor", "u", "put", "requestBody">> \o Media \o <<"schema">>,
          <<"paths", "p", "parameters", "0", "schema">>, <<"x-vendor", "s">>}
Payloads ==
    {<<"paths", "p", "get">> \o a : a \in
        {<<"responses", "x-vendor">> \o Media \o <<"schema">>, <<"requestBody">> \o Media \o <<"example">>}}
    \cup {<<"components", "examples", "e">>, <<"paths", "x-vendor", "get">> \o Media, <<"x-vendor", "s">>,
          <<"paths", "p", "get", "callbacks", "x-vendor", "u", "put", "requestBody">> \o Media \o <<"schema">>}
Placed1 == Alone(Maybe(Str)) @@ Tuple(Alone(Str), Num, << >>)
Hidden(t) == [a \in DOMAIN t |-> [t[a] EXCEPT !.payload = TRUE]]
PlacedDocuments ==
    {Api(v, Below1(at, IF at \in Payloads THEN Hidden(Placed1) ELSE Placed1)) : v \in Minors, at \in Everywhere}
    \cup {[Api(v, Named1(Placed1)) EXCEPT !.describes = FALSE] : v \in {<<3, 0>>}}

-----------------------------------------------------------------------------
(* Bundles: a root and two definitions.                                      *)
Def(n) == <<"definitions", n>>
Owned(own, d) == [own EXCEPT !.draft = d]
Beside == {<< >>, Below1(<<"definitions", "d">>, Alone(Num)), Props(Alone(Str), Num),
           Below1(<<"dependencies", "p">>, Alone([Empty EXCEPT !.required = {"q"}])),
           Below1(<<"dependencies", "p">>, Alone([Empty EXCEPT !.types = {"object"}])
                    @@ Below1(<<"dependencies", "q">>, Alone([Empty EXCEPT !.required = {"p"}]))),
           Below1(<<"dependencies", "p">>, Alone(False)) @@ Below1(<<"dependentSchemas", "q">>, Alone(False)),
           Below1(<<"dependencies", "p">>, Alone([Empty EXCEPT !.types = {"object"}]) @@ Tuple(Alone(Str), Num, << >>)),
           Tuple(Alone(Str), Num, Alone(Str))}
Bundled ==
    {Alone([own EXCEPT !.ref = r, !.dependencies = n, !.dependentRequired = m, !.draft = d]) @@ b :
        own \in {Empty, Num}, r \in {<< >>, Def("B")}, n \in {{}, {<<"q", "p">>}}, m \in {{}, {<<"p", "q">>}},
        d \in {"unsaid", "legacy", "current"}, b \in Beside}
BundleDocuments ==
    UNION {{[bundle |-> TRUE, version |-> << >>, describes |-> FALSE,
             nodes |-> Below1(Def("A"), t) @@ Def("B") :> Str @@ << >> :> Owned(Empty, d)
                       @@ Def("R") :> RefTo(Def("A") \o to)] :
              to \in {a \in DOMAIN t : Len(a) > 1}, d \in {"unsaid", "legacy"}} : t \in Bundled}

SmallDrafts == OwnDocuments \cup PlacedDocuments \cup BundleDocuments

-----------------------------------------------------------------------------
PipelineInit ==
    /\ NormalizeInit /\ KeysIdle
    /\ doc = Nothing /\ phase = "idle" /\ readAt = << >> /\ aliases = {} /\ round = 0
    /\ targets = << >> /\ use = 0 /\ ends = << >> /\ noted = {}
PipelineSpec == PipelineInit /\ [][PipelineNext]_<<normalizeVars, resolveVars, keyVars>>

=============================================================================
