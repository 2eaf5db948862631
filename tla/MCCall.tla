------------------------------- MODULE MCCall -------------------------------
(***************************************************************************)
(* The calls of Call that TLC checks: every row of the style table against *)
(* every character that could break it, every body against every way its   *)
(* type can be declared or overridden, every credential set against what   *)
(* the request already carries, and every answer of a set of arms.         *)
(***************************************************************************)
EXTENDS Call

X == <<25>>
Token == <<Digit, Plus, Semi, A>>

\* Schemes 1 to 5; the first two share a header.
MCPlaces == << [in |-> "header", name |-> X], [in |-> "header", name |-> X],
               [in |-> "query", name |-> <<A>>], [in |-> "cookie", name |-> <<A>>],
               [in |-> "header", name |-> <<24>>] >>

NoBody == [kind |-> "none", required |-> FALSE, media |-> JsonMedia, rows |-> <<>>, value |-> None]
PlainArm == [exact |-> TRUE, code |-> 200, body |-> "json", media |-> JsonMedia, headers |-> <<>>]
PlainAnswer == [arm |-> 1, status |-> 200, typed |-> <<>>, raw |-> NoHeaders]
Nothing == [s \in DOMAIN MCPlaces |-> None]

Base == [params |-> <<>>, body |-> NoBody, accept |-> None, own |-> NoHeaders,
         security |-> <<>>, held |-> Nothing,
         arms |-> <<PlainArm>>, fallback |-> None, answer |-> PlainAnswer]

-----------------------------------------------------------------------------
(***************************************************************************)
(* One parameter in every row, with one character of each kind.            *)
(***************************************************************************)
Shapes == {"scalar", "array", "object"}
Row(style, explode, shape, plan, reserved) ==
    [style |-> style, explode |-> explode, shape |-> shape, plan |-> plan, reserved |-> reserved]

PathRows == {Row(s, e, h, "str", FALSE) : s \in {"simple", "label", "matrix"}, e \in BOOLEAN, h \in Shapes}
QueryRows == {Row("form", e, h, "str", r) : e \in BOOLEAN, h \in Shapes, r \in BOOLEAN}
             \union {Row(s, e, "array", "str", FALSE) : s \in {"space", "pipe"}, e \in BOOLEAN}
             \union {Row("deep", e, "object", "str", r) : e \in BOOLEAN, r \in BOOLEAN}
HeaderRows == {Row("simple", e, h, "str", FALSE) : e \in BOOLEAN, h \in Shapes}
CookieRows == {Row("form", e, h, "str", FALSE) : e \in BOOLEAN, h \in Shapes}

Elements1 == {Str(<<>>), Str(<<Space, A>>)} \union {Str(<<c>>) : c \in Char} \union {Str(<<A, c, B>>) : c \in Char}
ValuesOf(shape) ==
    CASE shape = "scalar" -> Elements1
      [] shape = "array" -> {Arr(<<>>)} \union {Arr(<<e>>) : e \in Elements1}
                            \union {Arr(<<e, Str(<<B>>)>>) : e \in Elements1}
      [] shape = "object" -> {Obj(<<>>)} \union {Obj(<<Member(<<A>>, e)>>) : e \in Elements1}
                             \union {Obj(<<Member(<<A>>, e), Member(<<B>>, Str(<<B>>))>>) : e \in Elements1}

NumberValues(shape) == CASE shape = "scalar" -> Num
                    [] shape = "array" -> Arr(<<Num, Num>>)
                    [] shape = "object" -> Obj(<<Member(<<B>>, Num)>>)

Param(in, row, required, value) ==
    [name |-> <<A>>, in |-> in, required |-> required, row |-> row, value |-> value]
Alone(p) == [Base EXCEPT !.params = <<p>>]

RowsAt(in) == CASE in = "path" -> PathRows [] in = "query" -> QueryRows
                [] in = "header" -> HeaderRows [] in = "cookie" -> CookieRows
Written(in) ==
    {Alone(Param(in, row, TRUE, Some(v))) : row \in RowsAt(in), v \in UNION {ValuesOf(h) : h \in Shapes}}
OfShape(c) == LET v == c.params[1].value[1]
              IN  c.params[1].row.shape = (CASE v.kind = "arr" -> "array" [] v.kind = "obj" -> "object"
                                             [] OTHER -> "scalar")
Spelling(in) == {Alone(Param(in, [row EXCEPT !.plan = "num"], TRUE, Some(NumberValues(row.shape)))) : row \in RowsAt(in)}
Unset == {Alone(Param(in, Row(IF in = "header" THEN "simple" ELSE "form", FALSE, h, "str", FALSE), FALSE, None)) :
              in \in {"query", "header", "cookie"}, h \in Shapes}

StyleCalls == UNION {{c \in Written(in) : OfShape(c)} \union Spelling(in) : in \in {"path", "query", "header", "cookie"}}
              \union Unset

-----------------------------------------------------------------------------
(***************************************************************************)
(* Bodies, with the header parameters and headers that touch their type.   *)
(***************************************************************************)
Text == Row("simple", FALSE, "scalar", "str", FALSE)
Header(name, required, value) ==
    [name |-> name, in |-> "header", required |-> required, row |-> Text, value |-> value]
Vendor == <<34>>
Full1 == [size |-> 1, text |-> <<>>]
BodyPayloads == {None, Some(NoPayload), Some(Full1), Some([size |-> BodyLimit, text |-> <<>>]),
                 Some([size |-> BodyLimit + 1, text |-> <<>>])}

FormRow(name, style, explode, shape, required) ==
    [name |-> name, style |-> style, explode |-> explode, shape |-> shape, plan |-> "str",
     reserved |-> FALSE, required |-> required]
FormRows == <<FormRow(<<A>>, "form", FALSE, "object", FALSE), FormRow(<<B>>, "space", FALSE, "array", TRUE)>>
FewMembers == Obj(<<Member(<<B>>, Arr(<<Str(<<A>>)>>))>>)
FormValues ==
    {Obj(<<Member(<<A>>, Obj(<<Member(<<B>>, Str(<<c>>))>>)), Member(<<B>>, Arr(<<Str(<<A>>), Str(<<c, B>>)>>))>>) : c \in Char}
    \union {FewMembers}

Bodies ==
    {[kind |-> k, required |-> r, media |-> IF k = "json" THEN m ELSE Vendor, rows |-> <<>>, value |-> v] :
        k \in {"json", "multipart", "text", "bytes"}, r \in BOOLEAN, m \in {JsonMedia, Vendor}, v \in BodyPayloads}
    \union {[kind |-> "form", required |-> TRUE, media |-> FormMedia, rows |-> FormRows, value |-> Some(v)] : v \in FormValues}
\* What the type can be: a required body is set, and JSON and multipart bodies are never empty.
Possible(b) == /\ b.value = None => ~b.required
               /\ b.kind \in {"json", "multipart"} => b.value # Some(NoPayload)

TypeParams == {<<>>, <<Header(ContentType, TRUE, Some(Str(<<B>>)))>>, <<Header(ContentType, FALSE, None)>>,
               <<Header(ContentType, FALSE, Some(Str(JsonMedia)))>>,
               <<Header(AcceptName, FALSE, None), Header(X, TRUE, Some(Str(<<A>>)))>>,
               <<Header(AcceptName, FALSE, Some(Str(<<B>>)))>>}
OwnHeaders == {NoHeaders, ContentType :> <<Vendor>>, X :> <<<<A>>, <<B>>>>}

BodyCall(ps, b, o, a) == [Base EXCEPT !.params = ps, !.body = b, !.own = o, !.accept = a]
Small(b) == b.value = None \/ b.kind = "form" \/ b.value[1] \in {NoPayload, Full1}
Typical(b) == Small(b) /\ b.required
BodyCalls ==
    {BodyCall(<<>>, b, NoHeaders, None) : b \in {b \in Bodies : Possible(b)}}
    \union {BodyCall(ps, b, o, None) : ps \in TypeParams, o \in OwnHeaders,
               b \in {b \in Bodies : Possible(b) /\ Typical(b) /\ (b.kind = "form" => b.value[1] = FewMembers)}}
    \union {BodyCall(ps, b, o, Some(JsonMedia)) : ps \in TypeParams, o \in OwnHeaders,
               b \in {NoBody, [NoBody EXCEPT !.kind = "json", !.value = Some(Full1)],
                      [NoBody EXCEPT !.kind = "json"]}}

-----------------------------------------------------------------------------
(***************************************************************************)
(* Credentials, with parameters and headers under the same names.          *)
(***************************************************************************)
Requirements == {<<<<1>>>>, <<<<3, 4>>, <<5>>>>, <<<<>>, <<1, 2>>>>, <<<<4, 1>>, <<3>>, <<5, 3>>>>}
HeldSets == {[s \in DOMAIN MCPlaces |-> IF s \in held THEN Some(Token) ELSE None] : held \in SUBSET DOMAIN MCPlaces}
Scalar1(in, value) == [name |-> <<A>>, in |-> in, required |-> FALSE,
                       row |-> Row(IF in = "header" THEN "simple" ELSE "form", FALSE, "scalar", "str", FALSE),
                       value |-> value]
Taken == {<<>>, <<Scalar1("query", Some(Str(<<A, Space>>)))>>, <<Scalar1("cookie", Some(Str(<<Semi>>)))>>,
          <<Scalar1("cookie", None), Scalar1("query", None)>>, <<Header(X, TRUE, Some(Str(<<A>>)))>>}
OwnCookies == {NoHeaders, CookieName :> <<<<B, Eq, A>>, <<A, Eq, B>>>>, CookieName :> <<<<Space, A, Eq, B>>>>,
               CookieName :> <<<<B, Eq, A>>, <<B, Eq, Plus>>>>, X :> <<<<A>>, <<B>>>>}
Named(r, s) == \E n \in DOMAIN r : s \in ToSet(r[n])
CredentialCalls ==
    UNION {{[Base EXCEPT !.security = r, !.held = h, !.params = ps, !.own = o] :
               h \in {h \in HeldSets : \A s \in DOMAIN h : h[s] # None => Named(r, s)},
               ps \in Taken, o \in OwnCookies} : r \in Requirements}

-----------------------------------------------------------------------------
(***************************************************************************)
(* Answers.                                                                *)
(***************************************************************************)
Typed1 == [name |-> X, required |-> TRUE, row |-> Text]
Typed2 == [name |-> <<24>>, required |-> FALSE, row |-> Row("simple", FALSE, "array", "num", FALSE)]
Typed3 == [name |-> <<26>>, required |-> FALSE, row |-> Row("simple", FALSE, "array", "str", FALSE)]
Arm(exact, code, body) == [exact |-> exact, code |-> code, body |-> body, media |-> JsonMedia,
                           headers |-> <<Typed1, Typed2, Typed3>>]
ArmSets == {<<<<Arm(TRUE, 200, "json"), Arm(TRUE, 404, "empty"), Arm(FALSE, 2, "text"), Arm(FALSE, 4, "json")>>, None>>,
            <<<<Arm(TRUE, 200, "json"), Arm(FALSE, 4, "text")>>, Some(Arm(FALSE, 0, "json"))>>,
            <<<<Arm(TRUE, 302, "empty")>>, Some(Arm(FALSE, 0, "text"))>>,
            <<<<Arm(TRUE, 200, "empty"), Arm(FALSE, 4, "text"), Arm(FALSE, 4, "json")>>, None>>}
Statuses == {99, 200, 204, 299, 302, 400, 404, 500, 999, 1000}

TypedValues ==
    {<<None, None, None>>} \union
    {<<Some(Str(t)), None, None>> : t \in {<<>>, <<A>>, <<Digit>>, <<Comma>>, <<Space, A>>, <<Accent>>}} \union
    {<<None, Some(Arr(<<Num, Num>>)), Some(Arr(<<Str(t), Str(<<A>>)>>))>> :
        t \in {<<>>, <<B>>, <<Digit>>, <<A, Comma, B>>, <<B, Space>>, <<A, Space, B>>}} \union
    {<<Some(Str(<<A>>)), None, Some(Arr(<<>>))>>}
Raws == {NoHeaders, X :> <<<<B>>, <<A>>>>, (ContentType :> <<Vendor>>) @@ (X :> <<<<B>>>>)}

Answers == {[arm |-> n, status |-> status, typed |-> t, raw |-> NoHeaders] :
                n \in 0..4, status \in Statuses,
                t \in {<<None, None, None>>, <<Some(Str(<<A>>)), None, Some(Arr(<<Str(<<B>>)>>))>>}}
           \union {[arm |-> 1, status |-> status, typed |-> t, raw |-> w] :
                status \in {200, 302}, t \in TypedValues, w \in Raws}
AnswerCalls == {[Base EXCEPT !.arms = s[1], !.fallback = s[2], !.answer = a] : s \in ArmSets, a \in Answers}
\* An exact arm is answered with its own status, and the arm is one the operation has.
Typeable(c) == IF c.answer.arm = 0 THEN c.fallback # None
               ELSE /\ c.answer.arm \in DOMAIN c.arms
                    /\ c.arms[c.answer.arm].exact => c.answer.status = c.arms[c.answer.arm].code

MCCalls == StyleCalls \union BodyCalls \union CredentialCalls \union {c \in AnswerCalls : Typeable(c)}

\* A form whose member the description gives the `deepObject` row.
DeepRows == <<FormRow(<<A>>, "deep", TRUE, "object", TRUE), FormRow(<<B>>, "form", TRUE, "array", FALSE)>>
DeepForms == {[Base EXCEPT !.body = [kind |-> "form", required |-> TRUE, media |-> FormMedia,
                                     rows |-> DeepRows, value |-> Some(v)]] :
    v \in {Obj(<<Member(<<A>>, Obj(<<Member(<<B>>, Str(<<c>>))>>)), Member(<<B>>, Arr(<<Str(<<A>>), Str(<<c>>)>>))>>) : c \in Char}}

\* Bodies of every kind, required where they are set and absent where they are not.
OptionalBodies ==
    {[Base EXCEPT !.body = [b EXCEPT !.required = FALSE]] : b \in {b \in Bodies : Possible(b)}}

\* The cases that matter are among them.
ASSUME CallsCover ==
    /\ \E c \in MCCalls : c.body.kind = "multipart" /\ Len(c.params) > 0
    /\ \E c \in MCCalls : Len(c.security) = 3
=============================================================================
