--------------------------- MODULE MCOperations ---------------------------
(* Documents whose operations want each other's names, the names of each    *)
(* other's types or of the module's, and documents whose paths one router   *)
(* cannot hold together.                                                    *)
EXTENDS Operations

Words(texts) == [i \in DOMAIN texts |-> <<texts[i]>>]
Literal(text) == [is |-> "text", name |-> Words(<<text>>)]
OldVariable(text) == [is |-> "capture", name |-> Words(<<text>>)]
Variable(text) == [is |-> "variable", name |-> Words(<<text>>)]
Route(segments) == [rooted |-> TRUE, balanced |-> TRUE, segments |-> segments]

Param(name, in, required, defined) ==
    [name |-> Words(<<name>>), in |-> in, required |-> required, defined |-> defined]

Arm(status, words, headers) ==
    [status |-> status, name |-> Capitals(words), headers |-> headers]
BadRequest == Arm("exact", <<"bad", "request">>, TRUE)
ServerError == Arm("exact", <<"internal", "server", "error">>, TRUE)
AnyStatus == Arm("range", <<"status", "xx">>, TRUE)
Fallback == Arm("default", <<"default">>, TRUE)
NoContent == Arm("exact", <<"no", "content">>, FALSE)

Media(base, wildcard, suffix) ==
    [base |-> base, wildcard |-> wildcard, suffix |-> Words(<<suffix>>)]
Json == Media("json", FALSE, "json")
FormData == Media("form", FALSE, "form")
AnyMedia == Media("any", TRUE, "any")

Operation(id, arms, content, pick) ==
    [id |-> id, method |-> "get", params |-> {}, arms |-> arms, content |-> content,
     pick |-> pick, security |-> << >>]
Bare(id) == Operation(id, <<NoContent>>, << >>, 0)

\* Identifiers that meet in their own spelling, in their stem, in the folded stem, after
\* a number, after a sibling's suffix, and types that meet a response's.
Wanting == {
    Bare(<<<<"x", "1">>>>), Bare(<<<<"x">>, <<"1">>>>), Bare(<<<<"x">>, <<"1", "2">>>>),
    Bare(<<<<"a">>, <<"b">>>>), Bare(<<<<"a", "b">>>>),
    Bare(Words(<<"decode">>)), Bare(<<<<"decode", "2">>>>),
    Bare(Words(<<"body", "read">>)),
    Operation(<<<<"type">>, << >>>>, <<NoContent>>, <<Json, FormData, FormData, AnyMedia>>, 0),
    Operation(Words(<<"type", "form">>), <<NoContent>>, <<AnyMedia, Json>>, 2),
    Operation(Words(<<"foo">>), <<AnyStatus, BadRequest, AnyStatus, ServerError, Fallback>>, << >>, 0),
    Operation(Words(<<"foo", "bad">>), <<Arm("exact", <<"request">>, TRUE)>>, << >>, 0),
    Bare(Words(<<"foo", "internal", "server">>)),
    [Bare(Words(<<"with", "key">>)) EXCEPT !.security = <<{{"key"}, {"digest"}}>>],
    Bare(<<<< >>, <<"2", "x">>>>)}

Root == Route(<<<<Literal("v")>>>>)
PathOf(route, operations) == [route |-> route, params |-> {}, operations |-> operations]

Crowded == {[paths |-> <<PathOf(Root, <<p, [q EXCEPT !.method = "put"],
                                      [r EXCEPT !.method = "post"]>>)>>,
             schemes |-> <<"key", "client">>, security |-> {}] :
                p \in Wanting, q \in Wanting, r \in Wanting}

VarX == Variable("x")
VarY == Variable("y")
Routes == {
    Route(<<<<Literal("a")>>, <<VarX>>>>), Route(<<<<Literal("a")>>, <<VarY>>>>),
    Route(<<<<Literal("a")>>, <<VarX, Literal("png")>>>>), Route(<<<<Literal("a")>>, <<Literal("s"), VarY>>>>),
    Route(<<<<OldVariable("a")>>>>), Route(<<<<Literal("a")>>, <<Literal("me")>>>>),
    Route(<<<<VarX>>, <<VarX>>>>), [Route(<<<<VarX>>>>) EXCEPT !.balanced = FALSE],
    Route(<<<<Variable("z")>>>>)}

\* What the operations of a path declare: nothing of their own, a parameter that replaces
\* the path's, one that cannot be written, and one that need not be.
DeclaredParams == {
    {}, {Param("x", "path", TRUE, TRUE), Param("q", "query", FALSE, FALSE)},
    {Param("q", "query", TRUE, FALSE)}, {Param("y", "path", FALSE, FALSE)}}

Asked(route, method, params) ==
    [route |-> route, params |-> {Param("x", "path", TRUE, TRUE), Param("y", "path", TRUE, TRUE)},
     operations |-> <<[Bare(<< >>) EXCEPT !.method = method, !.params = params],
                      [Bare(<< >>) EXCEPT !.method = "delete"]>>]

Contested == {[paths |-> <<Asked(r, "get", d), Asked(s, m, {}), Asked(t, "get", {})>>,
               schemes |-> <<"key", "client">>, security |-> {{"client"}}] :
                    r \in Routes, s \in Routes, t \in Routes,
                    m \in {"get", "post"}, d \in DeclaredParams}

MCDescriptions == Crowded \cup {d \in Contested :
    /\ IsInjective([i \in 1..3 |-> d.paths[i].route])
    /\ d.paths[2].operations[1].method = "post" => d.paths[1].operations[1].params = {}}
MCReserved == {<<"type">>}

============================================================================
