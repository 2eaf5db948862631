------------------------------ MODULE Request ------------------------------
(***************************************************************************)
(* The calling side of one generated operation: what `send` assembles      *)
(* (render/client.rs) and the credentials it carries                       *)
(* (support/credentials.rs).                                               *)
(*                                                                         *)
(* `call` is the operation with one caller's inputs and does not change:   *)
(*   params    sequence of [name, in, required, row, value], value an      *)
(*             Option, in the order the description gives them             *)
(*   body      [kind, required, media, rows, value]: value an Option, of   *)
(*             an object for a form and of a payload otherwise             *)
(*   accept    the configured Accept header as an Option                   *)
(*   own       the headers set on the request                              *)
(*   security  sequence of alternatives, each a sequence of schemes        *)
(*   held      per scheme, an Option of its credential                     *)
(*   arms, fallback, answer    see Reply                                   *)
(***************************************************************************)
EXTENDS Style, TLC

CONSTANTS Calls,   \* the calls considered
          Places   \* per scheme, where its credential travels: [in, name]

\* The arms of an operation are sorted, exact ones first, and are not always one to
\* a status (`2XX` and `2xx` are two keys of a description); a handler can only
\* answer in an arm the operation has.
ASSUME CallsAssumption ==
    \A c \in Calls :
        /\ Len(c.arms) \in Nat /\ DOMAIN c.arms = 1..Len(c.arms)
        /\ \A k, m \in DOMAIN c.arms : c.arms[k].exact /\ ~c.arms[m].exact => k < m
        /\ \A k \in DOMAIN c.arms :
              c.arms[k].exact \in BOOLEAN /\ c.arms[k].body \in {"json", "text", "empty"}
        /\ c.fallback # <<>> => c.fallback[1].body \in {"json", "text", "empty"}
        /\ \/ c.answer.arm \in DOMAIN c.arms
           \/ c.answer.arm = 0 /\ c.fallback # <<>>

VARIABLES call, pc,
          request,    \* what is on the wire: [segment, query, headers, body]
          assembled   \* history: the request before credentials are applied

\* Header names and media types, as texts of their own.
AcceptName == <<21>>
ContentType == <<22>>
CookieName == <<23>>
JsonMedia == <<31>>
FormMedia == <<32>>
MultipartMedia == <<33>>

(***************************************************************************)
(* http::HeaderMap: each name with its values in order.                    *)
(***************************************************************************)
NoHeaders == [name \in {} |-> <<>>]
Carries(headers, name) == name \in DOMAIN headers
Values(headers, name) == IF Carries(headers, name) THEN headers[name] ELSE <<>>
Inserted(headers, name, value) == (name :> <<value>>) @@ headers
Appended(headers, name, value) == (name :> Append(Values(headers, name), value)) @@ headers
InsertedIfAbsent(headers, name, value) ==
    IF Carries(headers, name) THEN headers ELSE Inserted(headers, name, value)
Replaced(headers, others) == others @@ headers

-----------------------------------------------------------------------------
(***************************************************************************)
(* Reading the inputs. An unset optional one contributes nothing.          *)
(***************************************************************************)
At(location) == SelectSeq(call.params, LAMBDA p : p.in = location)
Set(params) == SelectSeq(params, LAMBDA p : p.value # None)
Declares(name) == \E k \in DOMAIN call.params :
                      call.params[k].in = "header" /\ call.params[k].name = name
SetParam(name) == \E k \in DOMAIN call.params :
                      /\ call.params[k].in = "header" /\ call.params[k].name = name
                      /\ call.params[k].value # None

Segment ==
    LET parts == At("path")
    IN  IF parts = <<>> THEN <<A>> ELSE WriteSegment(parts[1].name, parts[1].value[1], parts[1].row)
Unsendable == {<<>>, <<Dot>>, <<Dot, Dot>>}

PairsOf(params) ==
    FlattenSeq([k \in DOMAIN params |->
        QueryPairs(params[k].name, params[k].value[1], params[k].row.style, params[k].row.explode)])
QueryParams(reserved) == SelectSeq(Set(At("query")), LAMBDA p : p.row.reserved = reserved)

\* A query text with pairs appended behind it.
Extended(query, pairs) ==
    CASE pairs = <<>> -> query
      [] pairs # <<>> /\ query = <<>> -> QueryText(pairs)
      [] OTHER -> query \o <<Amp>> \o QueryText(pairs)

ReservedText == Extended(<<>>, LET pairs == PairsOf(QueryParams(TRUE))
                               IN  [k \in DOMAIN pairs |-> ReservedPair(pairs[k])])

HeaderSet(headers, p) ==
    CASE p.value # None -> Appended(headers, p.name, HeaderText(p.value[1], p.row.explode))
      [] p.value = None /\ p.name = AcceptName /\ call.accept # None ->
            Appended(headers, AcceptName, call.accept[1])
      [] OTHER -> headers

JoinCrumbs(crumbs) ==
    FlattenSeq([k \in DOMAIN crumbs |-> IF k = 1 THEN crumbs[k] ELSE <<Semi, Space>> \o crumbs[k]])
Crumbs == LET cookies == Set(At("cookie"))
          IN  [k \in DOMAIN cookies |-> CookiePair(cookies[k].name, cookies[k].value[1])]

BodyType(headers, media) ==
    IF SetParam(ContentType) THEN headers ELSE Appended(headers, ContentType, media)

\* A multipart body writes its own type, with the boundary, whatever is declared.
Typed(headers) ==
    CASE call.body.kind = "json" ->
            InsertedIfAbsent(IF call.body.media = JsonMedia THEN headers
                             ELSE BodyType(headers, call.body.media), ContentType, JsonMedia)
      [] call.body.kind = "form" -> BodyType(headers, FormMedia)
      [] call.body.kind = "multipart" -> Appended(headers, ContentType, MultipartMedia)
      [] call.body.kind \in {"text", "bytes"} -> BodyType(headers, call.body.media)

NoPayload == [size |-> 0, text |-> <<>>]
Payload ==
    IF call.body.kind = "form"
    THEN LET text == FormBody(call.body.value[1], call.body.rows)
         IN  [size |-> Len(text), text |-> text]
    ELSE call.body.value[1]

-----------------------------------------------------------------------------
(***************************************************************************)
(* Credentials: the first alternative held in full, each credential of it  *)
(* where the request does not already carry that name.                     *)
(***************************************************************************)
Full(alternative) == \A k \in DOMAIN alternative : call.held[alternative[k]] # None

\* Mutant: an alternative held in part is met, with what is held of it.
HeldOf(alternative) == SelectSeq(alternative, LAMBDA scheme : call.held[scheme] # None)
ChosenPartly(security) ==
    SelectSeq([k \in DOMAIN security |-> HeldOf(security[k])], LAMBDA schemes : schemes # <<>>)
Chosen(security) == SelectSeq(security, LAMBDA schemes : schemes # <<>> /\ Full(schemes))

CookieOctets(text) == [k \in DOMAIN text |->
    IF text[k] \in {Space, Comma, Semi, Percent} THEN Escaped + text[k] ELSE text[k]]

HasCookie(lines, name) ==
    \E k \in DOMAIN lines : LET crumbs == Split(lines[k], Semi)
                            IN  \E m \in DOMAIN crumbs : Trim(KeyOf(crumbs[m])) = name

AddCookie(headers, name, value) ==
    LET lines == Values(headers, CookieName)
        crumb == name \o <<Eq>> \o CookieOctets(value)
    IN  IF HasCookie(lines, name) THEN headers
        ELSE Inserted(headers, CookieName, JoinCrumbs(Append(lines, crumb)))

Carrying(sent, scheme) ==
    LET place == Places[scheme]
        value == call.held[scheme][1]
    IN  CASE place.in = "header" ->
                [sent EXCEPT !.headers = InsertedIfAbsent(@, place.name, value)]
          [] place.in = "query" /\ Mine(SplitQuery(sent.query, TRUE), place.name) = <<>> ->
                [sent EXCEPT !.query = Extended(@, <<FormPair(<<place.name, value>>)>>)]
          [] place.in = "cookie" ->
                [sent EXCEPT !.headers = AddCookie(@, place.name, value)]
          [] OTHER -> sent

Apply(sent) ==
    IF Chosen(call.security) = <<>> THEN sent ELSE FoldLeft(Carrying, sent, Chosen(call.security)[1])

-----------------------------------------------------------------------------
(***************************************************************************)
(* `send`, in the order the generated method runs.                         *)
(***************************************************************************)
WritePath ==
    /\ pc = "path"
    /\ IF Segment \in Unsendable
       THEN pc' = "unsendable" /\ UNCHANGED request
       ELSE /\ pc' = "query"
            /\ request' = [request EXCEPT !.segment = Segment, !.query = ReservedText]
    /\ UNCHANGED <<call, assembled>>

WriteQuery ==
    /\ pc = "query"
    /\ LET pairs == PairsOf(QueryParams(FALSE))
       IN  request' = [request EXCEPT
               !.query = Extended(@, [k \in DOMAIN pairs |-> FormPair(pairs[k])])]
    /\ pc' = "headers"
    /\ UNCHANGED <<call, assembled>>

WriteHeaders ==
    /\ pc = "headers"
    /\ LET set == FoldLeft(HeaderSet, request.headers, At("header"))
           cookies == IF Crumbs = <<>> THEN set ELSE Appended(set, CookieName, JoinCrumbs(Crumbs))
       IN  request' = [request EXCEPT !.headers =
               IF call.accept = None \/ Declares(AcceptName) THEN cookies
               ELSE Appended(cookies, AcceptName, call.accept[1])]
    /\ pc' = "body"
    /\ UNCHANGED <<call, assembled>>

WriteBody ==
    /\ pc = "body"
    /\ request' = IF call.body.kind = "none" \/ call.body.value = None THEN request
                  ELSE [request EXCEPT !.headers = Typed(@), !.body = Payload]
    /\ pc' = "own"
    /\ UNCHANGED <<call, assembled>>

\* The headers set on the request replace the assembled ones of the same name.
SetOwn ==
    /\ pc = "own"
    /\ request' = [request EXCEPT !.headers = Replaced(@, call.own)]
    /\ assembled' = request'
    /\ pc' = "execute"
    /\ UNCHANGED call

Execute ==
    /\ pc = "execute"
    /\ request' = Apply(request)
    /\ pc' = "sent"
    /\ UNCHANGED <<call, assembled>>

Send == WritePath \/ WriteQuery \/ WriteHeaders \/ WriteBody \/ SetOwn \/ Execute
=============================================================================
