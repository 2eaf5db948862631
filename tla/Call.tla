-------------------------------- MODULE Call --------------------------------
(***************************************************************************)
(* One call through both generated halves: the client assembles and sends  *)
(* the request, the server reads it, the handler answers, and the client   *)
(* decodes the answer.                                                     *)
(***************************************************************************)
EXTENDS Reply

vars == <<call, pc, request, assembled, seen, seenBody, rejection, reply, outcome>>

NoRequest == [segment |-> <<>>, query |-> <<>>, headers |-> NoHeaders, body |-> NoPayload]

Init ==
    /\ call \in Calls
    /\ pc = "path"
    /\ request = NoRequest /\ assembled = NoRequest
    /\ seen = <<>> /\ seenBody = None /\ rejection = "none"
    /\ reply = Refusal /\ outcome = [result |-> "none", arm |-> 0, headers |-> <<>>]

Next ==
    \/ Send /\ UNCHANGED <<seen, seenBody, rejection, reply, outcome>>
    \/ Serve /\ UNCHANGED <<reply, outcome>>
    \/ Answer

Spec == Init /\ [][Next]_vars

-----------------------------------------------------------------------------
(***************************************************************************)
(* What a row can spell: the texts its separators leave whole.             *)
(***************************************************************************)
Cuts(p) ==
    LET flat == p.row.shape = "object" /\ ~p.row.explode
    IN  CASE p.in = "query" /\ p.row.shape = "array" /\ ~p.row.explode -> {Separator(p.row.style)}
          [] p.in = "query" /\ p.row.style = "form" /\ flat -> {Comma}
          [] p.in = "path" /\ p.row.style = "matrix" ->
                {Semi} \union (IF p.row.shape = "scalar" \/ p.row.explode THEN {} ELSE {Comma})
                       \union (IF flat THEN {Eq} ELSE {})
          [] p.in = "path" /\ p.row.style # "matrix" /\ p.row.shape # "scalar" ->
                {IF p.row.style = "label" /\ p.row.explode THEN Dot ELSE Comma}
                \union (IF flat THEN {Eq} ELSE {})
          [] p.in = "header" ->
                {Accent} \union (IF p.row.shape = "scalar" THEN {} ELSE {Comma})
                         \union (IF flat THEN {Eq} ELSE {})
          [] OTHER -> {}

LeavesOf(v) == CASE v.kind = "arr" -> v.items
                 [] v.kind = "obj" -> [k \in DOMAIN v.members |-> v.members[k].value]
                 [] OTHER -> <<v>>

\* An exploded form object loses the parameter's name, and an empty array is no value.
Erased(p) == p.in \in {"query", "cookie"} /\ p.row.style = "form" /\ p.row.explode
             /\ p.row.shape = "object"
Spells(p, v) ==
    /\ ~(p.in = "query" /\ Erased(p))
    /\ v.kind = "arr" => v.items # <<>>
    /\ v.kind = "obj" /\ p.in = "query" => v.members # <<>>
    /\ \A k \in DOMAIN LeavesOf(v) :
          LET text == Scalar(LeavesOf(v)[k])
          IN  /\ \A m \in DOMAIN text : text[m] \notin Cuts(p)
              /\ p.in = "header" => ~Padded(text)
              /\ p.in = "query" /\ p.row.reserved => \A m \in DOMAIN text : text[m] # Percent

\* Something other than the caller's value for the parameter writes its name.
Credentialed(in, name) == \E s \in DOMAIN Places :
    Places[s].in = in /\ Places[s].name = name /\ call.held[s] # None
WrittenElsewhere(p) ==
    \/ p.in = "header" /\ Carries(call.own, p.name)
    \/ p.in = "cookie" /\ Carries(call.own, CookieName)
    \/ p.value = None /\ Credentialed(p.in, p.name)
    \/ p.value = None /\ p.in = "header" /\ p.name = AcceptName /\ call.accept # None
    \/ p.value = None /\ p.in = "header" /\ p.name = ContentType /\ call.body.value # None

Arrives(p) == /\ ~WrittenElsewhere(p)
              /\ p.value # None => Spells(p, p.value[1])
              /\ p.in = "cookie" => Encode(p.name) = p.name

FormValue == call.body.kind = "form" /\ call.body.value # None
FormSpells ==
    FormValue => \A k \in DOMAIN call.body.value[1].members :
        LET m == call.body.value[1].members[k]
        IN  Spells([in |-> "query", row |-> RowsOf(call.body.rows, m.key)[1]], m.value)

-----------------------------------------------------------------------------
(***************************************************************************)
(* Properties.                                                             *)
(***************************************************************************)

\* What reaches the handler is what the caller set, parameter by parameter and
\* with its type, and the body it sent: the rows of style.rs and the plans of
\* serve.rs read back what they wrote, whatever else the request carries.
HandlerSeesWhatWasSent ==
    pc = "handle" =>
        /\ Len(seen) = Len(Reading)
        /\ \A k \in DOMAIN Reading : Arrives(Reading[k]) => seen[k] = Reading[k].value
        /\ FormValue /\ FormSpells /\ call.body.value[1].members # <<>> =>
                seenBody = call.body.value
        /\ ~FormValue => seenBody = IF call.body.value = None \/ call.body.value[1].size = 0
                                    THEN None ELSE call.body.value

\* A server rejects a request of the client generated beside it only for what the
\* wire cannot carry: a value its row cannot spell, a header the caller put in
\* the place of an assembled one, a required body of no bytes, or one past the
\* limit. server.rs: "refusing what the description invites would reject the
\* generated client's own requests". A multipart body beside a set Content-Type
\* parameter, whose two types are both sent, is one of the exceptions.
OwnRequestsAccepted ==
    CASE rejection \in {"missing", "invalid"} -> \E k \in DOMAIN Reading : ~Arrives(Reading[k])
      [] rejection = "media" -> Carries(call.own, ContentType)
      [] rejection = "no_body" -> request.body.size = 0
      [] rejection = "body" ->
            \/ request.body.size > BodyLimit
            \/ ~FormSpells
            \/ /\ call.body.kind = "multipart"
               /\ \/ SetParam(ContentType) \/ Carries(call.own, ContentType)
                  \/ call.body.value = None
      [] rejection = "none" -> TRUE

CredentialAt(sent, place) ==
    CASE place.in = "header" -> Values(sent.headers, place.name)
      [] place.in = "query" -> Mine(SplitQuery(sent.query, TRUE), place.name)
      [] place.in = "cookie" ->
            LET lines == Values(sent.headers, CookieName)
                cookie == [name |-> place.name, row |-> [shape |-> "scalar"]]
                found == FlattenSeq([k \in DOMAIN lines |-> CookieValues(lines[k], cookie)])
            IN  [k \in DOMAIN found |-> found[k].text]
WirePlaces ==
    {[in |-> "header", name |-> n] : n \in (DOMAIN request.headers \union DOMAIN assembled.headers) \ {CookieName}}
    \union {[in |-> in, name |-> n] : in \in {"query", "cookie"}, n \in {<<A>>, <<B>>}}

\* A request carries every credential of the first alternative held in full, and
\* none of any other; whatever it carried before under one of those names, or
\* under any other, it carries unchanged (credentials.rs, send and apply).
CredentialsAllOrNothing ==
    pc \in {"sent", "params", "refused"} =>
        LET met == {n \in DOMAIN call.security : call.security[n] # <<>> /\ Full(call.security[n])}
            first == CHOOSE n \in met : \A m \in met : n <= m
            chosen == IF met = {} THEN <<>> ELSE call.security[first]
            before(place) == CredentialAt(assembled, place)
            at(place) == {k \in DOMAIN chosen : Places[chosen[k]] = place}
            given(place) == LET k == CHOOSE k \in at(place) : \A m \in at(place) : k <= m
                            IN  call.held[chosen[k]]
        IN  /\ request.segment = assembled.segment /\ request.body = assembled.body
            /\ met = {} => request = assembled
            /\ \A k \in DOMAIN chosen : CredentialAt(request, Places[chosen[k]]) # <<>>
            /\ \A place \in WirePlaces :
                  CredentialAt(request, place) =
                      IF before(place) # <<>> \/ at(place) = {} THEN before(place) ELSE given(place)

\* The status a client decodes by is the status the handler answered with, read
\* as the arm it answered with, or as the first of the arms a description declares
\* for that status; an answer in an arm that does not own its status is the
\* server's 500. Server and client decide ownership in code of their own.
SameArm ==
    pc = "done" =>
        LET owners == {k \in DOMAIN call.arms : call.arms[k].exact /\ call.arms[k].code = call.answer.status}
            classes == {k \in DOMAIN call.arms : ~call.arms[k].exact
                                                 /\ call.arms[k].code = Class(call.answer.status)}
            owner == IF owners # {} THEN owners ELSE IF classes # {} THEN classes ELSE {0}
        IN  /\ reply # Refusal => /\ call.answer.arm \in owner
                                  /\ reply.status = call.answer.status
                                  /\ outcome.arm \in owner
                                  /\ \A k \in owner : outcome.arm <= k
                                  /\ outcome.arm = call.answer.arm /\ outcome.result = "decode" =>
                                        call.answer.status = 204
            /\ reply = Refusal => \/ call.answer.arm \notin owner
                                  \/ ~HttpStatus(call.answer.status)
                                  \/ Defective

\* A header a handler answers with is the header the client reads: the raw value
\* where the handler wrote one, else the typed value, and nothing where it wrote
\* neither; the list elements a reader would split or trim never leave the
\* server, whose reply then carries none of the arm's headers. (The client reads
\* the headers of the arm it picked: see SameArm.)
HeadersReadBack ==
    pc = "done" =>
        \A k \in DOMAIN Answered.headers :
            LET h == Answered.headers[k]
            IN  IF reply = Refusal THEN Values(reply.headers, h.name) = <<>>
                ELSE /\ Carries(call.answer.raw, h.name) =>
                            Values(reply.headers, h.name) = call.answer.raw[h.name]
                     /\ ~Carries(call.answer.raw, h.name) /\ outcome.arm = call.answer.arm =>
                            /\ outcome.headers[k].value = call.answer.typed[k]
                            /\ outcome.headers[k].problem =
                                  (h.required /\ call.answer.typed[k] = None)

\* style.rs says of query_object that it is "the inverse of `form_body`, member
\* by member, through the same rows": a form body whose members their rows can
\* spell reaches the handler as it was sent.
FormMembersArrive ==
    FormValue /\ FormSpells =>
        /\ pc = "handle" => seenBody = call.body.value
        /\ rejection # "body"

\* router.rs says of a body of no bytes that "'absent' is the reading that lets an
\* optional body be optional": an optional body the caller leaves out is never
\* the reason its request is refused.
OptionalBodyIsOptional ==
    call.body.value = None /\ ~call.body.required => rejection \notin {"no_body", "body"}
=============================================================================
