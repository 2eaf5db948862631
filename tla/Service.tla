------------------------------ MODULE Service ------------------------------
(***************************************************************************)
(* The serving side of the same operation: the generated handler of        *)
(* render/server.rs over support/router.rs and support/serve.rs. The       *)
(* request arrives as it was written; the handler either runs with what    *)
(* was read or the request is rejected before it.                          *)
(***************************************************************************)
EXTENDS Request

CONSTANT BodyLimit   \* the largest body the server holds

VARIABLES seen,        \* the parameters read so far, in reading order
          seenBody,    \* the body read: an Option, as for the caller
          rejection    \* why the request was refused, or "none"

Reading == At("path") \o At("query") \o At("header") \o At("cookie")

(***************************************************************************)
(* Incoming: one parameter out of the request, as the value its row        *)
(* spells, or nothing. A header outside visible ASCII is unreadable.       *)
(***************************************************************************)
Readable(text) == \A k \in DOMAIN text : text[k] # Accent

CookieValues(line, p) ==
    LET crumbs == Split(line, Semi)
        mine == SelectSeq(crumbs, LAMBDA crumb :
                    SplitOnce(crumb, Eq) # None /\ Trim(KeyOf(crumb)) = p.name)
    IN  [k \in DOMAIN mine |-> FromCookie(Trim(ValueOf(mine[k])), p.row)]

\* The first element of a sequence, as an Option.
FirstOf(values) == IF values = <<>> THEN None ELSE Some(values[1])

Found(p) ==
    CASE p.in = "path" -> Some(FromPath(request.segment, p.name, p.row))
      [] p.in = "query" -> FromQuery(request.query, p.name, p.row)
      [] p.in = "header" ->
            LET values == Values(request.headers, p.name)
            IN  IF values = <<>> THEN None ELSE Some(FromHeader(values[1], p.row))
      [] p.in = "cookie" -> LET lines == Values(request.headers, CookieName)
            IN  FirstOf(FlattenSeq([k \in DOMAIN lines |-> CookieValues(lines[k], p)]))

UnreadableParam(p) ==
    LET lines == Values(request.headers, IF p.in = "cookie" THEN CookieName ELSE p.name)
    IN  CASE p.in = "header" -> lines # <<>> /\ ~Readable(lines[1])
          [] p.in = "cookie" -> \E k \in DOMAIN lines :
                /\ ~Readable(lines[k])
                /\ \A m \in 1..(k - 1) : CookieValues(lines[m], p) = <<>>
          [] OTHER -> FALSE

\* serve::read: what the handler gets, and whether the parameter is refused.
Missing(p) == Found(p) = None /\ p.required
Invalid(p) == Found(p) # None /\ ~Fits(ReadBy(Found(p)[1], p.row), p.row)
ReadValue(p) == IF Found(p) = None THEN None ELSE Some(ReadBy(Found(p)[1], p.row))

(***************************************************************************)
(* The media type gate. It stands down where the description declares a    *)
(* Content-Type parameter, and passes a request that names no type.        *)
(***************************************************************************)
Admitted == CASE call.body.kind = "json" -> {call.body.media}
              [] call.body.kind = "form" -> {FormMedia}
              [] call.body.kind = "multipart" -> {MultipartMedia}
              [] OTHER -> {call.body.media}
\* Mutant: a request that names no type is refused.
MismatchedStrictly == Values(request.headers, ContentType) = <<>>
                      \/ request.headers[ContentType][1] \notin Admitted
Mismatched == /\ Values(request.headers, ContentType) # <<>>
              /\ request.headers[ContentType][1] \notin Admitted

\* A body of no bytes is an absent one.
TooLarge == request.body.size > BodyLimit
NoBoundary == call.body.kind = "multipart"
              /\ FirstOf(Values(request.headers, ContentType)) # Some(MultipartMedia)

\* The members of a form the description declares, each read by its row.
Members(object) ==
    LET declared == SelectSeq(object.members, LAMBDA m : RowsOf(call.body.rows, m.key) # <<>>)
        rowOf(m) == RowsOf(call.body.rows, m.key)[1]
    IN  [k \in DOMAIN declared |->
            Member(declared[k].key, ReadBy(declared[k].value, rowOf(declared[k])))]

FormFits(members) ==
    \A k \in DOMAIN call.body.rows :
        LET row == call.body.rows[k]
            mine == SelectSeq(members, LAMBDA m : m.key = row.name)
        IN  IF mine = <<>> THEN ~row.required ELSE Fits(mine[1].value, row)

FormMembers == Members(QueryObject(request.body.text, call.body.rows))
BadForm == call.body.kind = "form" /\ request.body.size > 0 /\ ~FormFits(FormMembers)

BodyValue == CASE request.body.size = 0 -> None
               [] request.body.size > 0 /\ call.body.kind = "form" -> Some(Obj(FormMembers))
               [] OTHER -> Some(request.body)

-----------------------------------------------------------------------------
Reject(why) ==
    /\ rejection' = why
    /\ pc' = "rejected"
    /\ UNCHANGED <<call, request, assembled, seen, seenBody>>

\* The context is extracted first, and may answer by itself.
ExtractContext ==
    /\ pc = "sent"
    /\ pc' \in {"params", "refused"}
    /\ UNCHANGED <<call, request, assembled, seen, seenBody, rejection>>

Current == Reading[Len(seen) + 1]

ReadParam ==
    /\ pc = "params"
    /\ Len(seen) < Len(Reading)
    /\ ~UnreadableParam(Current) /\ ~Missing(Current) /\ ~Invalid(Current)
    /\ seen' = Append(seen, ReadValue(Current))
    /\ UNCHANGED <<call, pc, request, assembled, seenBody, rejection>>

RefuseParam ==
    /\ pc = "params"
    /\ Len(seen) < Len(Reading)
    /\ \/ UnreadableParam(Current) /\ Reject("invalid")
       \/ ~UnreadableParam(Current) /\ Missing(Current) /\ Reject("missing")
       \/ ~UnreadableParam(Current) /\ Invalid(Current) /\ Reject("invalid")

PassGate ==
    /\ pc = "params"
    /\ Len(seen) = Len(Reading)
    /\ IF call.body.kind = "none" \/ Declares(ContentType) \/ ~Mismatched
       THEN /\ pc' = "read_body"
            /\ UNCHANGED <<call, request, assembled, seen, seenBody, rejection>>
       ELSE Reject("media")

ReadBody ==
    /\ pc = "read_body"
    /\ CASE call.body.kind = "none" ->
              pc' = "handle" /\ UNCHANGED <<call, request, assembled, seen, seenBody, rejection>>
         [] call.body.kind # "none" /\ (NoBoundary \/ TooLarge \/ BadForm) -> Reject("body")
         [] call.body.kind # "none" /\ ~(NoBoundary \/ TooLarge \/ BadForm) /\ BodyValue = None
              /\ call.body.required -> Reject("no_body")
         [] OTHER ->
              /\ seenBody' = BodyValue
              /\ pc' = "handle"
              /\ UNCHANGED <<call, request, assembled, seen, rejection>>

Serve == ExtractContext \/ ReadParam \/ RefuseParam \/ PassGate \/ ReadBody
=============================================================================
