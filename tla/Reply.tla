------------------------------- MODULE Reply -------------------------------
(***************************************************************************)
(* The answer of a handler on its way back: the arm and headers the        *)
(* generated server writes (render/server.rs over support/router.rs) and   *)
(* the arm and headers the generated client decodes (render/client.rs over *)
(* support/http.rs).                                                       *)
(*                                                                         *)
(*   call.arms      sequence of arms [exact, code, body, media, headers],  *)
(*                  exact ones first; a range arm has its class in code    *)
(*   call.fallback  the `default` arm as an Option                         *)
(*   call.answer    what the handler returns: [arm, status, typed, raw],   *)
(*                  arm 0 being the fallback, typed an Option per header   *)
(* A header is [name, required, row], its row giving shape and plan.       *)
(***************************************************************************)
EXTENDS Service

VARIABLES reply,    \* [status, headers, body, from] once written; from is the arm
          outcome   \* what the client makes of it: [result, arm, headers]

ArmOf(n) == IF n = 0 THEN call.fallback[1] ELSE call.arms[n]
Answered == ArmOf(call.answer.arm)

-----------------------------------------------------------------------------
(***************************************************************************)
(* ResponseHeaders: typed headers, under the handler's raw ones.           *)
(***************************************************************************)
Padded(text) == text # <<>> /\ (text[1] = Space \/ Last(text) = Space)

\* Mutant: an element may hold a comma.
HeaderElementWide(v) == v.kind = "num" \/ (v.kind = "str" /\ v.text # <<>> /\ ~Padded(v.text))
HeaderElement(v) == \/ v.kind = "num"
                    \/ /\ v.kind = "str" /\ v.text # <<>>
                       /\ \A k \in DOMAIN v.text : v.text[k] # Comma
                       /\ ~Padded(v.text)

Defect(v, list) ==
    \/ v.kind = "obj"
    \/ v.kind = "arr" /\ ~list
    \/ v.kind = "arr" /\ \E k \in DOMAIN v.items : ~HeaderElement(v.items[k])
    \/ v.kind = "str" /\ Padded(v.text)
    \/ ~Readable(HeaderText(v, FALSE))

\* The typed headers of an arm that the raw ones leave to it.
Own == LET of == call.answer IN {k \in DOMAIN Answered.headers :
           of.typed[k] # None /\ ~Carries(of.raw, Answered.headers[k].name)}
Defective == \E k \in Own :
    Defect(call.answer.typed[k][1], Answered.headers[k].row.shape = "array")

TypedHeaders == [name \in {Answered.headers[k].name : k \in Own} |->
    LET k == CHOOSE n \in Own : Answered.headers[n].name = name
    IN  <<HeaderText(call.answer.typed[k][1], FALSE)>>]

MediaHeaders == IF Answered.body = "empty" \/ call.answer.status = 204 THEN NoHeaders
                ELSE ContentType :> <<Answered.media>>

Attached == Replaced(MediaHeaders, Replaced(TypedHeaders, call.answer.raw))

(***************************************************************************)
(* The statuses an arm may be answered with: an exact arm its own, a range *)
(* arm its class less the exact arms in it, `default` what none claims.    *)
(***************************************************************************)
Class(status) == status \div 100
Exactly(status) == \E k \in DOMAIN call.arms : call.arms[k].exact /\ call.arms[k].code = status
InRange(status) == \E k \in DOMAIN call.arms :
                       ~call.arms[k].exact /\ call.arms[k].code = Class(status)

\* Mutant: a range arm is answered with a status an exact arm claims.
CoversLoosely(n, status) ==
    CASE n = 0 -> ~Exactly(status) /\ ~InRange(status)
      [] n # 0 /\ ArmOf(n).exact -> status = ArmOf(n).code
      [] OTHER -> Class(status) = ArmOf(n).code
Covers(n, status) ==
    CASE n = 0 -> ~Exactly(status) /\ ~InRange(status)
      [] n # 0 /\ ArmOf(n).exact -> status = ArmOf(n).code
      [] OTHER -> Class(status) = ArmOf(n).code /\ ~Exactly(status)

HttpStatus(status) == status \in 100..999

\* A refused answer is the server's own failure, without the arm's headers.
Refusal == [status |-> 500, headers |-> ContentType :> <<JsonMedia>>, body |-> "message", from |-> 0]

WriteReply ==
    /\ pc = "handle"
    /\ LET answer == call.answer
       IN  reply' = IF ~Covers(answer.arm, answer.status) \/ ~HttpStatus(answer.status) \/ Defective
                    THEN Refusal
                    ELSE [status |-> answer.status, headers |-> Attached,
                          body |-> IF answer.status = 204 THEN "empty" ELSE Answered.body,
                          from |-> answer.arm]
    /\ pc' = "dispatch"
    /\ UNCHANGED <<call, request, assembled, seen, seenBody, rejection, outcome>>

-----------------------------------------------------------------------------
(***************************************************************************)
(* The client's match on the status, an exact arm before a range.          *)
(***************************************************************************)
Matching(status) == {k \in DOMAIN call.arms :
    IF call.arms[k].exact THEN call.arms[k].code = status ELSE call.arms[k].code = Class(status)}

Pick(status) ==
    CASE Matching(status) # {} -> CHOOSE k \in Matching(status) : \A m \in Matching(status) : k <= m
      [] Matching(status) = {} /\ call.fallback # None -> 0
      [] OTHER -> -1

Succeeds(n, status) ==
    /\ status \in 200..299
    /\ n = 0 => \A k \in DOMAIN call.arms :
                    Class(call.arms[k].code) # 2 /\ (call.arms[k].exact \/ call.arms[k].code # 2)

\* What the arm's decoder makes of the body: a JSON arm needs one, an empty arm has none.
Decodes(arm, body) == CASE arm.body = "json" -> body \in {"json", "message"}
                        [] arm.body = "empty" -> body = "empty"
                        [] arm.body = "text" -> TRUE

HeaderScalar(text, plan) == Leaf(Str(text), plan)
HeaderElements(fields) ==
    LET parts == FlattenSeq([k \in DOMAIN fields |-> Split(fields[k], Comma)])
    IN  SelectSeq([k \in DOMAIN parts |-> Trim(parts[k])], LAMBDA part : part # <<>>)

\* A header read by its row: [problem, value], value an Option.
HeaderValue(headers, h) ==
    LET fields == Values(headers, h.name)
        elements == HeaderElements(fields)
    IN  CASE fields = <<>> -> [problem |-> h.required, value |-> None]
          [] fields # <<>> /\ h.row.shape = "array" ->
                [problem |-> FALSE, value |-> Some(Arr([k \in DOMAIN elements |->
                                                            HeaderScalar(elements[k], h.row.plan)]))]
          [] fields # <<>> /\ h.row.shape # "array" /\ Len(fields) > 1 ->
                [problem |-> TRUE, value |-> None]
          [] OTHER -> [problem |-> FALSE, value |-> Some(HeaderScalar(fields[1], h.row.plan))]

ReadStrictly(headers, h) ==
    LET read == HeaderValue(headers, h)
    IN  [read EXCEPT !.problem = @ \/ (read.value # None /\ ~Fits(read.value[1], h.row))]

Dispatch ==
    /\ pc = "dispatch"
    /\ LET n == Pick(reply.status)
           read == IF n < 0 THEN <<>>
                   ELSE [k \in DOMAIN ArmOf(n).headers |-> ReadStrictly(reply.headers, ArmOf(n).headers[k])]
       IN  outcome' = [arm |-> n, headers |-> read,
               result |-> CASE n < 0 -> "unexpected"
                            [] n >= 0 /\ ~Decodes(ArmOf(n), reply.body) -> "decode"
                            [] n >= 0 /\ Decodes(ArmOf(n), reply.body)
                               /\ \E k \in DOMAIN read : read[k].problem -> "header"
                            [] OTHER -> IF Succeeds(n, reply.status) THEN "ok" ELSE "declared"]
    /\ pc' = "done"
    /\ UNCHANGED <<call, request, assembled, seen, seenBody, rejection, reply>>

Answer == WriteReply \/ Dispatch
=============================================================================
