------------------------------- MODULE Client -------------------------------
(***************************************************************************)
(* A generated client receiving answers: one request sent by itself, or a  *)
(* stream over every page of a listing (render/client.rs: stream,          *)
(* page_walk, dispatch, observed; support/http.rs: decode_json,            *)
(* decode_lenient).  The service holds a finite listing; it answers each   *)
(* request with the page its cursor names, with a failure, or not at all.  *)
(***************************************************************************)
EXTENDS Body, Decode

CONSTANT Jobs   \* what a caller asks and how the service answers it

(* A job: the caller ("send" or "stream"), the decoding ("strict" or       *)
(* "lenient"), the client's limit and the request's own, the type of the   *)
(* response, the paths to its items and next cursor as steps of a holder   *)
(* and a member, the service's pages, how it delivers them and the         *)
(* statuses it may answer with.                                            *)
VARIABLES
    job,
    reads,      \* what each page reads as: a function of the page, worked out once
    listing,    \* every item of the service's pages, as the crate reads one
    phase,      \* "asking", "reading", "decoded", "yielding" and the three ends below
    cursor,     \* the cursor the next page is asked with, None for the first
    page,       \* the number of the page the service answered with
    status,     \* "ok", "declared" (an error the description names) or "unexpected"
    result,     \* what decoding the last body gave
    told,       \* the reports the observer was shown
    items,      \* what the page at hand still has to give
    next,       \* the page's next cursor
    out,        \* what the caller was given
    failure     \* why the call failed

callerVars == <<job, reads, listing, phase, cursor, page, status, result, told, items, next, out, failure>>
clientVars == <<callerVars, bodyVars>>

Final == {"ended", "failed", "handed"}

Inherit == -2

\* Mutant: a request that lifts the limit is taken for one that set none.
UnderUnlessNone(own, client) == IF own < 0 THEN client ELSE own

\* A request that set a limit of its own, none included, is not the client's to limit.
Under(own, client) == IF own = Inherit THEN client ELSE own

\* The limit read_body holds: a client that set none reads every body whole.
LimitOf(set) == IF set = Inherit THEN Unlimited ELSE set

Site == <<"list_items", "">>
BodyRead(ty, c) ==
    IF job.decoding = "lenient" THEN Lenient(ty, c, Site) ELSE Strict(ty, c) @@ [seen |-> {}]

\* The place of a member of a struct, and its value in one that was read.
MemberAt(ty, name) == CHOOSE i \in DOMAIN ty.members : ty.members[i].name = name
MemberRead(ty, v, name) == IF v = NoValue THEN NoValue ELSE v.fields[MemberAt(ty, name)]
MemberTy(ty, name) == ty.members[MemberAt(ty, name)].ty

-----------------------------------------------------------------------------
(***************************************************************************)
(* What the service holds, read off its pages as they are written.         *)
(***************************************************************************)
Raw(c, name) == IF Copies(c, name) = <<>> THEN Null ELSE Head(Copies(c, name)).value
RawAt(c, path) == IF Len(path) = 1 THEN Raw(c, path[1]) ELSE Raw(Raw(c, path[1]), path[2])
RawItems(c) == LET list == RawAt(c, job.itemsPath) IN IF list.k = "seq" THEN list.items ELSE <<>>

ItemTy ==
    LET inner == IF Len(job.itemsPath) = 1 THEN job.ty ELSE MemberTy(job.ty, job.itemsPath[1])
    IN  MemberTy(inner, job.itemsPath[Len(job.itemsPath)]).of

\* The pages up to the first that names no other.
Pages ==
    LET last == {k \in DOMAIN job.pages : k = Len(job.pages) \/ RawAt(job.pages[k], job.nextPath) = Null}
    IN  1..Min(last)

\* Every item of the listing as the crate reads one; None where it cannot.
Listed ==
    IF job.caller = "send" THEN <<>>
    ELSE FlattenSeq([k \in Pages |->
            LET raw == RawItems(job.pages[k])
            IN  [i \in DOMAIN raw |-> LET r == BodyRead(ItemTy, raw[i])
                                      IN  IF r.ok THEN r.v ELSE NoValue]])

ClientInit ==
    /\ job \in Jobs /\ listing = Listed
    /\ reads = [k \in DOMAIN job.pages |-> BodyRead(job.ty, job.pages[k])]
    /\ phase = "asking" /\ cursor = NoValue /\ page = 0 /\ status = "ok"
    /\ result = Problem /\ told = {} /\ items = <<>> /\ next = NoValue /\ out = <<>>
    /\ failure = "none"
    /\ BodyIdle

-----------------------------------------------------------------------------
Fails(why) == phase' = "failed" /\ failure' = why
Unread == UNCHANGED <<job, reads, listing, cursor, page, result, told, items, next, out, bodyVars>>

\* The page a cursor names.
Served == IF cursor = NoValue THEN 1 ELSE cursor.n

(* The request is a clone of the caller's with the cursor in place of its  *)
(* own; the answer's status says what its body is read as.                 *)
Ask ==
    /\ phase = "asking"
    /\ \E d \in job.deliveries, s \in job.statuses \cap {"ok", "declared"} :
        /\ Receive(d, LimitOf(Under(job.own, job.client)))
        /\ status' = s
    /\ page' = Served
    /\ phase' = "reading"
    /\ UNCHANGED <<job, reads, listing, cursor, result, told, items, next, out, failure>>

\* A status the description never mentioned is handed back with its body unread.
AskStranger ==
    /\ phase = "asking" /\ "unexpected" \in job.statuses
    /\ status' = "unexpected"
    /\ Fails("UnexpectedStatus") /\ Unread

AskLost ==
    /\ phase = "asking" /\ "lost" \in job.statuses
    /\ Fails("Request") /\ Unread /\ UNCHANGED status

ReadOn ==
    /\ phase = "reading" /\ BodyStep
    /\ UNCHANGED callerVars

BodyFails ==
    /\ phase = "reading" /\ read \in {"tooLarge", "broken"}
    /\ Fails(IF read = "tooLarge" THEN "BodyTooLarge" ELSE "BodyRead")
    /\ Unread /\ UNCHANGED status

\* An empty body is null.
Received == IF held = 0 THEN Null ELSE job.pages[page]

DecodeBody ==
    /\ phase = "reading" /\ read = "whole" /\ status = "ok"
    /\ LET r == IF held = 0 THEN BodyRead(job.ty, Null) ELSE reads[page]
       IN  /\ result' = r
           /\ told' = IF r.ok /\ r.seen # {} THEN told \cup {r.seen} ELSE told
           /\ IF ~r.ok THEN Fails("Decode")
              ELSE /\ phase' = IF job.caller = "send" THEN "handed" ELSE "decoded"
                   /\ UNCHANGED failure
    /\ UNCHANGED <<job, reads, listing, cursor, page, status, items, next, out, bodyVars>>

\* A declared error is read the same way; what it says is the caller's.
DecodeError ==
    /\ phase = "reading" /\ read = "whole" /\ status = "declared"
    /\ Fails("Declared") /\ Unread /\ UNCHANGED status

-----------------------------------------------------------------------------
\* A path of at most two members, walked from the page.
Walked(ty, v, path) ==
    IF Len(path) = 1 THEN MemberRead(ty, v, path[1])
    ELSE MemberRead(MemberTy(ty, path[1]), MemberRead(ty, v, path[1]), path[2])
Holders(ty, path) ==
    IF Len(path) = 1 THEN <<ty.name>> ELSE <<ty.name, MemberTy(ty, path[1]).name>>
PathSites(path) == {<<Holders(job.ty, path)[i], path[i]>> : i \in DOMAIN path}
WalkedSites == PathSites(job.itemsPath) \cup PathSites(job.nextPath)

\* Mutant: only the steps to the items are asked about.
TouchedItems == \E record \in result.seen : record[1] \in PathSites(job.itemsPath)

Touched == \E record \in result.seen : record[1] \in WalkedSites

\* A strict page has no report; a lenient one is refused if any step to what it gives drifted.
RefuseDegraded ==
    /\ phase = "decoded" /\ Touched
    /\ Fails("DegradedPage") /\ Unread /\ UNCHANGED status

Walk ==
    /\ phase = "decoded" /\ ~Touched
    /\ LET found == Walked(job.ty, result.v, job.itemsPath)
       IN  items' = IF found = NoValue THEN <<>> ELSE found.items
    /\ next' = Walked(job.ty, result.v, job.nextPath)
    /\ phase' = "yielding"
    /\ UNCHANGED <<job, reads, listing, cursor, page, status, result, told, out, failure, bodyVars>>

Yield ==
    /\ phase = "yielding" /\ items # <<>>
    /\ out' = Append(out, Head(items))
    /\ items' = Tail(items)
    /\ UNCHANGED <<job, reads, listing, phase, cursor, page, status, result, told, next, failure, bodyVars>>

\* Mutant: an empty page is asked for again.
FollowingPageAgain(from, to) ==
    IF Walked(job.ty, result.v, job.itemsPath).items = <<>> THEN from ELSE to

\* The cursor of the next request; an empty page is no reason to ask for it again.
FollowingPage(from, to) == to

AskNext ==
    /\ phase = "yielding" /\ items = <<>> /\ next # NoValue
    /\ cursor' = FollowingPage(cursor, next)
    /\ phase' = "asking"
    /\ UNCHANGED <<job, reads, listing, page, status, result, told, items, next, out, failure, bodyVars>>

\* Only the service declining to send a next cursor ends the stream.
End ==
    /\ phase = "yielding" /\ items = <<>> /\ next = NoValue
    /\ phase' = "ended"
    /\ UNCHANGED <<job, reads, listing, cursor, page, status, result, told, items, next, out, failure, bodyVars>>

ClientNext ==
    \/ Ask \/ AskStranger \/ AskLost \/ ReadOn \/ BodyFails \/ DecodeBody \/ DecodeError
    \/ RefuseDegraded \/ Walk \/ Yield \/ AskNext \/ End

\* The caller awaits the call, or polls the stream, until it is over.
ClientSpec == ClientInit /\ [][ClientNext]_clientVars /\ WF_clientVars(ClientNext)

-----------------------------------------------------------------------------
Promised == INSTANCE Stream WITH
    given <- out,
    standing <- CASE phase \in {"ended", "handed"} -> "ended"
                  [] phase = "failed" -> "failed"
                  [] OTHER -> "open"

(* A stream gives every item of every page, in the service's order, each   *)
(* once, and ends only when it has given all of them: no page degraded on  *)
(* the way to its items or cursor, empty, or failing is mistaken for the   *)
(* last (render/client.rs, stream and page_walk).                          *)
StreamInOrder == Promised!Spec

(* A listing is finite, so the stream over it comes to an end, with the    *)
(* last page or with an error (render/client.rs, stream).                  *)
ListingEnds == phase # "idle" => <>(phase \in Final)

-----------------------------------------------------------------------------
LossKinds == {"RequiredAbsent", "NullNotAllowed", "Undecodable", "SkippedElement"}
PathLost == \E record \in result.seen : record[1] \in WalkedSites /\ record[2] \in LossKinds
OpenKinds == {"enum", "untagged", "tagged", "keyed"}

(* A call fails only for what it says.  A page is refused as degraded      *)
(* because a step to its items or cursor was lost, and the observer saw    *)
(* that report first; a body is too large only past a limit that held for  *)
(* this request; and what the lenient decoder cannot read, the strict one  *)
(* refuses as well.  Items with an open arm are left to                    *)
(* ItemDriftIsKept.                                                        *)
FailsForAReason ==
    /\ failure = "DegradedPage" =>
          (PathLost \/ ItemTy.t \in OpenKinds) /\ result.seen \in told
    /\ failure = "BodyTooLarge" =>
          limit # Unlimited /\ Total(delivery) > limit /\ job.own # Unlimited
    /\ failure = "Decode" => ~Strict(job.ty, Received).ok

(* Drift inside an item does not end a stream: a page is refused only when *)
(* a step to its items or cursor was absent, null or unreadable, or one    *)
(* of its items could not be read (support/http.rs, Error::DegradedPage).  *)
ItemDriftIsKept == failure = "DegradedPage" => PathLost

-----------------------------------------------------------------------------
DecodedAlone == job.caller = "send" /\ phase \in Final /\ status = "ok" /\ read = "whole"

RECURSIVE Inside(_), Parts(_), Leaves(_)

\* Every payload inside a payload, and every type inside a type.
Inside(c) ==
    {c} \cup (CASE c.k = "seq" -> UNION {Inside(c.items[i]) : i \in DOMAIN c.items}
                [] c.k = "map" -> UNION {Inside(c.members[i].value) : i \in DOMAIN c.members}
                [] OTHER -> {})
Parts(ty) ==
    {ty} \cup (CASE ty.t \in {"list", "map", "option"} -> Parts(ty.of)
                 [] ty.t = "struct" ->
                        UNION {Parts(ty.members[i].ty) : i \in DOMAIN ty.members}
                            \cup (IF ty.unknown \in {"Capture", "Union"} THEN Parts(ty.rest) ELSE {})
                 [] ty.t = "untagged" -> UNION {Parts(ty.variants[i]) : i \in DOMAIN ty.variants}
                 [] ty.t = "tagged" -> UNION {Parts(ty.variants[i].ty) : i \in DOMAIN ty.variants}
                 [] ty.t = "keyed" -> UNION {Parts(ty.data[i].ty) : i \in DOMAIN ty.data}
                 [] OTHER -> {})

\* A required member that can hold null in its own type, and a payload that writes a null member.
HoldsNull(ty) == ty.t \in {"any", "untagged", "tagged", "keyed"}
NullHeld(ty, c) ==
    /\ \E p \in {q \in Parts(ty) : q.t = "struct"} : \E i \in DOMAIN p.members :
            p.members[i].declared = "Required" /\ HoldsNull(p.members[i].ty)
    /\ \E d \in Inside(c) : \E i \in DOMAIN Entries(d) : Entries(d)[i].value = Null

HasKeyed(ty) == \E p \in Parts(ty) : p.t = "keyed"

(* The two decoders agree: a strict decode of a payload succeeds exactly   *)
(* when the lenient one succeeds with nothing in its report that would     *)
(* refuse it, and then they give the same value, union variants included   *)
(* (support/lenient.rs, probe and keyed_payload; degradations.rs,          *)
(* merge_tolerated).  Two places are known to differ: a required member    *)
(* whose own type holds null, and a keyed payload that drifts, which the   *)
(* strict reading keeps whole in the open arm.                             *)
StrictAgrees ==
    DecodedAlone /\ job.decoding = "lenient" /\ ~NullHeld(job.ty, Received) =>
        LET strict == Strict(job.ty, Received)
        IN  /\ strict.ok <=> result.ok /\ ~result.refuses
            /\ strict.ok /\ (HasKeyed(job.ty) => result.seen = {}) => strict.v = result.v

\* The scalars of a payload, and of a value read from one.
Leaves(v) ==
    CASE v.k \in {"num", "str"} -> {v}
      [] v.k = "seq" -> UNION {Leaves(v.items[i]) : i \in DOMAIN v.items}
      [] v.k = "map" /\ "members" \in DOMAIN v ->
            UNION {Leaves(v.members[i].value) : i \in DOMAIN v.members}
      [] v.k = "map" /\ "of" \in DOMAIN v -> UNION {Leaves(v.of[name]) : name \in DOMAIN v.of}
      [] v.k = "struct" -> UNION {Leaves(v.fields[i]) : i \in DOMAIN v.fields} \cup Leaves(v.rest)
      [] v.k \in {"open", "variant"} -> Leaves(v.value)
      [] OTHER -> {}

Repeats(c) ==
    \E d \in Inside(c) : \E i, j \in DOMAIN Entries(d) :
        i # j /\ Entries(d)[i].name = Entries(d)[j].name

(* Nothing is lost in silence: a lenient value with an empty report holds  *)
(* every scalar the payload held (support/lenient.rs).  A payload that     *)
(* writes a name twice keeps the last value, as a JSON object does.        *)
NothingSilent ==
    DecodedAlone /\ job.decoding = "lenient" /\ result.ok /\ result.seen = {}
        /\ ~Repeats(Received) => Leaves(result.v) = Leaves(Received)

=============================================================================
