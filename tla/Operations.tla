---------------------------- MODULE Operations ----------------------------
(* What the generator calls things: the walk over a document's paths that   *)
(* names every operation, the siblings that send its other media types, the *)
(* types of its response headers and the setters of its credentials, and    *)
(* the question which routes one router takes (api/operation, api/route,    *)
(* api/registrable, api/security, contract/name).                           *)
(* A name is its words between underscores, a word its tokens: a letter, a  *)
(* digit, or a longer run of letters nothing has to look into.              *)
EXTENDS Integers, Sequences, FiniteSets, SequencesExt

CONSTANTS
    Descriptions,   \* the documents, as far as names and routes go
    Reserved        \* the words that are no Rust identifiers

VARIABLES
    description,    \* the document being walked
    unvisited,      \* what is left of its operations
    claims,         \* the names the operation at hand still has to get
    methods,        \* Build.namer: method names handed out
    stems,          \* Build.stems: type stems claimed, folded
    built,          \* the operations of the model
    unnamed,        \* header groups that wait for their types, as <<operation, arm>>
    router,         \* the templates the router took
    unasked,        \* the operations the router has not been asked about
    setters,        \* the credential schemes whose setter is named
    stage

operationVars == <<description, unvisited, claims, methods, stems, built, unnamed,
                   router, unasked, setters, stage>>

-----------------------------------------------------------------------------
(* Identifiers.                                                            *)

Digit == <<"1", "2", "3", "4", "5", "6", "7", "8", "9">>
Letters == {"a", "b"}

StartsWithDigit(word) == word # << >> /\ Head(word) \in ToSet(Digit)

\* A name from words: empty ones vanish, no word at all is `call`, a digit in front
\* takes an underscore before it and a reserved word one behind it.
Method(words) ==
    LET kept == SelectSeq(words, LAMBDA word : word # << >>)
    IN  CASE kept = << >> -> << <<"call">> >>
          [] kept # << >> /\ StartsWithDigit(Head(kept)) -> << << >> >> \o kept
          [] Len(kept) = 1 /\ kept[1] \in Reserved -> kept \o << << >> >>
          [] OTHER -> kept

Suffixed(name, k) == [name EXCEPT ![Len(name)] = Append(@, Digit[k])]

\* The name itself if it is free, else with the first number that makes it free.
FirstFree(taken, name) ==
    IF name \notin taken THEN name
    ELSE Suffixed(name, CHOOSE k \in 2..Len(Digit) :
            /\ Suffixed(name, k) \notin taken
            /\ \A j \in 2..(k - 1) : Suffixed(name, j) \in taken)

Up(text) == [text |-> text, upper |-> TRUE]
Low(text) == [text |-> text, upper |-> FALSE]
Capitals(words) == [i \in DOMAIN words |-> Up(words[i])]

Capitalized(word) == [k \in DOMAIN word |->
    IF k = 1 /\ ~StartsWithDigit(word) THEN Up(word[k]) ELSE Low(word[k])]

\* The stem of an operation's types: its words, capitalized and joined.
TypeStem(name) ==
    LET joined == FlattenSeq([i \in DOMAIN name |-> Capitalized(name[i])])
    IN  IF joined # << >> /\ joined[1].text \in ToSet(Digit)
        THEN <<Low("_")>> \o joined ELSE joined

CapitalLetter(stem, i) == i \in DOMAIN stem /\ stem[i].upper /\ stem[i].text \in Letters

\* What two stems have in common that differ only in how a run of capitals is cased:
\* a capital after a capital is lowered, unless a lower letter follows it.
Fold(stem) == [i \in DOMAIN stem |->
    IF /\ CapitalLetter(stem, i) /\ CapitalLetter(stem, i - 1)
       /\ i < Len(stem) => stem[i + 1].upper \/ stem[i + 1].text \notin Letters
    THEN Low(stem[i].text) ELSE stem[i]]

TypeSuffixes == {<<Up(text)>> : text \in
    {"params", "request", "success", "error", "response", "path", "query", "header", "cookie"}}

Headers == <<Up("headers")>>

\* The types the modules hold beside the operations' own, those of one word that no
\* stem and suffix can spell left out.
ModuleTypes == {Capitals(words) : words \in
    {<<"body", "read", "error">>, <<"body", "too", "large">>, <<"decode", "error">>,
     <<"header", "decode", "error">>, <<"header", "problem">>, <<"response", "value">>,
     <<"rejection", "response">>}}

TypesFrom(stem) == {stem \o suffix : suffix \in TypeSuffixes}
\* Mutant: a stem is asked about other operations only.
TakenByNone(stem) == FALSE
TakenByModule(stem) == TypesFrom(stem) \cap ModuleTypes # {}

-----------------------------------------------------------------------------
(* Paths and parameters. A route is its segments, a segment its pieces.    *)

Pieces(route) == FlattenSeq(route.segments)
Variables(route) == SelectSeq(Pieces(route), LAMBDA piece : piece.is = "variable")

Malformed(route) ==
    ~route.rooted \/ ~route.balanced \/ ~IsInjective(Variables(route))

\* A parameter of the operation replaces the path's of the same name and place.
MergedParams(path, operation) == operation.params \cup
    {p \in path.params : \A q \in operation.params : <<q.name, q.in>> # <<p.name, p.in>>}

Required(param) == param.required \/ param.in = "path"
Unsendable(params) == \E p \in params : ~p.defined /\ Required(p)

Bound(params) == {p.name : p \in {q \in params : q.defined /\ q.in = "path"}}
Unbound(route, params) == {v \in ToSet(Variables(route)) : v.name \notin Bound(params)}

\* The operation's own identifier, or else its method and the words of its route.
WordsOfRoute(route) == FlattenSeq([i \in DOMAIN Pieces(route) |-> Pieces(route)[i].name])
Wanted(route, operation) ==
    Method(IF operation.id # << >> THEN operation.id
           ELSE << <<operation.method>> >> \o WordsOfRoute(route))

-----------------------------------------------------------------------------
(* Bodies: content is listed as the preference among media types orders it. *)

Primary(operation) ==
    IF operation.pick \in DOMAIN operation.content THEN operation.pick ELSE 1

\* Every other media type that can be sent and is not the same one spelled again.
Siblings(operation) ==
    LET content == operation.content
        Sent(i) == /\ i # Primary(operation)
                   /\ ~content[i].wildcard
                   /\ \A j \in {Primary(operation)} \cup 1..(i - 1) :
                        content[j].base # content[i].base
    IN  SelectSeq([i \in DOMAIN content |-> i], Sent)

-----------------------------------------------------------------------------
(* Responses and credentials.                                              *)

\* An arm's name, with a number from the second of its spelling on.
ArmName(arms, i) ==
    LET nth == Cardinality({j \in 1..i : arms[j].name = arms[i].name})
    IN  IF nth = 1 THEN arms[i].name ELSE Append(arms[i].name, Low(Digit[nth]))

\* Exact statuses come before ranges, and the default after both.
Arms(operation) ==
    LET arms == [i \in DOMAIN operation.arms |->
                    [name |-> ArmName(operation.arms, i), status |-> operation.arms[i].status,
                     headers |-> operation.arms[i].headers, types |-> {}]]
    IN  SelectSeq(arms, LAMBDA arm : arm.status = "exact")
        \o SelectSeq(arms, LAMBDA arm : arm.status = "range")
        \o SelectSeq(arms, LAMBDA arm : arm.status = "default")

\* The alternatives of the operation, or else of the document, by the numbers of the
\* schemes the client sends; what that leaves empty is no alternative.
Requirement(operation) ==
    LET declared == IF operation.security = << >> THEN description.security
                    ELSE operation.security[1]
        numbered(names) == {i \in DOMAIN description.schemes : description.schemes[i] \in names}
    IN  {numbered(names) : names \in declared} \ {{}}

-----------------------------------------------------------------------------
(* Routes. The router is matchit, as far as its answers are observed.      *)

\* A variable has to end its segment and be the only one in it.
RouterRefuses(route) ==
    \E s \in DOMAIN route.segments : \E i \in DOMAIN route.segments[s] :
        route.segments[s][i].is = "variable" /\ i # Len(route.segments[s])

Erased(route) == [s \in DOMAIN route.segments |->
    [i \in DOMAIN route.segments[s] |->
        IF route.segments[s][i].is = "variable" THEN << >> ELSE route.segments[s][i].name]]
Conflict(a, b) == Erased(a) = Erased(b)

\* Mutant: every method has a router of its own.
InsertableByMethod(operation) ==
    /\ ~RouterRefuses(operation.route)
    /\ \A taken \in router :
        ~Conflict(taken.route, operation.route) \/ taken.method # operation.method
Insertable(operation) ==
    /\ ~RouterRefuses(operation.route)
    /\ \A taken \in router : ~Conflict(taken.route, operation.route)

\* A segment that starts the way the router's older captures did.
OldCapture(route) == \E s \in DOMAIN route.segments : \E i \in DOMAIN route.segments[s] :
    i = 1 /\ route.segments[s][i].is = "capture"

-----------------------------------------------------------------------------

OperationsInit ==
    /\ description \in Descriptions
    /\ unvisited = FlattenSeq([i \in DOMAIN description.paths |->
            [k \in DOMAIN description.paths[i].operations |->
                [path |-> description.paths[i], operation |-> description.paths[i].operations[k]]]])
    /\ claims = << >> /\ methods = {} /\ stems = {} /\ built = << >>
    /\ unnamed = << >> /\ router = {} /\ unasked = << >> /\ setters = << >>
    /\ stage = "walk"

\* The next operation: left out when it cannot be called, else it asks for its name.
Visit ==
    /\ stage = "walk" /\ claims = << >> /\ unvisited # << >>
    /\ unvisited' = Tail(unvisited)
    /\ LET path == Head(unvisited).path
           operation == Head(unvisited).operation
           params == MergedParams(path, operation)
       IN  claims' = IF \/ Malformed(path.route)
                        \/ Unsendable(params)
                        \/ Unbound(path.route, params) # {}
                     THEN << >>
                     ELSE <<[wanted |-> Wanted(path.route, operation), variant |-> FALSE,
                             route |-> path.route, operation |-> operation]>>
    /\ UNCHANGED <<description, methods, stems, built, unnamed, router, unasked, setters, stage>>

\* The siblings of an operation are named after the name it got.
SiblingClaims(claim, name) ==
    IF claim.variant THEN << >>
    ELSE [k \in DOMAIN Siblings(claim.operation) |->
            [claim EXCEPT !.variant = TRUE,
                          !.wanted = Method(name \o
                                claim.operation.content[Siblings(claim.operation)[k]].suffix)]]

\* One turn of the loop in claim: the next free method name, kept if its stem is free
\* too. A stem stays claimed when a module type refuses it.
Claim ==
    /\ stage = "walk" /\ claims # << >>
    /\ LET claim == Head(claims)
           name == FirstFree(methods, claim.wanted)
           stem == TypeStem(name)
       IN  /\ methods' = methods \cup {name}
           /\ stems' = stems \cup {Fold(stem)}
           /\ IF Fold(stem) \notin stems /\ ~TakenByModule(stem)
              THEN /\ claims' = Tail(claims) \o SiblingClaims(claim, name)
                   /\ built' = Append(built,
                        [name |-> name, route |-> claim.route,
                         method |-> claim.operation.method, variant |-> claim.variant,
                         arms |-> Arms(claim.operation),
                         security |-> Requirement(claim.operation), served |-> FALSE])
              ELSE UNCHANGED <<claims, built>>
    /\ UNCHANGED <<description, unvisited, unnamed, router, unasked, setters, stage>>

Walked ==
    /\ stage = "walk" /\ claims = << >> /\ unvisited = << >>
    /\ stage' = "headers"
    /\ unnamed' = FlattenSeq([o \in DOMAIN built |->
            [a \in DOMAIN built[o].arms |-> <<o, a>>]])
    /\ unasked' = [o \in DOMAIN built |-> o]
    /\ UNCHANGED <<description, unvisited, claims, methods, stems, built, router, setters>>

StemOf(operation) == TypeStem(operation.name)

OperationTypes == UNION {TypesFrom(StemOf(built[o])) : o \in DOMAIN built}
HeaderTypes == UNION {UNION {built[o].arms[a].types : a \in DOMAIN built[o].arms} :
                        o \in DOMAIN built}
\* Mutant: the types of the operations are not claimed first.
TakenByHeaders == ModuleTypes \cup HeaderTypes
TakenTypes == OperationTypes \cup ModuleTypes \cup HeaderTypes

\* An arm's payload and its header group, with the first number that frees both.
Pair(stem, arm, k) ==
    LET payload == stem \o arm.name \o (IF k = 1 THEN << >> ELSE <<Low(Digit[k])>>)
    IN  {payload, payload \o Headers}

FirstPair(stem, arm, taken) ==
    Pair(stem, arm, CHOOSE k \in DOMAIN Digit :
        /\ Pair(stem, arm, k) \cap taken = {}
        /\ \A j \in 1..(k - 1) : Pair(stem, arm, j) \cap taken # {})

NameHeaders ==
    /\ stage = "headers" /\ unnamed # << >>
    /\ unnamed' = Tail(unnamed)
    /\ LET o == Head(unnamed)[1]
           a == Head(unnamed)[2]
       IN  built' = IF ~built[o].arms[a].headers THEN built
                    ELSE [built EXCEPT ![o].arms[a].types =
                            FirstPair(StemOf(built[o]), built[o].arms[a], TakenTypes)]
    /\ UNCHANGED <<description, unvisited, claims, methods, stems, router, unasked, setters, stage>>

\* A further method of a template the router has is served beside the first.
Known(route) == \E taken \in router : taken.route = route

AskRouter ==
    /\ stage = "headers" /\ unnamed = << >> /\ unasked # << >>
    /\ unasked' = Tail(unasked)
    /\ LET o == Head(unasked)
           operation == built[o]
           inserted == ~Known(operation.route) /\ ~OldCapture(operation.route)
                            /\ Insertable(operation)
       IN  IF operation.variant THEN UNCHANGED <<built, router>>
           ELSE /\ built' = [built EXCEPT ![o].served = inserted \/ Known(operation.route)]
                /\ router' = IF inserted
                             THEN router \cup {[route |-> operation.route,
                                                method |-> operation.method]}
                             ELSE router
    /\ UNCHANGED <<description, unvisited, claims, methods, stems, unnamed, setters, stage>>

\* A client holds credentials only if some operation sends one.
HeldSchemes ==
    IF \A o \in DOMAIN built : built[o].security = {} THEN << >> ELSE description.schemes

Setter(scheme) == Method(<< <<"with">>, <<scheme>> >>)
WithClient == << <<"with">>, <<"client">> >>

\* Setters are named last, so they are the ones that yield.
NameSetter ==
    /\ stage = "headers" /\ unnamed = << >> /\ unasked = << >>
    /\ Len(setters) < Len(HeldSchemes)
    /\ LET name == FirstFree(methods \cup {WithClient}, Setter(HeldSchemes[Len(setters) + 1]))
       IN  /\ setters' = Append(setters, name)
           /\ methods' = methods \cup {WithClient, name}
    /\ UNCHANGED <<description, unvisited, claims, stems, built, unnamed, router, unasked, stage>>

Modelled ==
    /\ stage = "headers" /\ unnamed = << >> /\ unasked = << >>
    /\ Len(setters) = Len(HeldSchemes)
    /\ stage' = "modelled"
    /\ UNCHANGED <<description, unvisited, claims, methods, stems, built, unnamed, router,
                   unasked, setters>>

Rest == stage = "modelled" /\ UNCHANGED operationVars

OperationsNext ==
    \/ Visit \/ Claim \/ Walked \/ NameHeaders \/ AskRouter \/ NameSetter \/ Modelled \/ Rest

OperationsSpec == OperationsInit /\ [][OperationsNext]_operationVars

-----------------------------------------------------------------------------

MethodNames == [o \in DOMAIN built |-> built[o].name] \o setters

\* The arms with a payload and a header group of their own.
Groups == {g \in UNION {{o} \X DOMAIN built[o].arms : o \in DOMAIN built} :
                built[g[1]].arms[g[2]].headers}

\* Everything generated into the client and the server has a name of its own: the
\* operations' methods and the setters, and the types spelled from an operation's stem,
\* a stem and a response, or by the module itself (Build::claim, name_header_types,
\* name_setters), whatever numbers earlier clashes put on the names.
NamesDistinct ==
    stage = "modelled" =>
        /\ IsInjective(MethodNames)
        /\ Cardinality(TakenTypes) = Cardinality(TypeSuffixes) * Len(built)
                                        + 2 * Cardinality(Groups) + Cardinality(ModuleTypes)

\* The templates the server registers go into one router together, whatever their
\* methods, and an operation is not served only if the router cannot have its template
\* beside those: no refused template keeps a later one out (registrable::classify).
RoutesServed ==
    stage = "modelled" =>
        LET served == {built[o].route : o \in {p \in DOMAIN built : built[p].served}}
        IN  /\ \A r \in served : ~OldCapture(r) /\ ~RouterRefuses(r)
            /\ \A r, t \in served : Conflict(r, t) => r = t
            /\ \A o \in DOMAIN built : built[o].served =>
                    \A p \in DOMAIN built : built[p].route = built[o].route =>
                        built[p].served \/ built[p].variant
            /\ \A o \in DOMAIN built : ~built[o].served =>
                    \/ built[o].variant
                    \/ OldCapture(built[o].route) \/ RouterRefuses(built[o].route)
                    \/ \E r \in served : Conflict(r, built[o].route)

=============================================================================
