----------------------------- MODULE Normalize -----------------------------
(***************************************************************************)
(* Dialect normalization (normalize.rs): a walk over the places where a    *)
(* document keeps schemas, which rewrites each schema it meets into        *)
(* 2020-12 and remembers which positions it moved.                         *)
(*                                                                         *)
(* A document is a function from addresses to the objects written there:   *)
(* its schemas, and payloads (examples, defaults, vendor members) that     *)
(* look like schemas.  What lies between, a path item or an array, is left *)
(* to the addresses.  A schema is its own keywords; its subschemas are the *)
(* objects below its address.  A numeric bound is one number, and maximum  *)
(* is treated as minimum is.  The member order, the wording of the         *)
(* diagnostics, `example`, which constrains nothing, and a keyword whose   *)
(* value has a type nobody gives it are left out.                          *)
(***************************************************************************)
EXTENDS Moves

CONSTANTS
    Drafts,     \* the documents a loader may hand over
    Extensions, \* the tokens that begin with x-
    Instances   \* the values the properties ask schemas about

VARIABLES
    source,     \* the document as written
    stage,      \* "loaded", "walking", "rewritten", or why it was rejected
    tree,       \* its objects by address, as far as they are rewritten
    unwalked,   \* places to visit, each with what it holds and its draft
    moved,      \* the moves made so far
    repairs     \* the diagnostics: kinds and addresses

normalizeVars == <<source, stage, tree, unwalked, moved, repairs>>

-----------------------------------------------------------------------------
(***************************************************************************)
(* Schemas                                                                 *)
(***************************************************************************)
\* A schema that writes nothing.  `origin` is the address it was written at
\* and `payload` that it is no schema; the walk knows neither.
Unwritten == <<"unwritten">>
Empty ==
    [is |-> "object", origin |-> Unwritten, payload |-> FALSE,
     types |-> {}, nullable |-> "unsaid", enum |-> {},
     minimum |-> FALSE, exclusive |-> "unsaid", format |-> "unsaid", content |-> {},
     ref |-> << >>, required |-> {}, flag |-> "unsaid",
     dependencies |-> {}, dependentRequired |-> {}, draft |-> "unsaid"]

\* The objects below a member of a schema, itself included.
Under(t, at) == {a \in DOMAIN t : IsPrefix(at, a)}
Writes(t, at, keyword) == Under(t, Append(at, keyword)) # {}
WritesArray(t, at, keyword) == Writes(t, at, keyword) /\ Append(at, keyword) \notin DOMAIN t

\* The tree with every object at the address `to` gives it.
Relocated(t, to) == [b \in {to[a] : a \in DOMAIN t} |-> t[CHOOSE a \in DOMAIN t : to[a] = b]]
Carried(t, move) == Relocated(t, [a \in DOMAIN t |-> Shifted(a, move)])
Without(t, gone) == [a \in DOMAIN t \ gone |-> t[a]]
Reworded(t, at, schema) == [t EXCEPT ![at] = schema]

\* A value a schema may be asked about: a scalar, a list or an object.
Instance(is, n, items, members) == [is |-> is, n |-> n, items |-> items, members |-> members]
Nil == Instance("null", 0, << >>, << >>)

(***************************************************************************)
(* OpenAPI 3.0                                                             *)
(***************************************************************************)
Unions == {"anyOf", "oneOf"}
Compositions == {"allOf"} \cup Unions
Annotations == {"default", "example", "externalDocs"}

\* A branch that says only `nullable: true`, and annotates.
IsBareNullable(t, at) ==
    /\ [t[at] EXCEPT !.origin = Unwritten, !.payload = FALSE] = [Empty EXCEPT !.nullable = "true"]
    /\ \A a \in Under(t, at) \ {at} : a[Len(at) + 1] \in Annotations \cup Extensions

NullArms(t, at) ==
    {a \in DOMAIN t : /\ Len(a) = Len(at) + 2 /\ IsPrefix(at, a)
                      /\ a[Len(at) + 1] \in Unions
                      /\ IsBareNullable(t, a)}
RepairNullBranches(t, at) ==
    [a \in DOMAIN t |-> IF a \in NullArms(t, at)
                        THEN [t[a] EXCEPT !.nullable = "unsaid", !.types = {"null"}]
                        ELSE t[a]]

\* The composition of a schema in the first branch of an `anyOf` beside null.
Wrapped(t, at) ==
    LET branch == at \o <<"anyOf", "0">>
        null   == at \o <<"anyOf", "1">>
        lifted == [a \in DOMAIN t |->
                    IF \E k \in Compositions : IsPrefix(Append(at, k), a)
                    THEN branch \o Past(at, a) ELSE a]
        rest   == Relocated(t, lifted)
    IN  [a \in DOMAIN rest \cup {branch, null} |->
            CASE a = branch -> [Empty EXCEPT !.ref = t[at].ref]
              [] a = null   -> [Empty EXCEPT !.types = {"null"}]
              [] a = at     -> [rest[at] EXCEPT !.ref = << >>]
              [] OTHER      -> rest[a]]

Composes(t, at) == t[at].ref # << >> \/ \E k \in Compositions : Writes(t, at, k)

\* Mutant: only a type takes null.
WidenedType(schema) == [schema EXCEPT !.types = IF @ = {} THEN {} ELSE @ \cup {"null"}]

\* Null in the type and in the enum, where there is one.
Widened(schema) ==
    [schema EXCEPT !.types = IF @ = {} THEN {} ELSE @ \cup {"null"},
                   !.enum = IF @ = {} THEN {} ELSE @ \cup {Nil}]

\* `nullable: true` widens the schema, or what it composes where it has no
\* type of its own.
Nullable(t, at) ==
    LET plain == [t[at] EXCEPT !.nullable = "unsaid"]
        wide  == Reworded(t, at, Widened(plain))
    IN  CASE t[at].nullable # "true"               -> Reworded(t, at, plain)
          [] t[at].types = {} /\ Composes(t, at) -> Wrapped(wide, at)
          [] OTHER                                 -> wide

(***************************************************************************)
(* Forms that are repaired in every version                                *)
(***************************************************************************)
\* A boolean bound is the bound, or nothing.
ExclusiveBounds(t, at) ==
    LET own == t[at]
    IN  Reworded(t, at,
            CASE own.exclusive \notin {"true", "false"} -> own
              [] own.exclusive = "true" /\ own.minimum ->
                    [own EXCEPT !.minimum = FALSE, !.exclusive = "bound"]
              [] OTHER -> [own EXCEPT !.exclusive = "unsaid"])

\* What a string's format says its content is, where 2020-12 says it.
Formats == "byte" :> "base64" @@ "binary" :> "bytes"
SaysContent(schema) == "string" \in schema.types /\ schema.format \in DOMAIN Formats
StringFormat(t, at) ==
    LET own == t[at]
    IN  Reworded(t, at,
            IF SaysContent(own)
            THEN [own EXCEPT !.format = "unsaid", !.content = @ \cup {Formats[own.format]}]
            ELSE own)

\* The draft-04 tuple, unless `prefixItems` is written as well.
HasTuple(t, at) == WritesArray(t, at, "items") /\ ~Writes(t, at, "prefixItems")
TupleMoves(t, at) ==
    IF ~HasTuple(t, at) THEN << >>
    ELSE <<Move(Append(at, "items"), Append(at, "prefixItems"))>>
         \o (IF Writes(t, at, "additionalItems")
             THEN <<Move(Append(at, "additionalItems"), Append(at, "items"))>> ELSE << >>)
TupleItems(t, at) == FoldLeft(Carried, t, TupleMoves(t, at))

\* The draft-03 flags of the properties, in the array of the schema around
\* them where that is an array or absent.
Flagged(t, at) ==
    {a \in DOMAIN t : /\ Len(a) = Len(at) + 2 /\ IsPrefix(at, a)
                      /\ a[Len(at) + 1] = "properties" /\ t[a].flag # "unsaid"}
RequiredFlags(t, at) ==
    LET names == {Last(a) : a \in {f \in Flagged(t, at) : t[f].flag = "true"}}
    IN  [a \in DOMAIN t |->
            CASE a \in Flagged(t, at) -> [t[a] EXCEPT !.flag = "unsaid"]
              [] a = at /\ t[at].flag = "unsaid" -> [t[a] EXCEPT !.required = @ \cup names]
              [] OTHER -> t[a]]

(***************************************************************************)
(* draft-07 and earlier                                                    *)
(***************************************************************************)
\* A reference replaces the schema it is written in.
KeptBesideRef == {"$defs", "definitions", "default", "examples"} \cup Extensions
Replaced(t, at) ==
    t[at].ref # << >> /\
        \/ [t[at] EXCEPT !.ref = << >>, !.origin = Unwritten, !.payload = FALSE, !.draft = "unsaid"] # Empty
        \/ \E a \in Under(t, at) \ {at} : a[Len(at) + 1] \notin KeptBesideRef
RefSiblings(t, at) ==
    IF t[at].ref = << >> THEN t
    ELSE Reworded(
            Without(t, {a \in Under(t, at) \ {at} : a[Len(at) + 1] \notin KeptBesideRef}), at,
            [Empty EXCEPT !.ref = t[at].ref, !.origin = t[at].origin, !.payload = t[at].payload,
                          !.draft = t[at].draft])

\* `dependencies` by what each member is, unless a keyword of 2020-12 that
\* says the same is written as well.
SplitsDependencies(t, at) ==
    /\ ~Writes(t, at, "dependentSchemas") /\ t[at].dependentRequired = {}
    /\ Writes(t, at, "dependencies") \/ t[at].dependencies # {}
DependencyMoves(t, at) ==
    LET old == Append(at, "dependencies")
        names == {a[Len(at) + 2] : a \in Under(t, old)}
    IN  IF ~SplitsDependencies(t, at) THEN << >>
        ELSE SetToSeq({Move(Append(old, n), at \o <<"dependentSchemas", n>>) : n \in names})
Dependencies(t, at) ==
    IF ~SplitsDependencies(t, at) THEN t
    ELSE Reworded(FoldLeft(Carried, t, DependencyMoves(t, at)), at,
            [t[at] EXCEPT !.dependencies = {}, !.dependentRequired = t[at].dependencies])

-----------------------------------------------------------------------------
(***************************************************************************)
(* One schema                                                              *)
(***************************************************************************)
Dialect30 == source.version = <<3, 0>>

ByDialect(t, at) ==
    IF Dialect30 THEN Nullable(RepairNullBranches(t, at), at) ELSE t
ByContent(t, at) == StringFormat(ExclusiveBounds(ByDialect(t, at), at), at)
ByDraft(t, at, legacy) ==
    IF legacy THEN Dependencies(RefSiblings(ByContent(t, at), at), at) ELSE ByContent(t, at)
\* The schema at `at` in 2020-12, in the order the rewrites run.
Rewritten(t, at, legacy) == RequiredFlags(TupleItems(ByDraft(t, at, legacy), at), at)

MovesOf(t, at, legacy) ==
    (IF legacy THEN DependencyMoves(RefSiblings(ByContent(t, at), at), at) ELSE << >>)
    \o TupleMoves(ByDraft(t, at, legacy), at)

\* What is reported: everything but the normalization of a 3.0 document.
RepairsOf(t, at, legacy) ==
    LET plain == ByContent(t, at)
        drop  == RefSiblings(plain, at)
        last  == ByDraft(t, at, legacy)
        own   == t[at]
        if(condition, kind) == IF condition THEN {<<kind, at>>} ELSE {}
    IN  (IF Dialect30 THEN {<<"null branch", a>> : a \in NullArms(t, at)} ELSE {})
        \cup if(~Dialect30 /\ own.exclusive \in {"true", "false"}, "exclusive bound")
        \cup if(~Dialect30 /\ SaysContent(own), "string format")
        \cup if(legacy /\ Replaced(plain, at), "ref siblings")
        \cup if(legacy /\ SplitsDependencies(drop, at), "dependencies")
        \cup if(HasTuple(last, at), "tuple items")
        \cup {<<"required flag", a>> : a \in Flagged(TupleItems(last, at), at)}

(***************************************************************************)
(* The walk                                                                *)
(***************************************************************************)
Each == "any token"
Ordinary == "any token but an extension"

Place(path, kind) == [path |-> path, kind |-> kind]
Methods == {"get", "put", "post", "delete", "options", "head", "patch", "trace"}
Parameters == {Place(<<"parameters", Each>>, "parameter")}
Headers == {Place(<<"headers", Each>>, "parameter")}
Content == {Place(<<"content", Each>>, "media type")}
SubschemaKeys == {"additionalProperties", "contains", "contentSchema", "else", "if", "items", "not",
                  "propertyNames", "then", "unevaluatedItems", "unevaluatedProperties"}
SubschemaArrays == {"allOf", "anyOf", "oneOf", "prefixItems"}
SubschemaMaps == {"$defs", "definitions", "dependentSchemas", "patternProperties", "properties"}

\* Mutant: tuples are not descended into.
PlacesOfSchemaOnce ==
    {Place(<<k>>, "schema") : k \in SubschemaKeys}
    \cup {Place(<<k, Each>>, "schema") : k \in (SubschemaArrays \ {"prefixItems"}) \cup SubschemaMaps}

PlacesOfSchema ==
    {Place(<<k>>, "schema") : k \in SubschemaKeys}
    \cup {Place(<<k, Each>>, "schema") : k \in SubschemaArrays \cup SubschemaMaps}

\* What each kind of node holds, and where: all the walk goes by.
Places ==
    "document" :>
        ({Place(<<k, Ordinary>>, "path item") : k \in {"paths", "webhooks"}}
         \cup {Place(<<"components", "schemas", Each>>, "schema"),
               Place(<<"components", "responses", Each>>, "response"),
               Place(<<"components", "parameters", Each>>, "parameter"),
               Place(<<"components", "headers", Each>>, "parameter"),
               Place(<<"components", "requestBodies", Each>>, "body"),
               Place(<<"components", "callbacks", Each>>, "callback"),
               Place(<<"components", "pathItems", Each>>, "path item")})
    @@ "path item" :> (Parameters \cup {Place(<<m>>, "operation") : m \in Methods})
    @@ "operation" :>
        (Parameters \cup {Place(<<"requestBody">>, "body"),
                          Place(<<"responses", Ordinary>>, "response"),
                          Place(<<"callbacks", Ordinary>>, "callback")})
    @@ "callback" :> {Place(<<Ordinary>>, "path item")}
    @@ "parameter" :> ({Place(<<"schema">>, "schema")} \cup Content)
    @@ "body" :> Content
    @@ "response" :> (Headers \cup Content)
    @@ "media type" :>
        {Place(<<"schema">>, "schema"), Place(<<"encoding", Each, "headers", Each>>, "parameter")}
    @@ "schema" :> PlacesOfSchema

Fits(path, tokens) ==
    \A i \in DOMAIN path :
        path[i] \in {tokens[i], Each} \/ (path[i] = Ordinary /\ tokens[i] \notin Extensions)

\* The places below `at` that hold something.
Below(t, at, kind, legacy) ==
    UNION {{[at |-> SubSeq(a, 1, Len(at) + Len(place.path)), kind |-> place.kind, legacy |-> legacy] :
              a \in {b \in Under(t, at) : /\ Len(b) >= Len(at) + Len(place.path)
                                          /\ Fits(place.path, Past(at, b))}} :
           place \in Places[kind]}

\* normalize: the version decides the dialect, or the document is rejected.
DetectVersion ==
    /\ stage = "loaded" /\ ~source.bundle
    /\ stage' = CASE source.version = << >>  -> "no version"
                   [] source.version[1] # 3  -> "unsupported version"
                   [] ~source.describes      -> "no operations"
                   [] OTHER                  -> "walking"
    /\ unwalked' = IF stage' = "walking" THEN {[at |-> << >>, kind |-> "document", legacy |-> FALSE]}
                   ELSE {}
    /\ repairs' = IF stage' = "walking" /\ source.version[2] > 1 THEN {<<"newer version", << >>>>} ELSE {}
    /\ UNCHANGED <<source, tree, moved>>

\* bundle::read: the root is a schema, in the draft it declares.
ReadBundle ==
    /\ stage = "loaded" /\ source.bundle
    /\ stage' = "walking"
    /\ unwalked' = {[at |-> << >>, kind |-> "schema", legacy |-> source.nodes[<< >>].draft = "legacy"]}
    /\ UNCHANGED <<source, tree, moved, repairs>>

\* The place visited next.  Unvisited places are never inside one another, so
\* it does not matter which of them it is.
Upcoming == CHOOSE place \in unwalked : TRUE

\* A place that keeps schemas further down.
Descend ==
    LET place == Upcoming
    IN  /\ stage = "walking" /\ unwalked # {} /\ place.kind # "schema"
        /\ unwalked' = (unwalked \ {place}) \cup Below(tree, place.at, place.kind, place.legacy)
        /\ UNCHANGED <<source, stage, tree, moved, repairs>>

\* A schema, in the draft it declares itself in a bundle, and what is then
\* below it; an array or a boolean there is left as it is.
WalkSchema ==
    LET place  == Upcoming
        at     == place.at
        own    == tree[at]
        says   == source.bundle /\ own.draft # "unsaid"
        legacy == IF says THEN own.draft = "legacy" ELSE place.legacy
        read   == IF says /\ legacy THEN [tree EXCEPT ![at].draft = "unsaid"] ELSE tree
    IN  /\ stage = "walking" /\ unwalked # {} /\ place.kind = "schema"
        /\ \/ /\ at \in DOMAIN tree /\ own.is = "object"
              /\ tree' = Rewritten(read, at, legacy)
              /\ moved' = moved \o MovesOf(read, at, legacy)
              /\ repairs' = repairs \cup RepairsOf(read, at, legacy)
              /\ unwalked' = (unwalked \ {place}) \cup Below(tree', at, "schema", legacy)
           \/ /\ at \in DOMAIN tree => own.is # "object"
              /\ unwalked' = unwalked \ {place}
              /\ UNCHANGED <<tree, moved, repairs>>
        /\ UNCHANGED <<source, stage>>

FinishWalk ==
    /\ stage = "walking" /\ unwalked = {}
    /\ stage' = "rewritten"
    /\ UNCHANGED <<source, tree, unwalked, moved, repairs>>

NormalizeInit ==
    /\ source \in Drafts
    /\ stage = "loaded"
    /\ tree = [a \in DOMAIN source.nodes |-> [source.nodes[a] EXCEPT !.origin = a]]
    /\ unwalked = {}
    /\ moved = << >>
    /\ repairs = {}

NormalizeNext == DetectVersion \/ ReadBundle \/ Descend \/ WalkSchema \/ FinishWalk

NormalizeSpec == NormalizeInit /\ [][NormalizeNext]_normalizeVars

-----------------------------------------------------------------------------
(***************************************************************************)
(* What schemas accept                                                     *)
(***************************************************************************)
\* The draft in force at a written schema of a bundle: the nearest one
\* declared around it.
LegacyAt(at) ==
    LET declared == {n \in 0..Len(at) : LET a == SubSeq(at, 1, n)
                                        IN  a \in DOMAIN source.nodes /\ source.nodes[a].draft # "unsaid"}
    IN  /\ source.bundle /\ declared # {}
        /\ source.nodes[SubSeq(at, 1, CHOOSE n \in declared : \A m \in declared : m <= n)].draft = "legacy"

\* A branch that is the null arm of a union, which 3.0 has no other word for.
IsNullArm(t, at) == Len(at) > 1 /\ at[Len(at) - 1] \in Unions /\ IsBareNullable(t, at)

Members(t, at, keyword) ==
    {a[Len(at) + 2] : a \in {b \in Under(t, Append(at, keyword)) : Len(b) > Len(at) + 1}}
Branches(t, at, keyword) == {at \o <<keyword, m>> : m \in Members(t, at, keyword)}

\* Whether a tree's schema accepts a value, as 2020-12 reads it, or as the
\* dialect of the document does (`written`): 3.0's nullable, the boolean
\* bound, the draft-04 tuple, the draft-03 flag, draft-07's reference and
\* dependencies.  A reference accepts strings.  Two spellings of one thing
\* side by side are read as 2020-12 reads them.
RECURSIVE Accepts(_, _, _, _)
Accepts(t, at, v, written) ==
    LET own     == t[at]
        In(keyword, m) == Accepts(t, at \o <<keyword, m>>, v, written)
        legacy  == written /\ LegacyAt(at)
        null    == written /\ Dialect30 /\ own.nullable = "true" /\ v = Nil
        tuple   == written /\ HasTuple(t, at)
        split   == legacy /\ SplitsDependencies(t, at)
        prefix  == IF tuple THEN "items" ELSE "prefixItems"
        rest    == Append(at, IF tuple THEN "additionalItems" ELSE "items")
        fixed   == IF WritesArray(t, at, prefix) THEN Cardinality(Members(t, at, prefix)) ELSE 0
        flags   == IF written /\ own.flag = "unsaid"
                   THEN {Last(a) : a \in {f \in Flagged(t, at) : t[f].flag = "true"}} ELSE {}
        needs   == own.dependentRequired \cup IF split THEN own.dependencies ELSE {}
        depends == IF split THEN {"dependencies", "dependentSchemas"} ELSE {"dependentSchemas"}
        strict  == own.exclusive = "bound" \/ (written /\ own.exclusive = "true" /\ own.minimum)
        holds(keyword, k, value) == Accepts(t, at \o <<keyword, k>>, value, written)
        composed ==
            /\ own.ref # << >> => v.is = "string"
            /\ \A m \in Members(t, at, "allOf") : In("allOf", m)
            /\ Members(t, at, "anyOf") # {} => \E m \in Members(t, at, "anyOf") : In("anyOf", m)
            /\ Members(t, at, "oneOf") # {} =>
                   Cardinality({m \in Members(t, at, "oneOf") : In("oneOf", m)}) = 1
    IN  CASE own.is = "true"  -> TRUE
          [] own.is = "false" -> FALSE
          [] legacy /\ own.ref # << >> -> v.is = "string"
          [] written /\ Dialect30 /\ IsNullArm(t, at) -> v = Nil
          [] OTHER ->
             /\ own.types # {} => v.is \in own.types \/ null
             /\ own.enum # {} => v \in own.enum \/ null
             /\ (null /\ own.types = {}) \/ composed
             /\ v.is = "number" => /\ own.minimum => v.n >= 1
                                   /\ strict => v.n > 1
             /\ v.is = "object" =>
                   /\ own.required \cup flags \subseteq DOMAIN v.members
                   /\ \A need \in needs : need[1] \in DOMAIN v.members => need[2] \in DOMAIN v.members
                   /\ \A m \in Members(t, at, "properties") \cap DOMAIN v.members :
                          holds("properties", m, v.members[m])
                   /\ \A k \in depends : \A m \in Members(t, at, k) \cap DOMAIN v.members : In(k, m)
             /\ v.is = "array" =>
                   \A i \in DOMAIN v.items :
                      IF i <= fixed THEN holds(prefix, ToString(i - 1), v.items[i])
                      ELSE rest \in DOMAIN t => Accepts(t, rest, v.items[i], written)

\* What the text of a string holds: the text itself, or what it encodes.
Holding(schema) ==
    schema.content \cup IF SaysContent(schema) THEN {Formats[schema.format]} ELSE {}

-----------------------------------------------------------------------------
(***************************************************************************)
(* Properties                                                              *)
(***************************************************************************)
Kept == {at \in DOMAIN tree : tree[at].origin # Unwritten}

\* The schemas 2020-12 reads: those that are in no other object, and those at
\* its keywords below them.
RECURSIVE ReadBelow(_, _)
ReadBelow(t, S) ==
    LET more == DOMAIN t \cap UNION {{p.at : p \in Below(t, a, "schema", FALSE)} : a \in S}
    IN  IF more \subseteq S THEN S ELSE ReadBelow(t, S \cup more)
Registered(t) ==
    ReadBelow(t, {a \in DOMAIN t : /\ ~t[a].payload
                                   /\ \A n \in 0..(Len(a) - 1) : SubSeq(a, 1, n) \notin DOMAIN t})

\* Every schema accepts what it accepted in the dialect it was written in.
MeaningKept ==
    \A at \in Kept \cap Registered(tree) :
        LET origin == tree[at].origin
        IN  /\ \A v \in Instances :
                  Accepts(tree, at, v, FALSE) = Accepts(source.nodes, origin, v, TRUE)
            /\ tree[at].content = Holding(source.nodes[origin])

\* What looks like a schema and is none is left as it was written.
PayloadsKept ==
    \A a \in DOMAIN source.nodes : source.nodes[a].payload =>
        \A at \in Kept : tree[at].origin = a => tree[at] = [source.nodes[a] EXCEPT !.origin = a]

\* A document that does not declare 3.0 changes by reported repairs alone.
ChangesReported ==
    ~Dialect30 /\ repairs \subseteq {<<"newer version", << >>>>} =>
        \A a \in DOMAIN source.nodes :
            a \in DOMAIN tree /\ [tree[a] EXCEPT !.draft = "unsaid"]
                                  = [source.nodes[a] EXCEPT !.origin = a, !.draft = "unsaid"]

\* The written positions that `nullable` took into the branch of an `anyOf`.
IsWrapped(a) ==
    Dialect30 /\ \E n \in 0..(Len(a) - 1) :
        LET outer == SubSeq(a, 1, n)
        IN  /\ outer \in DOMAIN source.nodes /\ ~source.nodes[outer].payload
            /\ source.nodes[outer].nullable = "true" /\ source.nodes[outer].types = {}
            /\ a[n + 1] \in Compositions

\* Where a pointer to a written position ends up.
Pointed(a) == IF a \in DOMAIN tree THEN a ELSE ShiftedByAll(a, moved)
PointersFollow ==
    \A at \in Kept : ~IsWrapped(tree[at].origin) => Pointed(tree[at].origin) = at

\* Nothing but what stands beside a reference of draft-07 is dropped.
NothingDropped ==
    \A a \in DOMAIN source.nodes :
        \/ \E at \in Kept : tree[at].origin = a
        \/ \E n \in 0..(Len(a) - 1) : LET outer == SubSeq(a, 1, n)
                                      IN  /\ outer \in DOMAIN source.nodes /\ LegacyAt(outer)
                                          /\ source.nodes[outer].ref # << >>

Normalized == MeaningKept /\ PayloadsKept /\ ChangesReported /\ PointersFollow /\ NothingDropped

=============================================================================
