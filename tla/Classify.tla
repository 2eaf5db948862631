------------------------------ MODULE Classify ------------------------------
(***************************************************************************)
(* What a key is as a type (shape/classify.rs): its view, peeled of null,  *)
(* is an object, a list, a scalar, a list of strings or a union, and a     *)
(* union is read by the shapes of its branches where those tell every      *)
(* payload apart, by a tag where only the tag does, and otherwise becomes  *)
(* arbitrary JSON.                                                         *)
(*                                                                         *)
(* Every depth the code stops at is 4; MaxDepth stands for each of them.   *)
(* Booleans, formats, patternProperties, and a discriminator on a schema   *)
(* without a union of its own (an inheritance family) are left out.        *)
(***************************************************************************)
EXTENDS Schemas

CONSTANT NameOrder               \* the member names and tags, as they sort

Ordered(set) == SelectSeq(NameOrder, LAMBDA name : name \in set)
Distinct(seq) ==
    LET kept == SelectSeq([i \in DOMAIN seq |-> i], LAMBDA i : \A j \in 1 .. i - 1 : seq[j] # seq[i])
    IN  [n \in DOMAIN kept |-> seq[kept[n]]]

Anything == [s |-> "any"]
ScalarOf(kind) == [s |-> "scalar", of |-> kind]
StringsOf(values, anyOther) == [s |-> "strings", values |-> values, anyOther |-> anyOther]
AliasOf(key) == [s |-> "alias", of |-> key]
OptionalOf(shape) == [s |-> "optional", of |-> shape]
NoDispatch == [property |-> "", style |-> "Consumed", absent |-> 0, null |-> 0, shared |-> FALSE]
VariantOf(key, spellings) == [shape |-> key, spellings |-> spellings]
UnionOf(variants, tag) == [s |-> "union", variants |-> variants, tag |-> tag]

-----------------------------------------------------------------------------
(***************************************************************************)
(* The kind of payload a view describes.                                   *)
(***************************************************************************)
Lists(view) == view.lists \/ view.const # Nothing
Listed(view) == IF view.lists THEN view.enum ELSE IF view.const # Nothing THEN <<view.const>> ELSE << >>
ListedBesideNull(view) == SelectSeq(Listed(view), LAMBDA v : v # Null)
DeclaresNull(view) == "null" \in view.types \/ (view.lists /\ Null \in ToSet(view.enum))
AdmitsNullType(view) == view.types = {} \/ "null" \in view.types
Degraded(view) == view.impossible \/ view.conflict \/ view.collide
Reported(view) == view.more # {} \/ Degraded(view) \/ view.union # << >>
Named(view) == view.types \ {"null"}

KindOfValue(v) ==
    CASE v.k \in Numbers -> "number"
      [] v.k = "str" -> "string"
      [] v.k = "seq" -> "array"
      [] v.k \in {"map", "null"} -> "object"
EnumeratedKind(view) ==
    LET kinds == {KindOfValue(v) : v \in ToSet(ListedBesideNull(view))}
    IN  IF Cardinality(kinds) = 1 THEN CHOOSE kind \in kinds : TRUE ELSE "none"
Integral(view) == Lists(view) /\ \A v \in ToSet(ListedBesideNull(view)) : v.k = "num"

SaysObject(view) == DOMAIN view.props # {} \/ view.addl # NoKey \/ view.denied
SaysArray(view) == view.items # NoKey \/ view.prefix # << >>

DeclaredKind(view) ==
    IF view.union # << >> \/ Degraded(view) THEN "none"
    ELSE IF view.types = {"null"} THEN "null"
    ELSE IF EnumeratedKind(view) = "string" THEN "string"
    ELSE IF Cardinality(Named(view)) > 1 THEN "none"
    ELSE IF Named(view) # {}
         THEN LET type == CHOOSE t \in Named(view) : TRUE
              IN  IF type = "integer" THEN "number" ELSE type
    ELSE IF SaysObject(view) THEN "object"
    ELSE IF SaysArray(view) THEN "array"
    ELSE IF EnumeratedKind(view) = "number" THEN "number" ELSE "none"

\* Mutant: what may follow the prefix is not looked at.
PrefixIsAll(view) == FALSE

OpenTuple(view) == view.prefix # << >> /\ view.items # NoKey /\ ~View(view.items).impossible

RECURSIVE KindOf(_)

\* Members and a union read as a struct with the union flattened beside its fields.
Flattens(view, branches) ==
    LET own == DOMAIN view.props \union view.req
    IN  /\ ~Degraded(view)
        /\ Cardinality(ToSet(branches)) >= 2
        /\ DOMAIN view.props # {} /\ view.req \subseteq DOMAIN view.props
        /\ ~view.denied /\ view.addl = NoKey
        /\ view.tag.property \notin own
        /\ \A branch \in ToSet(branches) :
              LET its == View(branch)
              IN  /\ its.union = << >> /\ ~DeclaresNull(its) /\ KindOf(its) = "object"
                  /\ (DOMAIN its.props \union its.req \union {its.tag.property}) \cap own = {}

KindOf(view) ==
    IF view.union # << >> /\ Flattens(view, view.union) THEN "object"
    ELSE IF DeclaredKind(view) = "array" /\ OpenTuple(view) THEN "none"
    ELSE DeclaredKind(view)

-----------------------------------------------------------------------------
(***************************************************************************)
(* The branches of a union, null and repeats set aside.                    *)
(***************************************************************************)
IsNull(key) == View(key).types = {"null"}
DeclaresNoStructure(view) ==
    ~SaysObject(view) /\ ~SaysArray(view) /\ view.req = {} /\ view.tag = NoTag
ReadsAnyString(view) == KindOf(view) = "string" /\ DeclaresNoStructure(view)

\* Branches that list strings, or read any string, as one list of strings.
FoldedStrings(branches) ==
    LET views == [i \in DOMAIN branches |-> View(branches[i])]
        each == FlattenSeq([i \in DOMAIN views |-> ListedBesideNull(views[i])])
        others == {i \in DOMAIN views : ~Lists(views[i])}
    IN  [folds |-> /\ \A i \in DOMAIN views : ~Reported(views[i])
                   /\ \A i \in others : ReadsAnyString(views[i])
                   /\ each # << >> /\ \A i \in DOMAIN each : each[i].k = "str",
         values |-> Distinct(each),
         anyOther |-> others # {},
         null |-> \E i \in DOMAIN views :
                    IF i \in others THEN DeclaresNull(views[i])
                    ELSE Null \in ToSet(Listed(views[i])) /\ AdmitsNullType(views[i])]

Reading(is, rest, null, strings) ==
    [is |-> is, rest |-> rest, null |-> null \/ (is = "strings" /\ strings.null),
     strings |-> IF is = "strings" THEN StringsOf(strings.values, strings.anyOther) ELSE Anything]
ReadAs(rest, null, strings) ==
    Reading(CASE Len(rest) = 0 -> "empty"
              [] Len(rest) = 1 -> "one"
              [] Len(rest) > 1 -> IF strings.folds THEN "strings" ELSE "variants",
            rest, null, strings)
ReadingOf(branches) ==
    LET rest == Distinct(SelectSeq(branches, LAMBDA key : ~IsNull(key)))
    IN  ReadAs(rest, \E i \in DOMAIN branches : IsNull(branches[i]), FoldedStrings(rest))

\* An anyOf and nothing beside it, which admits exactly what its branches do.
BareUnion(key) ==
    LET view == View(key)
    IN  /\ \A id \in key.parts : doc[id].oneOf = << >>
        /\ view.union # << >>
        /\ view = [PlainView EXCEPT !.union = view.union]

RECURSIVE SpreadInto(_, _)
SpreadInto(branches, open) ==
    FlattenSeq([i \in DOMAIN branches |->
        IF BareUnion(branches[i]) /\ branches[i] \notin open
        THEN SpreadInto(View(branches[i]).union, open \union {branches[i]})
        ELSE <<branches[i]>>])

\* Mutant: no type is an Option.
NeverOption(key, depth) == FALSE

\* Whether the type is an Option, which reads an absent member as none.
RECURSIVE GeneratesOption(_, _)
GeneratesOption(key, depth) ==
    LET view == View(key)
    IN  \/ depth > MaxDepth
        \/ DeclaresNull(view)
        \/ /\ view.union # << >>
           /\ \E reading \in {ReadingOf(SpreadInto(view.union, {}))} :
                \/ reading.null
                \/ reading.is = "one" /\ GeneratesOption(Head(reading.rest), depth + 1)

-----------------------------------------------------------------------------
(***************************************************************************)
(* What the type of an earlier branch does with the payloads of a later    *)
(* one: serde tries the branches in order and keeps the first that reads.  *)
(***************************************************************************)
\* A branch as the type generated for it reads: what one branch reads (through),
\* a union of several, or one view, whole or with a union flattened beside it.
BranchAs(view, reading) ==
    LET Leaf(it) == [is |-> "leaf", view |-> it, keys |-> << >>]
        Meant(types, values) == [PlainView EXCEPT !.types = types, !.lists = values # << >>, !.enum = values]
        nullType == IF reading.null THEN {"null"} ELSE {}
    IN  IF view.union # << >> /\ Flattens(view, view.union)
        THEN [is |-> "flattened", view |-> [view EXCEPT !.union = << >>], keys |-> << >>]
        ELSE IF view.union = << >> \/ Degraded(view) THEN Leaf(view)
        ELSE CASE reading.is = "one" -> [is |-> "through", view |-> view, keys |-> reading.rest]
               [] reading.is = "variants" -> [is |-> "union", view |-> view, keys |-> reading.rest]
               [] reading.is = "empty" -> Leaf(Meant(nullType, << >>))
               [] reading.is = "strings" ->
                    Leaf(Meant({"string"} \union nullType,
                               IF reading.strings.anyOther THEN << >> ELSE reading.strings.values))
BranchOf(key) == BranchAs(View(key), ReadingOf(View(key).union))

ListsBesideItsUnion(key) == View(key).union # << >> /\ Lists(View(key))

RECURSIVE ViewOverreaches(_, _)
RECURSIVE Overreaches(_, _)
Overreaches(key, depth) ==
    \/ depth > MaxDepth
    \/ ListsBesideItsUnion(key)
    \/ \E branch \in {BranchOf(key)} :
           CASE branch.is \in {"union", "flattened"} -> TRUE
             [] branch.is = "leaf" -> ViewOverreaches(branch.view, depth)
             [] branch.is = "through" -> Overreaches(Head(branch.keys), depth + 1)

\* The values of a view the type generated for it reads and its schema refuses.
ViewOverreaches(view, depth) ==
    LET elements == ToSet(view.prefix)
                    \union (IF view.items = NoKey \/ (view.prefix # << >> /\ View(view.items).impossible)
                            THEN {} ELSE {view.items})
        members == {view.props[name] : name \in DOMAIN view.props} \union ({view.addl} \ {NoKey})
        Inside(kind) == CASE kind = "array" -> elements [] kind = "object" -> members [] OTHER -> {}
    IN  \E kind \in {KindOf(view)} :
        \/ Degraded(view)
        \/ view.more \cap {"enum", "const"} # {}
        \/ kind \notin {"none", "null"} /\ Lists(view)
        \/ \E key \in Inside(kind) : Overreaches(key, depth + 1)
        \/ kind = "object" /\ \E name \in view.req :
                name \in DOMAIN view.props => GeneratesOption(view.props[name], 0)
        \/ kind = "none" /\ (DeclaredKind(view) # "none" \/ Lists(view) \/ view.req # {} \/ Named(view) # {})

\* An object or a list that says nothing about what is in it.
Unconstrained(key) ==
    \/ key = NoKey
    \/ \E branch \in {BranchOf(key)} :
          branch.is = "leaf" /\ KindOf(branch.view) = "none" /\ ~Lists(branch.view)
AdmitsItsKind(view, kind) ==
    /\ ~Lists(view)
    /\ kind \in {"object", "array"}
    /\ kind = "object" => DOMAIN view.props = {} /\ view.req = {} /\ ~view.denied
    /\ kind = "array" => view.prefix = << >>
    /\ Unconstrained(IF kind = "object" THEN view.addl ELSE view.items)

\* Whether what the type accepts it writes back whole.
RECURSIVE ReadsWhole(_, _)
ReadsWhole(view, depth) ==
    LET Member(key) == ReadsWhole(View(key), depth + 1)
    IN  /\ depth <= MaxDepth /\ view.union = << >>
        /\ \E kind \in {KindOf(view)} :
           CASE kind = "none" -> ~Degraded(view)
             [] kind \in {"string", "null"} -> TRUE
             [] kind = "number" -> "integer" \in view.types /\ "number" \notin view.types
             [] kind = "array" -> view.prefix = << >> /\ (view.items # NoKey => Member(view.items))
             [] kind = "object" ->
                    IF DOMAIN view.props = {} /\ ~view.denied THEN view.addl # NoKey => Member(view.addl)
                    ELSE /\ view.denied
                         /\ \A name \in DOMAIN view.props :
                                /\ name \in view.req
                                /\ ~GeneratesOption(view.props[name], 0) /\ Member(view.props[name])

\* Whether the object tried first turns down every payload of a later one.
Insists(view, name) ==
    name \in view.req /\ name \in DOMAIN view.props /\ ~GeneratesOption(view.props[name], 0)
RECURSIVE Rejects(_, _, _)
Rejects(earlier, later, depth) ==
    LET KindAt(key) == KindOf(View(key))
        Missing(name) ==
            /\ name \notin DOMAIN later.props
            /\ \/ later.addl = NoKey /\ (DOMAIN later.props # {} \/ later.denied)
               \/ /\ later.addl # NoKey
                  /\ "none" \notin {KindAt(earlier.props[name]), KindAt(later.addl)}
                  /\ KindAt(earlier.props[name]) # KindAt(later.addl)
        Apart(name) ==
            LET here == View(earlier.props[name])
                there == View(later.props[name])
            IN  /\ \E view \in {later, earlier} : Insists(view, name)
                /\ "none" \notin {KindOf(here), KindOf(there)}
                /\ \/ KindOf(here) # KindOf(there)
                   \/ /\ KindOf(here) = "object" /\ depth < MaxDepth
                      /\ here.union = << >> /\ there.union = << >>
                      /\ Rejects(here, there, depth + 1)
    IN  \/ \E name \in earlier.req : Insists(earlier, name) /\ Missing(name)
        \/ earlier.denied /\ ~(later.req \subseteq DOMAIN earlier.props)
        \/ \E name \in DOMAIN earlier.props \cap DOMAIN later.props : Apart(name)

IntegerRefuses(view, v) ==
    v.k = "frac" /\ (Named(view) = {"integer"} \/ (Named(view) = {} /\ Integral(view)))
ScalarSwallows(first, second) ==
    /\ Lists(first)
    /\ ~(Lists(second) /\ \A v \in ToSet(Listed(second)) :
            v \in ToSet(Listed(first)) \/ IntegerRefuses(first, v))

RECURSIVE Swallows(_, _, _)
ViewSwallows(earlier, later, depth) ==
    LET first == earlier.view
        second == later.view
    IN  \E left \in {KindOf(first)}, right \in {KindOf(second)}, overreaches \in {ViewOverreaches(first, 0)} :
          IF left = "none" THEN TRUE
          ELSE IF \/ right = "none"
                  \/ right = left /\ later.is # "flattened" /\ AdmitsItsKind(second, right)
          THEN earlier.is = "flattened" \/ overreaches
          ELSE IF right # left THEN FALSE
          ELSE CASE left = "object" ->
                       IF ReadsWhole(first, 0) /\ ~overreaches THEN FALSE
                       ELSE later.is = "flattened" \/ ~Rejects(first, second, 0)
                 [] left = "array" ->
                       IF NoKey \in {first.items, second.items} THEN TRUE
                       ELSE Swallows(first.items, second.items, depth)
                 [] left \in {"string", "number"} -> ScalarSwallows(first, second)
                 [] left = "null" -> FALSE

Swallows(earlier, later, depth) ==
    \E first \in {BranchOf(earlier)}, second \in {BranchOf(later)} :
        IF earlier = later THEN FALSE
        ELSE IF depth > MaxDepth \/ ListsBesideItsUnion(earlier) THEN TRUE
        ELSE IF first.is = "through" THEN Swallows(Head(first.keys), later, depth + 1)
        ELSE IF first.is = "union" THEN TRUE
        ELSE IF second.is = "through" THEN Swallows(earlier, Head(second.keys), depth + 1)
        ELSE IF second.is = "union"
             THEN \E i \in DOMAIN second.keys : Swallows(earlier, second.keys[i], depth + 1)
        ELSE ViewSwallows(first, second, depth + 1)

StringLeaf(branch) == branch.is = "leaf" /\ KindOf(branch.view) = "string"
ReadsEveryString(key) == \E branch \in {BranchOf(key)} : StringLeaf(branch) /\ ~Lists(branch.view)
ReadsStringsOnly(key) == \E branch \in {BranchOf(key)} : StringLeaf(branch) /\ ~DeclaresNull(branch.view)

\* Mutant: branches of one kind are always told apart.
NeverAmbiguous(branches) == FALSE

Ambiguous(branches) ==
    \E i, j \in DOMAIN branches :
        /\ i < j
        /\ ~(ReadsStringsOnly(branches[j]) /\ \E e \in 1 .. i - 1 : ReadsEveryString(branches[e]))
        /\ Swallows(branches[i], branches[j], 0)

=============================================================================
