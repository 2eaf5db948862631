------------------------------- MODULE Unions -------------------------------
(***************************************************************************)
(* Which shape a key becomes (shape/classify.rs, key): the union table and *)
(* everything under it, on top of module Classify's questions about two    *)
(* branches.                                                               *)
(***************************************************************************)
EXTENDS Classify

\* The strings a member is bound to, and whether null is one of its values.
NoConstants == [are |-> FALSE, values |-> << >>, null |-> FALSE]
ListedConstants(view) ==
    LET values == ListedBesideNull(view)
    IN  IF values = << >> \/ \E v \in ToSet(values) : v.k # "str" THEN NoConstants
        ELSE [are |-> TRUE, values |-> Distinct([i \in DOMAIN values |-> values[i].s]),
              null |-> AdmitsNullType(view) /\ Null \in ToSet(Listed(view))]
UnionConstants(reading) ==
    LET inner == View(Head(reading.rest))
        values == reading.strings.values
        own == CASE reading.is = "one" -> IF inner.union = << >> THEN ListedConstants(inner) ELSE NoConstants
                 [] reading.is = "strings" ->
                        [are |-> ~reading.strings.anyOther, null |-> FALSE,
                         values |-> [i \in DOMAIN values |-> values[i].s]]
                 [] reading.is \in {"empty", "variants"} -> NoConstants
    IN  [own EXCEPT !.null = own.are /\ (@ \/ reading.null)]
ConstantsBeside(view, own, united) ==
    IF view.union = << >> THEN own
    ELSE IF own.are THEN [own EXCEPT !.null = @ /\ united.null]
    ELSE [united EXCEPT !.null = @ /\ AdmitsNullType(view)]
TagConstants(key) ==
    LET view == View(key)
    IN  ConstantsBeside(view, ListedConstants(view), UnionConstants(ReadingOf(view.union)))

\* The position of the one branch, 0 where there is none or more than one.
OnlyOne(at) == IF Cardinality(at) = 1 THEN CHOOSE i \in at : TRUE ELSE 0

-----------------------------------------------------------------------------
(***************************************************************************)
(* Branches that name themselves by a constant of their own.               *)
(***************************************************************************)
\* The members of all the branches that tell them apart, those of one value each first;
\* `bound` is what the member of each name is bound to in each branch.
ConstantTags(bound) ==
    LET Tells(name) ==
            /\ \A i \in DOMAIN bound[name] : bound[name][i].are
            /\ \A i, j \in DOMAIN bound[name] :
                  i # j => ToSet(bound[name][i].values) \cap ToSet(bound[name][j].values) = {}
        Once(name) == \A i \in DOMAIN bound[name] : Len(bound[name][i].values) = 1
        telling == SelectSeq(Ordered(DOMAIN bound), LAMBDA name : Tells(name))
    IN  SelectSeq(telling, LAMBDA name : Once(name)) \o telling

NamedByConstants(branches, views, bound, tags) ==
    LET name == Head(tags)
    IN  IF tags = << >> THEN Anything
        ELSE UnionOf([i \in DOMAIN branches |-> VariantOf(branches[i], bound[name][i].values)],
                     [NoDispatch EXCEPT !.property = name,
                        !.absent = OnlyOne({i \in DOMAIN views : name \notin views[i].req}),
                        !.null = OnlyOne({i \in DOMAIN views : bound[name][i].null})])
ToldByConstants(branches, views, bound) == NamedByConstants(branches, views, bound, ConstantTags(bound))
SelfNamed(branches) ==
    LET views == [i \in DOMAIN branches |-> View(branches[i])]
        shared == {name \in DOMAIN views[1].props : \A i \in DOMAIN views : name \in DOMAIN views[i].props}
    IN  IF Len(branches) < 2 \/ \E i \in DOMAIN views : KindOf(views[i]) # "object" THEN Anything
        ELSE ToldByConstants(branches, views,
                [name \in shared |-> [i \in DOMAIN views |-> TagConstants(views[i].props[name])]])

-----------------------------------------------------------------------------
(***************************************************************************)
(* serde's externally tagged enum: listed strings, and objects whose one   *)
(* member's key is the variant's name.                                     *)
(***************************************************************************)
DeclaresMembers(view) == SaysObject(view) \/ view.req # {} \/ view.tag # NoTag

ListsStrings(view) ==
    /\ KindOf(view) = "string" /\ DeclaresNoStructure(view) /\ Lists(view) /\ Listed(view) # << >>
    /\ \A v \in ToSet(Listed(view)) : v.k = "str"
SoleMember(view) ==
    /\ Cardinality(DOMAIN view.props) = 1 /\ view.req = DOMAIN view.props
    /\ KindOf(view) = "object"
    /\ view.addl = NoKey /\ ~SaysArray(view) /\ ~Lists(view) /\ view.tag = NoTag
AcceptsAnyStringOrObject(view) ==
    view.types = {"string", "object"} /\ DeclaresNoStructure(view) /\ ~Lists(view)

\* `strings` and `members` are the branches of either kind, at most one more may be open.
KeyedBy(view, views, strings, members) ==
    LET open == DOMAIN views \ (strings \union members)
        NameOf(i) == CHOOSE name \in DOMAIN views[i].props : TRUE
        units == UNION {{v.s : v \in ToSet(Listed(views[i]))} : i \in strings}
        keys == {NameOf(i) : i \in members}
        of == SelectSeq([i \in DOMAIN views |-> i], LAMBDA i : i \in members)
    IN  IF /\ ~DeclaresMembers(view)
           /\ \A i \in DOMAIN views : ~Reported(views[i]) /\ ~DeclaresNull(views[i])
           /\ \A i \in open : i = Len(views) /\ AcceptsAnyStringOrObject(views[i])
           /\ Cardinality(keys) = Cardinality(members) /\ keys # {} /\ units \cap keys = {}
        THEN [s |-> "keyed", units |-> units, open |-> open # {},
              data |-> [n \in DOMAIN of |-> [key |-> NameOf(of[n]), of |-> views[of[n]].props[NameOf(of[n])]]]]
        ELSE Anything
KeyedUnion(view, branches) ==
    LET views == [i \in DOMAIN branches |-> View(branches[i])]
    IN  KeyedBy(view, views, {i \in DOMAIN views : ListsStrings(views[i])},
                {i \in DOMAIN views : ~ListsStrings(views[i]) /\ SoleMember(views[i])})

-----------------------------------------------------------------------------
(***************************************************************************)
(* Closed objects told apart by the values a member of each lists, those   *)
(* listing one value by shape.                                             *)
(***************************************************************************)
PlainClosed(key) ==
    /\ Cardinality(key.parts) = 1
    /\ LET s == doc[Anchor(key)]
       IN  /\ s.is = "object" /\ s.types = {"object"} /\ DOMAIN s.props # {}
           /\ s.addl # 0 /\ doc[s.addl].is = "false"
           /\ s.ref = 0 /\ <<s.allOf, s.anyOf, s.oneOf, s.enum>> = << << >>, << >>, << >>, << >> >>
           /\ s.const = Nothing /\ s.tag = NoTag

\* The references from a member's schema to the one that lists its values.
RECURSIVE Followed(_, _)
Followed(id, links) ==
    LET s == doc[id]
    IN  /\ links <= MaxDepth
        /\ s.is = "object" /\ <<s.allOf, s.anyOf, s.oneOf>> = << << >>, << >>, << >> >>
        /\ s.ref # 0 => Followed(s.ref, links + 1)
PartitionValues(id) ==
    LET key == KeyOf(id)
        objects == Objects(key)
        each == FlattenSeq([i \in DOMAIN objects |->
                    objects[i].enum \o SelectSeq(<<objects[i].const>>, LAMBDA v : v # Nothing)])
        admits == [v \in ToSet(each) \union {Null} |-> KeyAdmits(key, v, 0)]
        kept == Distinct(SelectSeq(each, LAMBDA v : admits[v] = "yes"))
    IN  IF /\ Followed(id, 0)
           /\ admits[Null] = "no"
           /\ \A v \in ToSet(each) : v.k = "str" /\ admits[v] # "unknown"
        THEN [i \in DOMAIN kept |-> kept[i].s] ELSE << >>

\* Two schemas that say the same, written at one place or at two.
Skeleton(s) ==
    [s EXCEPT !.allOf = Len(@), !.oneOf = Len(@), !.anyOf = Len(@), !.prefix = Len(@),
              !.props = DOMAIN @, !.addl = (@ # 0), !.items = (@ # 0)]
Children(s) ==
    LET members == Ordered(DOMAIN s.props)
    IN  SelectSeq(s.allOf \o s.oneOf \o s.anyOf \o s.prefix \o <<s.addl, s.items>>, LAMBDA id : id # 0)
        \o [i \in DOMAIN members |-> s.props[members[i]]]
RECURSIVE SameWritten(_, _, _)
SameWritten(left, right, depth) ==
    \/ left = right
    \/ /\ depth <= MaxDepth
       /\ Skeleton(doc[left]) = Skeleton(doc[right])
       /\ \A i \in DOMAIN Children(doc[left]) :
            SameWritten(Children(doc[left])[i], Children(doc[right])[i], depth + 1)
SameSchema(left, right) ==
    \/ left = right
    \/ /\ left.branches = right.branches /\ Cardinality(left.parts) = Cardinality(right.parts)
       /\ \A i \in DOMAIN Parts(left) : SameWritten(Parts(left)[i], Parts(right)[i], 0)

ReadsAsWell(earlier, later, member) ==
    /\ earlier.denied
    /\ \A name \in DOMAIN earlier.props \ {member} :
          IF name \in DOMAIN later.props
          THEN /\ name \in earlier.req <=> name \in later.req
               /\ SameSchema(earlier.props[name], later.props[name])
          ELSE later.denied

RECURSIVE Refuses(_, _, _)
Refuses(earlier, later, depth) ==
    LET carried == later.req \cap DOMAIN later.props
    IN  /\ depth <= MaxDepth
        /\ \/ ~(carried \subseteq DOMAIN earlier.props)
           \/ \E name \in (earlier.req \cap DOMAIN earlier.props) \ DOMAIN later.props :
                ~GeneratesOption(earlier.props[name], 0)
           \/ \E name \in DOMAIN earlier.props \cap carried :
                /\ PlainClosed(earlier.props[name]) /\ PlainClosed(later.props[name])
                /\ Refuses(View(earlier.props[name]), View(later.props[name]), depth + 1)

Without(view, member) ==
    [view EXCEPT !.req = @ \ {member}, !.props = [name \in DOMAIN @ \ {member} |-> @[name]]]
TakesBeside(earlier, later, member) ==
    /\ \/ ~ReadsAsWell(View(earlier), View(later), member)
       \/ ViewOverreaches(Without(View(earlier), member), 0)
    /\ ~Refuses(View(earlier), View(later), 0)

ValuesBy(branches, name) ==
    [i \in DOMAIN branches |-> PartitionValues(doc[Anchor(branches[i])].props[name])]
Partitions(branches, name, values) ==
    LET sets == [i \in DOMAIN branches |-> ToSet(values[i])]
    IN  /\ \A i \in DOMAIN branches : values[i] # << >>
        /\ \E i \in DOMAIN sets : sets[i] # sets[1]
        /\ \E i, j \in DOMAIN sets : i # j /\ sets[i] \cap sets[j] # {}
        /\ \A i, j \in DOMAIN sets :
              i < j /\ sets[i] \cap sets[j] # {} => ~TakesBeside(branches[i], branches[j], name)

\* `values` is what each member that every branch insists on tells each branch by.
TaggedByFirst(branches, values, by) ==
    IF by = << >> THEN Anything
    ELSE UnionOf([i \in DOMAIN branches |-> VariantOf(branches[i], values[Head(by)][i])],
                 [NoDispatch EXCEPT !.property = Head(by), !.shared = TRUE])
PartitionedBy(branches, values) ==
    TaggedByFirst(branches, values,
        SelectSeq(Ordered(DOMAIN values), LAMBDA name : Partitions(branches, name, values[name])))

Partitioned(view, branches) ==
    LET views == [i \in DOMAIN branches |-> View(branches[i])]
        plain == view.tag = NoTag /\ \A i \in DOMAIN branches : PlainClosed(branches[i])
        required == {name \in views[1].req : \A i \in DOMAIN views :
                        name \in DOMAIN views[i].props /\ name \in views[i].req}
    IN  IF ~plain THEN Anything
        ELSE PartitionedBy(branches, [name \in required |-> ValuesBy(branches, name)])

-----------------------------------------------------------------------------
(***************************************************************************)
(* The union table.                                                        *)
(***************************************************************************)
ComponentName(key) ==
    LET named == {id \in DOMAIN doc : names[id] # "" /\ KeyOf(id) = key}
    IN  IF named = {} THEN "" ELSE names[Min(named)]

\* The tags a declared discriminator gives a branch: its mapping's, else its component's name.
Spellings(tag, key) ==
    LET mapped == SelectSeq(Ordered(DOMAIN tag.mapping), LAMBDA value : KeyOf(tag.mapping[value]) = key)
    IN  IF mapped # << >> THEN mapped
        ELSE SelectSeq(<<ComponentName(key)>>, LAMBDA name : name # "" /\ name \notin DOMAIN tag.mapping)
Dispatched(tag, branches) ==
    UnionOf([i \in DOMAIN branches |-> VariantOf(branches[i], Spellings(tag, branches[i]))],
            [NoDispatch EXCEPT !.property = tag.property])

Untagged(branches) == UnionOf([i \in DOMAIN branches |-> VariantOf(branches[i], << >>)], NoDispatch)

OrElse(shape, otherwise) == IF shape # Anything THEN shape ELSE otherwise
WithNull(shape, null) == IF null THEN OptionalOf(shape) ELSE shape
Peeled(shape, null) == IF null /\ shape.s # "optional" THEN OptionalOf(shape) ELSE shape

ToldApart(view, branches) ==
    OrElse(KeyedUnion(view, branches),
           OrElse(SelfNamed(branches),
                  IF ~Ambiguous(branches) THEN Untagged(branches) ELSE Partitioned(view, branches)))

\* The union with each union among its branches read as its branches.
SpreadShape(view, reading) ==
    CASE reading.is = "empty" -> Anything
      [] reading.is = "one" -> AliasOf(Head(reading.rest))
      [] reading.is = "strings" -> reading.strings
      [] reading.is = "variants" -> ToldApart(view, reading.rest)
SpreadAs(view, reading, shape) == IF shape = Anything THEN Anything ELSE Peeled(shape, reading.null)
SpreadRead(view, reading) == SpreadAs(view, reading, SpreadShape(view, reading))
SpreadUnion(view, branches) ==
    LET spread == SpreadInto(branches, {})
    IN  IF view.tag # NoTag \/ spread = branches THEN Anything ELSE SpreadRead(view, ReadingOf(spread))

Variants(view, branches) ==
    OrElse(ToldApart(view, branches),
           OrElse(SpreadUnion(view, branches),
                  IF view.tag = NoTag THEN Anything ELSE Dispatched(view.tag, branches)))

UnionRead(view, reading) ==
    CASE reading.is = "empty" -> IF reading.null THEN [s |-> "null"] ELSE Anything
      [] reading.is = "one" -> Peeled(AliasOf(Head(reading.rest)), reading.null)
      [] reading.is = "strings" -> Peeled(reading.strings, reading.null)
      [] reading.is = "variants" -> Peeled(Variants(view, reading.rest), reading.null)
UnionShape(view) == UnionRead(view, ReadingOf(view.union))

-----------------------------------------------------------------------------
(***************************************************************************)
(* Members declared beside a union, which a branch would drop.             *)
(***************************************************************************)
RECURSIVE DroppedMembers(_, _, _)
RECURSIVE LandsIntact(_, _, _)

\* NoKey is a value the document says nothing about.
KeepsUndeclared(target, member, depth) ==
    /\ ~target.denied /\ (DOMAIN target.props = {} \/ target.addl # NoKey)
    /\ LandsIntact(member, target.addl, depth)

DroppedMembers(source, destination, depth) ==
    LET target == View(destination)
        Keeps(member) == target.union = << >> /\ KeepsUndeclared(target, member, depth)
        Member(name) == IF name \in DOMAIN source.props THEN source.props[name] ELSE NoKey
        Drops(name) == IF name \in DOMAIN target.props
                       THEN ~LandsIntact(Member(name), target.props[name], depth)
                       ELSE ~Keeps(Member(name))
        fieldsKeep == \A name \in DOMAIN target.props \ DOMAIN source.props :
                        LandsIntact(source.addl, target.props[name], depth)
    IN  IF target.union = << >> /\ KindOf(target) # "object" THEN {}
        ELSE {name \in DOMAIN source.props \union source.req : Drops(name)}
             \union (IF source.addl # NoKey /\ (~Keeps(source.addl) \/ ~fieldsKeep) THEN {"*"} ELSE {})

LandsIntact(member, destination, depth) ==
    LET source == View(member)
        target == View(destination)
        declaresNothing == source.union = << >> /\ DOMAIN source.props = {} /\ source.req = {}
                           /\ source.addl = NoKey /\ ~SaysArray(source)
    IN  IF NoKey \in {member, destination} \/ member = destination THEN TRUE
        ELSE IF depth >= MaxDepth THEN FALSE
        ELSE IF declaresNothing \/ (target.union = << >> /\ KindOf(target) = "none") THEN TRUE
        ELSE IF source.union # << >> \/ target.union # << >> THEN FALSE
        ELSE CASE KindOf(source) \in {"string", "number", "null"} -> TRUE
               [] KindOf(source) = "object" ->
                    KindOf(target) = "object" /\ DroppedMembers(source, destination, depth + 1) = {}
               [] KindOf(source) = "array" ->
                    /\ KindOf(target) = "array" /\ source.prefix = << >> /\ target.prefix = << >>
                    /\ LandsIntact(source.items, target.items, depth + 1)
               [] KindOf(source) = "none" -> FALSE

\* Mutant: a union is taken as it is, whatever is declared beside it.
ForgetOwnMembers(view, shape) == shape

KeepOwnMembers(view, shape) ==
    LET inner == IF shape.s = "optional" THEN shape.of ELSE shape
        readers == CASE inner.s = "alias" -> {inner.of}
                     [] inner.s = "union" -> {v.shape : v \in ToSet(inner.variants)}
                     [] OTHER -> {}
        tag == IF inner.s = "union" THEN {inner.tag.property} ELSE {}
    IN  IF UNION {DroppedMembers(view, key, 0) : key \in readers} \subseteq tag THEN shape ELSE Anything

-----------------------------------------------------------------------------
(***************************************************************************)
(* Everything but unions, and the shape of a key.                          *)
(***************************************************************************)
ObjectShape(view) ==
    LET members == Ordered(DOMAIN view.props)
    IN  IF members = << >> /\ ~view.denied THEN [s |-> "map", of |-> view.addl]
        ELSE [s |-> "struct", flattened |-> NoKey,
              fields |-> [i \in DOMAIN members |->
                            [wire |-> members[i], shape |-> view.props[members[i]],
                             required |-> members[i] \in view.req]],
              extra |-> IF view.denied THEN "Denied" ELSE IF view.addl # NoKey THEN "Typed" ELSE "Open",
              rest |-> IF view.denied THEN NoKey ELSE view.addl]

ArrayShape(view) ==
    CASE view.prefix # << >> ->
            IF OpenTuple(view) THEN Anything ELSE [s |-> "tuple", items |-> view.prefix]
      [] view.prefix = << >> ->
            IF view.min = view.max /\ view.min > 0 /\ view.items # NoKey
            THEN [s |-> "fixed", of |-> view.items, len |-> view.min]
            ELSE [s |-> "array", of |-> view.items]

Untyped(view) ==
    IF SaysObject(view) THEN ObjectShape(view)
    ELSE IF SaysArray(view) THEN ArrayShape(view)
    ELSE IF EnumeratedKind(view) = "number"
    THEN ScalarOf(IF Integral(view) THEN "integer" ELSE "number")
    ELSE Anything

Core(view, key) ==
    LET strings == ListedBesideNull(view)
        types == Named(view)
        type == CHOOSE t \in types : TRUE
    IN  IF view.union # << >> /\ Flattens(view, view.union)
        THEN [ObjectShape(view) EXCEPT !.flattened = Branches(key)]
        ELSE IF view.union # << >> THEN KeepOwnMembers(view, UnionShape(view))
        ELSE IF strings # << >> /\ \A v \in ToSet(strings) : v.k = "str"
        THEN StringsOf(Distinct(strings), FALSE)
        ELSE IF Cardinality(types) > 1 THEN Anything
        ELSE IF types = {} THEN Untyped(view)
        ELSE CASE type = "object" -> ObjectShape(view)
               [] type = "array" -> ArrayShape(view)
               [] type \in {"string", "integer", "number"} -> ScalarOf(type)

ShapeOf(key) ==
    LET view == View(key)
    IN  IF Degraded(view) THEN Anything
        ELSE IF view.types = {"null"} THEN [s |-> "null"]
        ELSE WithNull(Core(view, key), DeclaresNull(view))

=============================================================================
