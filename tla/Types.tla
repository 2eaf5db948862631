-------------------------------- MODULE Types --------------------------------
(***************************************************************************)
(* The types the settled shapes become (contract/lower.rs), as module      *)
(* Decode reads them, what such a type writes a value back as, and what    *)
(* the two must have to do with the document: what it admits is read, and  *)
(* what it describes comes back.                                           *)
(***************************************************************************)
EXTENDS Shapes

CONSTANT Samples                 \* the payloads the documents are tried with

-----------------------------------------------------------------------------
(***************************************************************************)
(* Lowering.                                                               *)
(***************************************************************************)
RECURSIVE ShapeHoldsNull(_)
HoldsNull(key) == ShapeHoldsNull(shapes[key])
ShapeHoldsNull(shape) ==
    \/ shape.s \in {"any", "null", "optional"}
    \/ shape.s = "alias" /\ HoldsNull(shape.of)
    \/ /\ shape.s = "union" /\ shape.tag.property = ""
       /\ \E i \in DOMAIN shape.variants : HoldsNull(shape.variants[i].shape)

RECURSIVE OptionalBehindAliases(_)
OptionalBehindAliases(key) ==
    \/ shapes[key].s = "optional"
    \/ shapes[key].s = "alias" /\ OptionalBehindAliases(shapes[key].of)

FieldPresence(required, nullable, preserves) ==
    CASE required -> IF nullable THEN "Nullable" ELSE "Required"
      [] ~required -> IF ~nullable THEN "Optional"
                      ELSE IF preserves THEN "Presence" ELSE "OptionalNullable"

\* `preserves` is preserve_optional_nullable: absent, null and a value are three states.
RECURSIVE LoweredShape(_, _)
Lowered(key, preserves) == LoweredShape(shapes[key], preserves)
LoweredElement(key, preserves) == IF key = NoKey THEN [t |-> "any"] ELSE Lowered(key, preserves)

LoweredField(field, preserves) ==
    LET nullable == \/ OptionalBehindAliases(field.shape)
                    \/ ~field.required /\ HoldsNull(field.shape)
    IN  [name |-> field.wire, ty |-> Lowered(field.shape, preserves),
         declared |-> FieldPresence(field.required, nullable, preserves)]

LoweredStruct(shape, preserves) ==
    LET beside == shape.flattened # NoKey
    IN  [t |-> "struct", name |-> "",
         members |-> [i \in DOMAIN shape.fields |-> LoweredField(shape.fields[i], preserves)],
         unknown |-> CASE beside -> "Union"
                       [] ~beside /\ shape.extra = "Typed" -> "Capture"
                       [] ~beside /\ shape.extra = "Denied" -> "Deny"
                       [] ~beside /\ shape.extra = "Open" -> "Ignore",
         rest |-> LoweredElement(IF beside THEN shape.flattened ELSE shape.rest, preserves)]

LoweredUnion(shape, preserves) ==
    LET types == [i \in DOMAIN shape.variants |-> Lowered(shape.variants[i].shape, preserves)]
        tag == shape.tag
        Payload(ty) == IF tag.style = "Consumed"
                       THEN [t |-> "without", member |-> tag.property, of |-> ty] ELSE ty
    IN  IF tag.property = "" THEN [t |-> "untagged", variants |-> types]
        ELSE [t |-> "tagged", tag |-> tag.property, style |-> tag.style,
              absent |-> tag.absent, null |-> tag.null,
              variants |-> [i \in DOMAIN types |->
                              [names |-> shape.variants[i].spellings, ty |-> Payload(types[i])]]]

LoweredShape(shape, preserves) ==
    CASE shape.s = "any" -> [t |-> "any"]
      [] shape.s = "null" -> [t |-> "scalar", of |-> "null"]
      [] shape.s = "scalar" ->
            (CASE shape.of = "integer" -> [t |-> "scalar", of |-> "num"]
               [] shape.of = "number" -> [t |-> "number"]
               [] shape.of = "string" -> [t |-> "scalar", of |-> "str"])
      [] shape.s = "strings" ->
            IF shape.anyOther THEN [t |-> "scalar", of |-> "str"]
            ELSE [t |-> "enum", listed |-> {shape.values[i].s : i \in DOMAIN shape.values}]
      [] shape.s = "struct" -> LoweredStruct(shape, preserves)
      [] shape.s = "map" -> [t |-> "map", of |-> LoweredElement(shape.of, preserves)]
      [] shape.s = "array" -> [t |-> "list", of |-> LoweredElement(shape.of, preserves)]
      [] shape.s = "tuple" ->
            [t |-> "tuple", of |-> [i \in DOMAIN shape.items |-> Lowered(shape.items[i], preserves)]]
      [] shape.s = "fixed" -> [t |-> "tuple", of |-> [i \in 1 .. shape.len |-> Lowered(shape.of, preserves)]]
      [] shape.s = "optional" -> [t |-> "option", of |-> LoweredShape(shape.of, preserves)]
      [] shape.s = "alias" -> Lowered(shape.of, preserves)
      [] shape.s = "union" -> LoweredUnion(shape, preserves)
      [] shape.s = "keyed" ->
            [t |-> "keyed", units |-> shape.units,
             data |-> [i \in DOMAIN shape.data |->
                         [key |-> shape.data[i].key, ty |-> Lowered(shape.data[i].of, preserves)]]]

-----------------------------------------------------------------------------
(***************************************************************************)
(* Writing a value back, as the arbitrary JSON it comes out as.            *)
(***************************************************************************)
Members(of) == [k |-> "map", of |-> of]

RECURSIVE Written(_, _)
WrittenFields(ty, fields) ==
    LET Omitted(i) == fields[i] = NoValue /\ ty.members[i].declared \in {"Optional", "OptionalNullable", "Presence"}
        there == {i \in DOMAIN fields : ~Omitted(i)}
        At(name) == CHOOSE i \in there : ty.members[i].name = name
    IN  [name \in {ty.members[i].name : i \in there} |-> Written(ty.members[At(name)].ty, fields[At(name)])]

\* What the struct captured, or the union beside its fields, comes after its own members.
WrittenStruct(ty, v) ==
    Members(WrittenFields(ty, v.fields)
            @@ IF ty.unknown \in {"Capture", "Union"} THEN Written(ty.rest, v.rest).of ELSE << >>)

\* The wire names the arm: by its first name, unless a tag left on the variant names it as it is.
WrittenTagged(ty, v) ==
    LET arm == TagTable(ty)[v.at].variant
        variant == ty.variants[arm]
        payload == Written(variant.ty, v.value)
        named == IF ty.tag \notin DOMAIN payload.of THEN ty.absent = arm
                 ELSE LET own == payload.of[ty.tag]
                      IN  (own = Null /\ ty.null = arm) \/ (own.k = "str" /\ own.s \in ToSet(variant.names))
    IN  IF ty.style = "Carried" /\ named THEN payload
        ELSE Members((ty.tag :> StrOf(Head(variant.names))) @@ payload.of)

Written(ty, v) ==
    CASE v = NoValue \/ v = Null -> Null
      [] v.k = "open" -> v.value
      [] OTHER ->
         CASE ty.t \in {"any", "scalar", "number", "enum"} -> v
           [] ty.t = "option" -> Written(ty.of, v)
           [] ty.t = "without" -> Written(ty.of, v)
           [] ty.t = "list" -> [k |-> "seq", items |-> [i \in DOMAIN v.items |-> Written(ty.of, v.items[i])]]
           [] ty.t = "tuple" -> [k |-> "seq", items |-> [i \in DOMAIN v.items |-> Written(ty.of[i], v.items[i])]]
           [] ty.t = "map" -> Members([name \in DOMAIN v.of |-> Written(ty.of, v.of[name])])
           [] ty.t = "struct" -> WrittenStruct(ty, v)
           [] ty.t = "untagged" -> Written(ty.variants[v.at], v.value)
           [] ty.t = "tagged" -> WrittenTagged(ty, v)
           [] ty.t = "keyed" ->
                IF v.at = 0 THEN v.value
                ELSE Members(ty.data[v.at].key :> Written(ty.data[v.at].ty, v.value))

-----------------------------------------------------------------------------
(***************************************************************************)
(* What the document describes of a payload.                               *)
(***************************************************************************)
Admitting(ids, c) == {id \in ToSet(ids) : Admits(id, c)}
Spreads(s) == s.addl # 0 /\ doc[s.addl].is = "object"

Parted(c) == IF c.k = "seq" THEN DOMAIN c.items ELSE MemberNames(c)
PartOfPayload(c, at) == IF c.k = "seq" THEN c.items[at] ELSE MemberOf(c, at)

\* The schema of one member or element, 0 for none of its own.
SchemaAt(s, c, at) ==
    CASE c.k = "seq" -> IF at <= Len(s.prefix) THEN s.prefix[at] ELSE s.items
      [] c.k = "map" -> IF at \in DOMAIN s.props THEN s.props[at] ELSE IF Spreads(s) THEN s.addl ELSE 0

\* The sets of parts a schema describes of a payload: those it has a schema for itself and
\* those of every schema that holds with it, and of each union one branch the payload is of.
RECURSIVE Spoken(_, _)
NamesAll(id, c) == \E named \in Spoken(id, c) : Parted(c) \subseteq named
Spoken(id, c) ==
    LET s == doc[id]
        free == ~Constrains(s) /\ s.ref = 0 /\ s.allOf = << >>
        Speaks(at) == \/ free \/ (c.k = "seq" /\ SchemaAt(s, c, at) = 0)
                      \/ SchemaAt(s, c, at) # 0 /\ NamesAll(SchemaAt(s, c, at), PartOfPayload(c, at))
        Branch(ids) == IF ids = << >> THEN {{}} ELSE UNION {Spoken(next, c) : next \in Admitting(ids, c)}
        alongside == [i \in DOMAIN s.allOf |-> Spoken(s.allOf[i], c)]
                     \o <<Branch(s.oneOf), Branch(s.anyOf), IF s.ref = 0 THEN {{}} ELSE Spoken(s.ref, c)>>
        Joined(left, right) == {l \union r : l \in left, r \in right}
    IN  FoldLeft(Joined, {{at \in Parted(c) : Speaks(at)}}, alongside)

\* What is there of an object's member under each schema that declares it comes back.
RECURSIVE Retains(_, _, _, _)
RetainsMembers(s, c, w, preserves) ==
    LET Comes(name, id) ==
            \/ name \in DOMAIN w.of /\ Retains(id, MemberOf(c, name), w.of[name], preserves)
            \/ ~preserves /\ name \notin s.req /\ MemberOf(c, name) = Null
    IN  /\ w.k = "map"
        /\ \A name \in MemberNames(c) :
              /\ name \in DOMAIN s.props => Comes(name, s.props[name])
              /\ name \notin DOMAIN s.props /\ Spreads(s) => Comes(name, s.addl)
RetainsItems(s, c, w, preserves) ==
    /\ w.k = "seq" /\ Len(w.items) = Len(c.items)
    /\ \A i \in DOMAIN c.items :
          IF i <= Len(s.prefix) THEN Retains(s.prefix[i], c.items[i], w.items[i], preserves)
          ELSE s.items # 0 => Retains(s.items, c.items[i], w.items[i], preserves)
Retains(id, c, w, preserves) ==
    LET s == doc[id]
        Some(ids) == ids # << >> => \E next \in Admitting(ids, c) : Retains(next, c, w, preserves)
    IN  /\ CASE c.k = "map" -> RetainsMembers(s, c, w, preserves)
              [] c.k = "seq" -> RetainsItems(s, c, w, preserves)
              [] OTHER -> w = c
        /\ \A next \in ({s.ref} \ {0}) \union ToSet(s.allOf) : Retains(next, c, w, preserves)
        /\ Some(s.oneOf) /\ Some(s.anyOf)

\* One value is the other with members left out.
RECURSIVE PartOf(_, _)
PartOf(w, c) ==
    CASE w.k = "map" -> c.k = "map" /\ \A name \in DOMAIN w.of :
                            name \in DOMAIN c.of /\ PartOf(w.of[name], c.of[name])
      [] w.k = "seq" -> c.k = "seq" /\ Len(w.items) = Len(c.items)
                        /\ \A i \in DOMAIN w.items : PartOf(w.items[i], c.items[i])
      [] OTHER -> w = c

-----------------------------------------------------------------------------
(***************************************************************************)
(* Properties.                                                             *)
(***************************************************************************)
\* What is asked of the type at every position, with and without preserve_optional_nullable.
TypedAs(Says(_, _, _)) ==
    phase = "done" => \A id \in positions, preserves \in BOOLEAN :
        Says(id, Lowered(KeyOf(id), preserves), preserves)

\* Degrade outward, never inward: a payload the schema at a position admits is never
\* refused by the type generated for it (shape/classify.rs: the header).
NeverInward ==
    LET Accepts(id, ty, preserves) ==
            \A c \in Samples : Strict(ty, c).ok \/ ~Admits(id, c)
    IN  TypedAs(Accepts)

\* What the schemas describe of an admitted payload is written back as it came, whichever
\* branch of a union read it; only the null of an optional member may be left out, and that
\* only without preserve_optional_nullable.  A payload with members nothing names is left
\* aside: the first open branch that reads one drops them (shape/classify.rs: ambiguous).
NothingLost ==
    LET Keeps(id, ty, preserves) ==
            \A c \in Samples :
                LET read == Strict(ty, c)
                IN  read.ok /\ Admits(id, c) /\ ~Retains(id, c, Written(ty, read.v), preserves)
                        => ~NamesAll(id, c)
    IN  TypedAs(Keeps)

\* Nothing is written back that was not in the payload: no tag under another spelling, and
\* none where the payload had none (shape/discriminate.rs: reads_more_than_it_writes).
NothingInvented ==
    LET AddsNothing(id, ty, preserves) ==
            \A c \in Samples :
                LET read == Strict(ty, c)
                IN  read.ok /\ ~PartOf(Written(ty, read.v), Plain(c)) => ~Admits(id, c)
    IN  TypedAs(AddsNothing)

\* A type that gave up its tag is held by unions alone that write that tag for it: by no
\* position, member or element, and by no union of another tag or that leaves its tag on its
\* variants, however the rounds fell out (shape/discriminate.rs: the header, evaluate).
TagsStayOnTheWire ==
    phase = "done" => \A key \in DOMAIN strip :
        /\ \A id \in positions : KeyOf(id) # key
        /\ \A holder \in DOMAIN shapes :
              key \in ToSet(ChildKeys(shapes[holder])) =>
                  /\ IsTagged(shapes[holder])
                  /\ TaggedBy(holder).tag.style = "Consumed"
                  /\ TaggedBy(holder).tag.property = strip[key]

=============================================================================
