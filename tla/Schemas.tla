------------------------------- MODULE Schemas -------------------------------
(***************************************************************************)
(* The schemas of one document, the set of them a position is the meeting  *)
(* of (shape/merge.rs: its key), what they say together (the view), and    *)
(* how a list beside a union is narrowed (shape/listed.rs).                *)
(*                                                                         *)
(* A schema is a position of the sequence `doc`, 0 for none.  A keyword    *)
(* that is not written is {}, << >>, 0 or Nothing.  Payloads are those of  *)
(* module Decode; `prefix` is prefixItems, `pattern` the strings a pattern *)
(* matches, Unchecked where there is none.  References between schemas go  *)
(* forward only, and no allOf names a base that dispatches to its subtype: *)
(* both are module Keys'.  Formats and the width of integers are left out. *)
(***************************************************************************)
EXTENDS Decode

CONSTANT MaxDepth                \* how deep a union inside a union is followed

ASSUME MaxDepthAssumption == MaxDepth \in Nat

VARIABLES
    doc,                         \* the schemas, in document order
    names,                       \* the component name of each, "" for none
    viewed                       \* what the schemas of each key say together

Unbounded == 99                  \* maxItems not written
Nothing == [k |-> "nothing"]     \* const not written
Frac(n) == [k |-> "frac", n |-> n]          \* a number with a fractional part
AnyText == {"*"}                 \* pattern not written
NoTag == [property |-> "", mapping |-> << >>]

Blank == [is |-> "object", ref |-> 0, allOf |-> << >>, types |-> {}, enum |-> << >>,
          const |-> Nothing, oneOf |-> << >>, anyOf |-> << >>, tag |-> NoTag,
          props |-> << >>, req |-> {}, addl |-> 0, items |-> 0, prefix |-> << >>,
          min |-> 0, max |-> Unbounded, pattern |-> AnyText]

Numbers == {"num", "frac"}
Kinds(c) ==
    CASE c.k = "num" -> {"integer", "number"}
      [] c.k = "frac" -> {"number"}
      [] c.k = "str" -> {"string"}
      [] c.k = "seq" -> {"array"}
      [] c.k = "map" -> {"object"}
      [] c.k = "null" -> {"null"}

-----------------------------------------------------------------------------
(***************************************************************************)
(* What a document admits: JSON Schema's own rule, which no code states.   *)
(***************************************************************************)
MemberNames(c) == NamesIn(Entries(c))
MemberOf(c, name) == Head(Copies(c, name)).value

\* The schema a discriminator's value names, which OpenAPI alone speaks of; 0 for none.
NamedBy(tag, c) ==
    LET values == IF tag.property \in MemberNames(c) THEN Texts(MemberOf(c, tag.property)) ELSE {}
        mapped == {tag.mapping[value] : value \in values \cap DOMAIN tag.mapping}
        called == {id \in DOMAIN doc : names[id] # "" /\ names[id] \in values}
    IN  IF mapped # {} THEN Min(mapped) ELSE IF called # {} THEN Min(called) ELSE 0

RECURSIVE Admits(_, _)
AdmitsMembers(s, c) ==
    /\ s.req \subseteq MemberNames(c)
    /\ \A name \in MemberNames(c) :
          IF name \in DOMAIN s.props THEN Admits(s.props[name], MemberOf(c, name))
          ELSE s.addl # 0 => Admits(s.addl, MemberOf(c, name))
AdmitsItems(s, c) ==
    /\ Len(c.items) >= s.min /\ Len(c.items) <= s.max
    /\ \A i \in DOMAIN c.items :
          IF i <= Len(s.prefix) THEN Admits(s.prefix[i], c.items[i])
          ELSE s.items # 0 => Admits(s.items, c.items[i])
Admits(id, c) ==
    LET s == doc[id]
    IN  /\ s.is # "false"
        /\ s.is = "object" =>
            /\ s.ref # 0 => Admits(s.ref, c)
            /\ \A i \in DOMAIN s.allOf : Admits(s.allOf[i], c)
            /\ s.types # {} => s.types \cap Kinds(c) # {}
            /\ s.enum # << >> => \E i \in DOMAIN s.enum : s.enum[i] = c
            /\ s.const # Nothing => s.const = c
            /\ s.anyOf # << >> => \E i \in DOMAIN s.anyOf : Admits(s.anyOf[i], c)
            /\ s.oneOf # << >> => Cardinality({i \in DOMAIN s.oneOf : Admits(s.oneOf[i], c)}) = 1
            /\ s.tag # NoTag /\ c.k = "map" => NamedBy(s.tag, c) # 0 /\ Admits(NamedBy(s.tag, c), c)
            /\ s.pattern # AnyText /\ c.k = "str" => c.s \in s.pattern
            /\ c.k = "map" => AdmitsMembers(s, c)
            /\ c.k = "seq" => AdmitsItems(s, c)

-----------------------------------------------------------------------------
(***************************************************************************)
(* Keys: the schemas a position is the meeting of, and whether only the    *)
(* union they declare is meant, without the members beside it.             *)
(***************************************************************************)
Key(parts) == [parts |-> parts, branches |-> FALSE]
NoKey == Key({})
Branches(key) == [key EXCEPT !.branches = TRUE]
Anchor(key) == Min(key.parts)

Constrains(s) ==
    \/ s.types # {} \/ s.enum # << >> \/ s.const # Nothing
    \/ s.oneOf # << >> \/ s.anyOf # << >> \/ s.tag # NoTag
    \/ DOMAIN s.props # {} \/ s.req # {} \/ s.addl # 0
    \/ s.items # 0 \/ s.prefix # << >> \/ s.min > 0 \/ s.max # Unbounded
    \/ s.pattern # AnyText

\* A reference and an allOf are followed; what says nothing of its own is no part.
RECURSIVE Gathered(_)
Gathered(ids) ==
    LET from == {id \in ids : doc[id].is = "object"}
        further == {doc[id].ref : id \in from} \union UNION {ToSet(doc[id].allOf) : id \in from}
        all == ids \union (further \ {0})
    IN  IF all = ids THEN ids ELSE Gathered(all)

KeyOf(id) ==
    LET parts == {p \in Gathered({id}) :
                    doc[p].is = "false" \/ (doc[p].is = "object" /\ Constrains(doc[p]))}
    IN  Key(IF parts = {} THEN {id} ELSE parts)
KeysOf(ids) == [i \in DOMAIN ids |-> KeyOf(ids[i])]

\* The key of several schemas that hold at once.
MergedKey(ids) == Key(UNION {KeyOf(id).parts : id \in ids})
MaybeKey(ids) == IF ids = {} THEN NoKey ELSE MergedKey(ids)

\* The schemas of a key, in document order.
Parts(key) == SelectSeq([id \in DOMAIN doc |-> id], LAMBDA id : id \in key.parts)
Objects(key) ==
    LET parts == SelectSeq(Parts(key), LAMBDA id : doc[id].is = "object")
    IN  [i \in DOMAIN parts |-> doc[parts[i]]]
First(saying) == IF saying = << >> THEN Blank ELSE Head(saying)

-----------------------------------------------------------------------------
(***************************************************************************)
(* The view: what the schemas of a key say together.                       *)
(***************************************************************************)
Intersect(left, right) ==
    (left \cap right)
    \union (IF ("number" \in left /\ "integer" \in right) \/ ("number" \in right /\ "integer" \in left)
            THEN {"integer"} ELSE {})

FoldTypes(objects) ==
    FoldLeft(LAMBDA view, s :
                IF view.conflict \/ s.types = {} THEN view
                ELSE IF view.types = {} THEN [view EXCEPT !.types = s.types]
                ELSE [types |-> Intersect(view.types, s.types),
                      conflict |-> Intersect(view.types, s.types) = {}],
             [types |-> {}, conflict |-> FALSE], objects)

\* The lists that are written, meeting in the order of the first.
FoldEnums(objects) ==
    FoldLeft(LAMBDA view, s :
                IF s.enum = << >> THEN view
                ELSE IF ~view.lists THEN [lists |-> TRUE, enum |-> s.enum]
                ELSE [view EXCEPT !.enum = SelectSeq(@, LAMBDA v : v \in ToSet(s.enum))],
             [lists |-> FALSE, enum |-> << >>], objects)

\* Every list of branches the schemas declare, anyOf after oneOf.
Unions(objects) ==
    SelectSeq(FlattenSeq([i \in DOMAIN objects |-> <<objects[i].oneOf, objects[i].anyOf>>]),
              LAMBDA branches : branches # << >>)

Declared(objects) == UNION {DOMAIN objects[i].props : i \in DOMAIN objects}
DeclaredAs(objects, name) ==
    {objects[i].props[name] : i \in {j \in DOMAIN objects : name \in DOMAIN objects[j].props}}
Additional(objects) == {objects[i].addl : i \in DOMAIN objects} \ {0}
Keywords(s) ==
    (IF s.pattern # AnyText THEN {"pattern"} ELSE {})
    \union (IF s.min > 0 THEN {"minItems"} ELSE {})
    \union (IF s.max # Unbounded THEN {"maxItems"} ELSE {})

FoldedAs(key, objects, types, enums, unions) ==
    [types |-> types.types, conflict |-> types.conflict,
     lists |-> enums.lists, enum |-> enums.enum,
     const |-> First(SelectSeq(objects, LAMBDA s : s.const # Nothing)).const,
     union |-> IF unions = << >> THEN << >> ELSE KeysOf(Head(unions)),
     collide |-> Len(unions) > 1,
     tag |-> First(SelectSeq(objects, LAMBDA s : s.tag # NoTag)).tag,
     props |-> [name \in Declared(objects) |-> MergedKey(DeclaredAs(objects, name))],
     req |-> UNION {objects[i].req : i \in DOMAIN objects},
     addl |-> MaybeKey({id \in Additional(objects) : doc[id].is = "object"}),
     denied |-> \E id \in Additional(objects) : doc[id].is = "false",
     items |-> MaybeKey({objects[i].items : i \in DOMAIN objects} \ {0}),
     prefix |-> KeysOf(First(SelectSeq(objects, LAMBDA s : s.prefix # << >>)).prefix),
     min |-> Max({0} \union {objects[i].min : i \in DOMAIN objects}),
     max |-> Min({Unbounded} \union {objects[i].max : i \in DOMAIN objects}),
     more |-> UNION {Keywords(objects[i]) : i \in DOMAIN objects},
     impossible |-> \E id \in key.parts : doc[id].is = "false"]
FoldedOf(key, objects) ==
    FoldedAs(key, objects, FoldTypes(objects), FoldEnums(objects), Unions(objects))
Folded(key) == FoldedOf(key, Objects(key))

PlainView ==
    [types |-> {}, conflict |-> FALSE, lists |-> FALSE, enum |-> << >>, const |-> Nothing,
     union |-> << >>, collide |-> FALSE, tag |-> NoTag, props |-> << >>, req |-> {},
     addl |-> NoKey, denied |-> FALSE, items |-> NoKey, prefix |-> << >>,
     min |-> 0, max |-> Unbounded, more |-> {}, impossible |-> FALSE]

\* Nothing but a union: the members are the struct's that flattens it.
BranchesOnly(view) ==
    [PlainView EXCEPT !.types = view.types \cap {"object"}, !.union = view.union, !.tag = view.tag]

-----------------------------------------------------------------------------
(***************************************************************************)
(* A list beside a union: the values of the list that the union admits, as *)
(* far as that can be told.                                                *)
(***************************************************************************)
And(answers) == IF "no" \in answers THEN "no" ELSE IF "unknown" \in answers THEN "unknown" ELSE "yes"
Surely(condition) == IF condition THEN "yes" ELSE "no"

\* The answers of the branches as the answer of the union they are branches of.
Judged(answers, exactlyOne) ==
    LET yes == Cardinality({i \in DOMAIN answers : answers[i] = "yes"})
        unknown == "unknown" \in ToSet(answers)
    IN  CASE (exactlyOne /\ yes >= 2) \/ (yes = 0 /\ ~unknown) -> "no"
          [] (exactlyOne /\ yes = 1 /\ ~unknown) \/ (~exactlyOne /\ yes >= 1) -> "yes"
          [] OTHER -> "unknown"

RECURSIVE KeyAdmits(_, _, _)
UnionAdmits(keys, exactlyOne, c, depth) ==
    Judged([i \in DOMAIN keys |-> KeyAdmits(keys[i], c, depth)], exactlyOne)
ObjectAdmits(s, c, depth) ==
    And({"yes"}
        \union (IF s.pattern # AnyText /\ c.k = "str" THEN {"unknown"} ELSE {})
        \union (IF s.types # {} THEN {Surely(s.types \cap Kinds(c) # {})} ELSE {})
        \union (IF s.enum # << >> THEN {Surely(c \in ToSet(s.enum))} ELSE {})
        \union (IF s.const # Nothing THEN {Surely(s.const = c)} ELSE {})
        \union (IF s.anyOf # << >> THEN {UnionAdmits(KeysOf(s.anyOf), FALSE, c, depth + 1)} ELSE {})
        \union (IF s.oneOf # << >> THEN {UnionAdmits(KeysOf(s.oneOf), TRUE, c, depth + 1)} ELSE {}))
KeyAdmits(key, c, depth) ==
    IF depth > MaxDepth THEN "unknown"
    ELSE And({"yes"} \union {IF doc[id].is = "object" THEN ObjectAdmits(doc[id], c, depth)
                             ELSE Surely(doc[id].is = "true") : id \in key.parts})

OnlyNull(s) == s.types = {"null"}
IsNullAsWritten(key) == \E id \in key.parts : doc[id].is = "object" /\ OnlyNull(doc[id])

\* A branch one of whose schemas lists values of its own, all of them among these.
HoldsOnly(key, values) ==
    \E id \in key.parts :
        LET s == doc[id]
            own == CASE s.enum # << >> -> ToSet(s.enum)
                     [] s.enum = << >> /\ s.const # Nothing -> {s.const}
                     [] OTHER -> {Null}
        IN  \/ s.is = "false"
            \/ s.is = "object" /\ (s.enum # << >> \/ s.const # Nothing \/ OnlyNull(s)) /\ own \subseteq values

\* A union that already holds the list: one branch and perhaps null.
Holds(branches, values) ==
    LET nulls == {i \in DOMAIN branches : IsNullAsWritten(branches[i])}
    IN  /\ Len(branches) - Cardinality(nulls) = 1
        /\ nulls # {} => Null \in values
        /\ \A i \in DOMAIN branches : HoldsOnly(branches[i], values)

TypesOf(values, declared) ==
    LET whole == (declared = {} \/ "integer" \in declared) /\ \A v \in values : v.k # "frac"
    IN  UNION {IF v.k \in Numbers THEN {IF whole THEN "integer" ELSE "number"} ELSE Kinds(v) : v \in values}

Impossible(view) == [view EXCEPT !.union = << >>, !.tag = NoTag, !.impossible = TRUE]
Noted(view, keyword) == [view EXCEPT !.more = @ \union {keyword}]

\* `answers` is whether the union, and the types beside it, admit each value of the list.
NarrowedBy(view, listed, answers) ==
    LET kept == SelectSeq([i \in DOMAIN listed |-> i], LAMBDA i : answers[i] # "no")
        values == [i \in DOMAIN kept |-> listed[kept[i]]]
        checked == "unknown" \notin ToSet(answers)
        keyword == IF view.lists THEN "enum" ELSE "const"
        asList == [view EXCEPT !.union = << >>, !.tag = NoTag, !.lists = TRUE, !.enum = values,
                               !.const = Nothing, !.types = TypesOf(ToSet(values), view.types)]
    IN  CASE \E v \in ToSet(listed) : v.k \in {"seq", "map"} -> Noted(view, keyword)
          [] OTHER ->
                IF values = << >> THEN Impossible(view)
                ELSE IF checked /\ Holds(view.union, ToSet(values))
                THEN [view EXCEPT !.lists = FALSE, !.enum = << >>, !.const = Nothing, !.types = @ \ {"null"}]
                ELSE IF checked THEN asList ELSE Noted(asList, keyword)
Narrowed(view, listed, exactlyOne) ==
    NarrowedBy(view, listed,
               [i \in DOMAIN listed |->
                    And({IF view.types = {} THEN "yes" ELSE Surely(view.types \cap Kinds(listed[i]) # {}),
                         UnionAdmits(view.union, exactlyOne, listed[i], 0)})])

NarrowListed(key, view) ==
    LET declaresMembers == \/ DOMAIN view.props # {} \/ view.addl # NoKey
                           \/ view.items # NoKey \/ view.prefix # << >>
        listed == IF view.lists
                  THEN SelectSeq(view.enum, LAMBDA v : view.const \in {Nothing, v})
                  ELSE <<view.const>>
        exactlyOne == \E id \in key.parts : doc[id].oneOf # << >>
    IN  CASE view.collide \/ view.impossible \/ view.conflict \/ view.union = << >> -> view
          [] ~view.lists /\ view.const = Nothing -> view
          [] OTHER ->
                IF declaresMembers THEN Noted(view, IF view.lists THEN "enum" ELSE "const")
                ELSE IF listed = << >> THEN Impossible(view)
                ELSE Narrowed(view, listed, exactlyOne)

ViewAs(key, view) == IF key.branches THEN BranchesOnly(view) ELSE NarrowListed(key, view)
ViewOf(key) == ViewAs(key, Folded(key))

\* The code works a view out wherever it asks for one; nothing changes the answer, so the
\* model holds the views of all the keys a document's roots lead to.
View(key) == viewed[key]

KeysIn(key, view) ==
    (ToSet(view.union \o view.prefix) \union {view.addl, view.items}
     \union {view.props[name] : name \in DOMAIN view.props}
     \union IF view.union = << >> THEN {} ELSE {Branches(key)}) \ {NoKey}
RECURSIVE ViewsFrom(_, _)
Further(known) == ViewsFrom(known, UNION {KeysIn(key, known[key]) : key \in DOMAIN known})
ViewsFrom(known, keys) ==
    IF keys \subseteq DOMAIN known THEN known
    ELSE Further([key \in keys \ DOMAIN known |-> ViewOf(key)] @@ known)

=============================================================================
