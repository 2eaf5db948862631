------------------------------- MODULE Shapes -------------------------------
(***************************************************************************)
(* From a document to the types its payloads are read as: the work list    *)
(* that classifies every key a root reaches (shape/mod.rs), the rounds     *)
(* that settle what each proposed tag costs (shape/discriminate.rs), and   *)
(* the types the shapes become (contract/lower.rs), which module Decode    *)
(* reads payloads as.                                                      *)
(***************************************************************************)
EXTENDS Unions

CONSTANT Described               \* sets of documents: schemas, component names and positions

VARIABLES
    positions,                   \* the schemas an operation names, which payloads sit at
    queue,                       \* keys yet to classify, the next one last
    shapes,                      \* by_key: what each key was classified as
    modes,                       \* per union that proposed a tag: Consumed, Carried or Demoted
    strip,                       \* the types that gave up a tag, and which
    phase                        \* "start", "classify", "settle" or "done"

shapeVars == <<doc, names, viewed, positions, queue, shapes, modes, strip, phase>>

KeyOrNone(key) == IF key = NoKey THEN << >> ELSE <<key>>

RECURSIVE ChildKeys(_)
ChildKeys(shape) ==
    CASE shape.s \in {"any", "null", "scalar", "strings"} -> << >>
      [] shape.s = "struct" ->
            [i \in DOMAIN shape.fields |-> shape.fields[i].shape]
            \o KeyOrNone(shape.rest) \o KeyOrNone(shape.flattened)
      [] shape.s \in {"map", "array"} -> KeyOrNone(shape.of)
      [] shape.s = "tuple" -> shape.items
      [] shape.s \in {"fixed", "alias"} -> <<shape.of>>
      [] shape.s = "optional" -> ChildKeys(shape.of)
      [] shape.s = "union" -> [i \in DOMAIN shape.variants |-> shape.variants[i].shape]
      [] shape.s = "keyed" -> [i \in DOMAIN shape.data |-> shape.data[i].of]

-----------------------------------------------------------------------------
(***************************************************************************)
(* Settling the tags: a union consumes its tag where the variants are used *)
(* nowhere else, leaves it on them where each declares it, and becomes     *)
(* arbitrary JSON otherwise.                                               *)
(***************************************************************************)
\* Keys sort by their schemas, then the whole schema before its branches.
Lesser(p, q) ==
    \E n \in 0 .. Len(p) :
        /\ SubSeq(p, 1, n) = SubSeq(q, 1, n) /\ n < Len(q)
        /\ n = Len(p) \/ p[n + 1] < q[n + 1]
KeyPrecedes(a, b) ==
    IF a.parts = b.parts THEN ~a.branches /\ b.branches ELSE Lesser(Parts(a), Parts(b))

RECURSIVE UnionIn(_)
UnionIn(shape) == IF shape.s = "optional" THEN UnionIn(shape.of) ELSE shape
RECURSIVE WithUnion(_, _)
WithUnion(shape, union) ==
    IF shape.s = "optional" THEN [shape EXCEPT !.of = WithUnion(@, union)] ELSE union
IsTagged(shape) == UnionIn(shape).s = "union" /\ UnionIn(shape).tag.property # ""

Proposed == SetToSortSeq({key \in DOMAIN shapes : IsTagged(shapes[key])}, KeyPrecedes)
TaggedBy(key) == UnionIn(shapes[key])

FieldsOf(key) == IF shapes[key].s = "struct" THEN ToSet(shapes[key].fields) ELSE {}
HasField(key, wire) == \E f \in FieldsOf(key) : f.wire = wire

RECURSIVE TagShaped(_)
TagShaped(shape) ==
    CASE shape.s = "scalar" -> shape.of = "string"
      [] shape.s \in {"strings", "any"} -> TRUE
      [] shape.s = "optional" -> TagShaped(shape.of)
      [] shape.s = "alias" -> TagShaped(shapes[shape.of])
      [] OTHER -> FALSE

\* Positions where a payload really carries what its type declares.
BorrowedOutside ==
    {KeyOf(id) : id \in positions}
    \union UNION {ToSet(ChildKeys(shapes[key])) : key \in {k \in DOMAIN shapes : ~IsTagged(shapes[k])}}
\* Mutant: the positions of unions that came to carry their tag are not counted.
BorrowedAtFirst == BorrowedOutside

Borrowed ==
    BorrowedOutside
    \union UNION {ToSet(ChildKeys(shapes[key])) : key \in {k \in DOMAIN modes : modes[k] = "Carried"}}

Readers(union) == [i \in DOMAIN union.variants |-> union.variants[i].shape]
Writes(variant) == Head(variant.spellings)

RefusedOutright(union) ==
    LET tag == union.tag.property
    IN  \/ \E v \in ToSet(union.variants) : v.spellings = << >>
        \/ ~union.tag.shared /\ \E i, j \in DOMAIN union.variants :
                i # j /\ Writes(union.variants[i]) = Writes(union.variants[j])
        \/ \E key \in ToSet(Readers(union)) :
              \/ shapes[key].s # "struct"
              \/ \E f \in FieldsOf(key) : f.wire = tag /\ ~TagShaped(shapes[f.shape])

\* Mutant: only further spellings count, not an absent or null tag.
SpellsMoreThanItWrites(union) == \E v \in ToSet(union.variants) : Len(v.spellings) > 1

ReadsMoreThanItWrites(union) ==
    \/ union.tag.absent # 0 \/ union.tag.null # 0
    \/ \E v \in ToSet(union.variants) : Len(v.spellings) > 1

\* Why a union may not take its tag off its variants; `claimed` maps a variant to the tag it gave up.
MayNotConsume(union, claimed) ==
    LET declaring == {key \in ToSet(Readers(union)) : HasField(key, union.tag.property)}
    IN  \/ ReadsMoreThanItWrites(union)
        \/ union.tag.shared
        \/ declaring \cap Borrowed # {}
        \/ \E key \in declaring \cap DOMAIN claimed : claimed[key] # union.tag.property

SettledAs(union, claimed) ==
    IF RefusedOutright(union) THEN "Demoted"
    ELSE IF ~MayNotConsume(union, claimed) THEN "Consumed"
    ELSE IF \A key \in ToSet(Readers(union)) : HasField(key, union.tag.property) THEN "Carried"
    ELSE "Demoted"

\* One round: the unions still consuming their tag, each asked again in order.
Round ==
    FoldLeft(LAMBDA round, key :
                LET union == TaggedBy(key)
                    mode == SettledAs(union, round.claimed)
                    given == {k \in ToSet(Readers(union)) : HasField(k, union.tag.property)}
                                \ DOMAIN round.claimed
                IN  IF modes[key] # "Consumed" THEN round
                    ELSE [modes |-> [round.modes EXCEPT ![key] = mode],
                          claimed |-> IF mode # "Consumed" THEN round.claimed
                                      ELSE round.claimed @@ [k \in given |-> union.tag.property]],
             [modes |-> modes, claimed |-> << >>], Proposed)

\* A shape once the tags are settled.
Settled(key, claimed) ==
    LET shape == shapes[key]
        mode == IF key \in DOMAIN modes THEN modes[key] ELSE "Untouched"
    IN  CASE mode = "Demoted" -> Anything
          [] mode = "Carried" ->
                WithUnion(shape, [UnionIn(shape) EXCEPT !.tag.style = "Carried"])
          [] mode \notin {"Demoted", "Carried"} ->
                IF key \in DOMAIN claimed /\ shape.s = "struct"
                THEN [shape EXCEPT !.fields = SelectSeq(@, LAMBDA f : f.wire # claimed[key])]
                ELSE shape

-----------------------------------------------------------------------------
(***************************************************************************)
(* The steps.                                                              *)
(***************************************************************************)
ShapesInit ==
    /\ \E family \in Described : \E d \in family :
          doc = d.schemas /\ names = d.names /\ positions = d.positions
    /\ viewed = << >> /\ queue = << >> /\ shapes = << >> /\ modes = << >> /\ strip = << >>
    /\ phase = "start"

\* The roots: the components, and what the operations name.
Roots == SelectSeq([id \in DOMAIN doc |-> id], LAMBDA id : names[id] # "" \/ id \in positions)

Enqueue ==
    /\ phase = "start"
    /\ queue' = [i \in DOMAIN Roots |-> KeyOf(Roots[i])]
    /\ viewed' = ViewsFrom(<< >>, {KeyOf(id) : id \in ToSet(Roots)})
    /\ phase' = "classify"
    /\ UNCHANGED <<doc, names, positions, shapes, modes, strip>>

ClassifyKey ==
    /\ phase = "classify" /\ queue # << >>
    /\ LET key == Last(queue)
       IN  IF key \in DOMAIN shapes
           THEN queue' = Front(queue) /\ UNCHANGED shapes
           ELSE /\ shapes' = shapes @@ (key :> ShapeOf(key))
                /\ queue' = Front(queue) \o ChildKeys(shapes'[key])
    /\ UNCHANGED <<doc, names, viewed, positions, modes, strip, phase>>

Propose ==
    /\ phase = "classify" /\ queue = << >>
    /\ modes' = [key \in ToSet(Proposed) |-> "Consumed"]
    /\ phase' = "settle"
    /\ UNCHANGED <<doc, names, viewed, positions, queue, shapes, strip>>

SettleRound ==
    /\ phase = "settle" /\ Round.modes # modes
    /\ modes' = Round.modes
    /\ UNCHANGED <<doc, names, viewed, positions, queue, shapes, strip, phase>>

Settle ==
    /\ phase = "settle" /\ Round.modes = modes
    /\ shapes' = [key \in DOMAIN shapes |-> Settled(key, Round.claimed)]
    /\ strip' = Round.claimed
    /\ phase' = "done"
    /\ UNCHANGED <<doc, names, viewed, positions, queue, modes>>

ShapesNext == Enqueue \/ ClassifyKey \/ Propose \/ SettleRound \/ Settle

ShapesSpec == ShapesInit /\ [][ShapesNext]_shapeVars

=============================================================================
