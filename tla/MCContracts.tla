--------------------------- MODULE MCContracts ---------------------------
(* Bounded inputs for the contract passes: small tables whose kinds, names *)
(* and references are chosen so that each pass has something to do.        *)
EXTENDS Contracts

Bring(kind, members, naming, unknown) ==
    [kind |-> kind, members |-> members, unknown |-> unknown, naming |-> naming,
     origin |-> 0, form |-> [mode |-> "Strict", half |-> 0]]

Part(ref, presence, capture) == [ty |-> ref, presence |-> presence, capture |-> capture]
Item(ref) == Part(ref, "Required", "None")

Scalar == Item(LeafRef("Scalar"))
Optional(ref) == Part(Wrapped("Option", ref), "Optional", "None")

Struct(members) == Bring("Struct", members, "inline", "Ignore")
One(kind, ref) == Bring(kind, <<Item(ref)>>, "inline", "Ignore")
Called(naming, c) == [c EXCEPT !.naming = naming]

\* Names sort against positions, so that the two orders differ.
Table(row) == [i \in DOMAIN row |-> [row[i] EXCEPT !.origin = Len(row) + 1 - i]]

Lowered(row, use) ==
    [types |-> Table(row),
     byShape |-> [s \in Shapes |-> IF s \in DOMAIN row THEN Named(s) ELSE LeafRef("Scalar")],
     collapses |-> {[owner |-> i, at |-> i] : i \in {1} \cup 3..Len(row)},
     branches |-> {s \in Shapes : \E i \in DOMAIN row :
                    row[i].kind = "TaggedEnum" /\ s \in Holds(row[i])},
     requests |-> use.requests, responses |-> use.responses,
     lenient |-> use.lenient, orderedMap |-> TRUE,
     wanted |-> use.wanted, asked |-> use.asked, named |-> use.named]

Use(requests, responses) ==
    [requests |-> requests, responses |-> responses, lenient |-> TRUE,
     wanted |-> {"PartialEq", "PartialOrd", "Default"}, asked |-> {}, named |-> {}]

FourShapes == 1..4
TwoShapes == 1..2
OneShape == {1}

-----------------------------------------------------------------------------
(* Merging: two payloads, and two types that hold them.                    *)

Payloads ==
    {Called(naming, Struct(<< >>)) : naming \in {"inline", "title", "component"}}
        \cup {Bring("Struct", << >>, "inline", "Deny"), Struct(<<Scalar>>),
              Called("configured", Struct(<<Scalar>>))}

Repeats == {Struct(<< >>), Struct(<<Scalar>>), Called("component", Struct(<< >>))}

Holders(S) ==
    UNION {{Struct(<<Optional(Named(j))>>), One("TaggedEnum", Named(j))} : j \in S}
        \cup {Bring("TaggedEnum", <<Item(Named(1)), Item(Named(2))>>, "inline", "Ignore")}

MergeUses ==
    {Use({4}, {3}), Use({3}, {3, 4}), Use({}, {4}),
     [Use({4}, {3}) EXCEPT !.lenient = FALSE]}

MergeInputs ==
    {Lowered(<<a, b, Called(naming, c), d>>, use) :
        a \in Payloads, b \in Repeats, c \in Holders({1, 2}), d \in Holders({1, 2, 3}),
        naming \in {"inline", "component"}, use \in MergeUses}

-----------------------------------------------------------------------------
(* Forms and cycles: three types that hold one another in every way.       *)

Nullable(ref) == Part(ref, "Nullable", "None")

Wrappers(j) ==
    {One("Alias", Named(j)), One("Alias", Wrapped("Option", Named(j))),
     One("Alias", Wrapped("Vec", Named(j))), One("Newtype", Wrapped("Option", Named(j)))}

Unions(j) ==
    {Bring(kind, <<Item(Named(j)), Item(Named(3))>>, "inline", "Ignore") :
        kind \in {"Enum", "TaggedEnum", "CarriedTagEnum"}}

Structs(j) ==
    {Struct(<<Item(Named(j))>>), Struct(<<Optional(Named(j))>>),
     Struct(<<Nullable(Named(j))>>),
     Struct(<<Scalar, Part(Named(j), "Required", "Union")>>),
     Struct(<<Item(Wrapped("Array", Named(j))), Optional(Named(3))>>)}

\* Aliases of an Option of themselves: one for null alone, one of lists of itself.
Loops == {One("Alias", Wrapped("Option", Named(2))),
          One("Alias", Wrapped("Option", Wrapped("Vec", Named(2))))}

Leaves == {Struct(<<Scalar>>), Struct(<<Optional(LeafRef("F64"))>>)}

Firsts ==
    UNION {Wrappers(j) \cup Unions(j) \cup Structs(j) : j \in 1..3}
        \cup {Struct(<<Scalar, Nullable(Named(2))>>)}

Seconds ==
    UNION {Wrappers(j) \cup {One("Enum", Named(j)), Struct(<<Item(Named(j))>>),
                             Struct(<<Optional(Named(j))>>)} : j \in {1, 3}}
        \cup Leaves \cup Loops

Thirds == {Struct(<<Scalar>>), One("Alias", Wrapped("Option", Named(1))),
           Struct(<<Item(Named(2))>>)}

FormUses ==
    {Use({1}, {1}), Use({1}, {2}), Use({}, {1}),
     [Use({1}, {1}) EXCEPT !.named = {3}, !.asked = {"Ord"}]}

FormInputs ==
    {in \in {Lowered(<<a, b, c>>, use) :
                a \in Firsts, b \in Seconds, c \in Thirds, use \in FormUses} :
        WellFormed(in)}

AllInputs == MergeInputs \cup FormInputs

-----------------------------------------------------------------------------
(* One type with three optional members of its own type.                   *)

NodeInputs ==
    {Lowered(<<Struct([k \in 1..3 |-> Optional(Named(1))])>>, Use({1}, {1}))}

(* A type the configuration names asks for a derive, the type it holds does not. *)
NamedDeriveInputs ==
    {Lowered(<<Struct(<<Optional(Named(2))>>), Struct(<<Scalar>>)>>,
        [Use({1}, {}) EXCEPT !.wanted = {}, !.asked = {"PartialEq"}, !.named = {2}])}

==========================================================================
