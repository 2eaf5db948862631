---------------------------- MODULE TypeGraph ----------------------------
(***************************************************************************)
(* The data the contract passes work on, and the questions they ask of it: *)
(* a type table is a sequence of contracts, a contract holds members, and  *)
(* a member's type reference is a chain of wrappers ending in a leaf that  *)
(* may name another entry of the table by position.                        *)
(*                                                                         *)
(* Abstracted: identifiers, wire names, docs and tag values. Two contracts *)
(* of one kind whose members correspond carry the same names here, so what *)
(* the fingerprint tells apart is the kind, the policy for undeclared      *)
(* members and the members' types. "Array" also stands for an inline tuple *)
(* with one item that names a type: both pass every question through.      *)
(***************************************************************************)
EXTENDS Naturals, Sequences, FiniteSets

Through == {"Option", "Presence", "Array"}
Indirecting == {"Vec", "Map", "Box"}
Forwarding == {"Option", "Presence", "Box"}
Wrap == Through \cup Indirecting
Leaf == {"Named", "Unit", "Scalar", "Text", "F64", "Address", "Value"}
TypeRef == [wraps : Seq(Wrap), leaf : Leaf, to : Nat]

Named(i) == [wraps |-> << >>, leaf |-> "Named", to |-> i]
LeafRef(leaf) == [wraps |-> << >>, leaf |-> leaf, to |-> 0]
Wrapped(w, ref) == [ref EXCEPT !.wraps = <<w>> \o ref.wraps]

Presence == {"Required", "Optional", "Nullable", "OptionalNullable"}
Capture == {"None", "Declared", "Undeclared", "Union"}
Member == [ty : TypeRef, presence : Presence, capture : Capture]

Kind == {"Struct", "Enum", "TaggedEnum", "CarriedTagEnum", "KeyedEnum",
         "StringEnum", "Newtype", "Tuple", "Alias"}
UnknownFields == {"Ignore", "Deny", "Capture"}

\* Who named a type: nobody, its title, the document's components, the caller.
Naming == {"inline", "title", "component", "configured"}

\* "half" is the strict type's read twin, the twin's strict half, or 0 for none.
Form == [mode : {"Strict", "Shared", "Lenient"}, half : Nat]

\* "origin" stands for the shape's address and its Rust name. (A union flattened
\* into a struct shares the struct's address, but never its name.)
Contract == [kind : Kind, members : Seq(Member), unknown : UnknownFields,
             naming : Naming, origin : Nat, form : Form]

IsRead(c) == c.form.mode \in {"Shared", "Lenient"}
IsLenient(c) == c.form.mode = "Lenient"

-----------------------------------------------------------------------------

Names(ref, i) == ref.leaf = "Named" /\ ref.to = i

\* The type a reference reaches without indirection, as the size of a value sees it.
Direct(ref) == \A k \in DOMAIN ref.wraps : ref.wraps[k] \in Through

\* A position that hands its whole value on, through wrappers alone.
Forwards(ref) ==
    /\ ref.leaf = "Named"
    /\ \A k \in DOMAIN ref.wraps : ref.wraps[k] \in Forwarding

References(c) == {c.members[k].ty : k \in DOMAIN c.members}

\* The positions in the table that a contract names.
Holds(c) == {ref.to : ref \in {r \in References(c) : r.leaf = "Named"}}

\* The references a decoder hands the same value it was handed.
Replayed(c) ==
    IF c.kind \in {"Alias", "Newtype", "Enum", "CarriedTagEnum"}
    THEN References(c)
    ELSE {c.members[k].ty : k \in {j \in DOMAIN c.members :
             c.kind = "Struct" /\ c.members[j].capture = "Union"}}

-----------------------------------------------------------------------------

\* Mutant: a holder of a position is not rewritten.
StayPut(ref, moved) == ref
Remap(ref, moved) ==
    IF ref.leaf = "Named" /\ ref.to \in DOMAIN moved
    THEN [ref EXCEPT !.to = moved[ref.to]] ELSE ref

Retyped(c, types) ==
    [c EXCEPT !.members = [k \in 1..Len(c.members) |->
        [c.members[k] EXCEPT !.ty = types[k]]]]

RemapContract(c, moved) ==
    Retyped(c, [k \in 1..Len(c.members) |-> Remap(c.members[k].ty, moved)])

\* Where a kept position lands once the others are dropped.
Rank(kept, i) == Cardinality({j \in kept : j <= i})

Keep(ts, kept) ==
    [k \in 1..Cardinality(kept) |-> ts[CHOOSE i \in kept : Rank(kept, i) = k]]

-----------------------------------------------------------------------------
(* Edges of a table, and the strongly connected components of an edge set. *)

\* From every position to those its chosen references name.
EdgesBy(refs) ==
    {e \in (DOMAIN refs) \X (DOMAIN refs) : \E ref \in refs[e[1]] : Names(ref, e[2])}

AllEdges(ts) == EdgesBy([i \in DOMAIN ts |-> References(ts[i])])
DirectEdges(ts) ==
    EdgesBy([i \in DOMAIN ts |-> {ref \in References(ts[i]) : Direct(ref)}])
ForwardEdges(ts) ==
    EdgesBy([i \in DOMAIN ts |-> {ref \in Replayed(ts[i]) : Forwards(ref)}])
AliasEdges(ts) ==
    {e \in AllEdges(ts) : ts[e[1]].kind = "Alias" /\ ts[e[2]].kind = "Alias"}

\* The pairs joined directly, or by way of k.
Joined(paths, n, k) ==
    paths \cup {p \in (1..n) \X (1..n) : <<p[1], k>> \in paths /\ <<k, p[2]>> \in paths}

\* The pairs joined by a path of edges E among the positions 1..n.
Paths(n, E) ==
    LET via[k \in 0..n] == IF k = 0 THEN E ELSE Joined(via[k - 1], n, k)
    IN  via[n]

Recursive(paths, i) == <<i, i>> \in paths
Together(paths, i, j) == <<i, j>> \in paths /\ <<j, i>> \in paths
Cyclic(n, E) == \E i \in 1..n : Recursive(Paths(n, E), i)

-----------------------------------------------------------------------------

\* The reference that is left once every alias it names is replaced by its
\* target. An alias's target keeps only the wrappers it spells itself: a named
\* alias under a wrapper is not followed.
Unaliased(ts, ref) ==
    LET step[k \in 0..Len(ts)] ==
            IF k = 0 THEN ref
            ELSE LET at == step[k - 1]
                 IN  IF at.leaf = "Named" /\ at.wraps = << >>
                        /\ ts[at.to].kind = "Alias"
                     THEN ts[at.to].members[1].ty ELSE at
    IN  step[Len(ts)]

SpellsOption(ref) == ref.wraps # << >> /\ Head(ref.wraps) = "Option"

==========================================================================
