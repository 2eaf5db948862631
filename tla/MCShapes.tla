------------------------------ MODULE MCShapes ------------------------------
(***************************************************************************)
(* A family of documents and of payloads for modules Shapes and Types.     *)
(***************************************************************************)
EXTENDS Types

MCNameOrder == <<"A", "B", "C", "a", "b", "k", "x", "y">>

\* The schemas every document ends with, by where they stand in it.
Texts6 == 6
AnyObject == 7
HoldsB == 8
Never == 9
Text == 10
Whole == 11
Num == 12
IsX == 13
IsY == 14
XorY == 15
TextOrNull == 16
NullOnly == 17
Free == 18
XorNull == 19

X == StrOf("x")
Y == StrOf("y")
Of(type) == [Blank EXCEPT !.types = {type}]
Obj(props, req, addl) == [Of("object") EXCEPT !.props = props, !.req = req, !.addl = addl]
Listing(values) == [Blank EXCEPT !.enum = values]

Leaves == <<[Of("array") EXCEPT !.items = Text], Of("object"), Obj("b" :> Text, {"b"}, Never),
          [Blank EXCEPT !.is = "false"], Of("string"), Of("integer"), Of("number"),
          [Of("string") EXCEPT !.const = X], [Blank EXCEPT !.const = Y],
          [Of("string") EXCEPT !.enum = <<X, Y>>], [Blank EXCEPT !.types = {"string", "null"}],
          Of("null"), Blank, Listing(<<Null, X>>)>>

Doc(head, componentNames, at) ==
    [schemas |-> head \o [i \in 1 .. 5 - Len(head) |-> Blank] \o Leaves,
     names |-> componentNames \o [i \in 1 .. 19 - Len(componentNames) |-> ""],
     positions |-> at]

-----------------------------------------------------------------------------
(***************************************************************************)
(* Two branches of every kind.                                             *)
(***************************************************************************)
AnyOf(ids) == [Blank EXCEPT !.anyOf = ids]
OneOf(ids) == [Blank EXCEPT !.oneOf = ids]
AllOf(ids) == [Blank EXCEPT !.allOf = ids]

MemberSets == {("a" :> Text), ("a" :> Whole), ("a" :> TextOrNull), ("b" :> Text), ("a" :> HoldsB),
               ("k" :> IsX), ("k" :> XorY), ("k" :> XorNull),
               ("a" :> Text @@ "b" :> Whole), ("a" :> Free), ("k" :> IsY @@ "a" :> Whole)}
Objectlike ==
    {o \in {Obj(props, req, addl) :
               props \in MemberSets, req \in {{}, {"a"}, {"b"}, {"k"}, {"a", "b"}}, addl \in {0, Never}} :
        o.req \subseteq DOMAIN o.props /\ (o.addl = Never => o.req = DOMAIN o.props)}
Branchlike ==
    Objectlike
    \union {Of("string"), Of("integer"), Of("number"), Of("null"), Blank, Of("object"), Of("array"),
            Listing(<<X>>), Listing(<<X, Y>>), Listing(<<NumOf(1), X>>),
            [Of("array") EXCEPT !.items = Text], [Of("array") EXCEPT !.items = Whole],
            [Of("array") EXCEPT !.items = Text, !.min = 2, !.max = 2],
            [Of("array") EXCEPT !.prefix = <<Text, Whole>>, !.items = Never, !.min = 2],
            [Of("array") EXCEPT !.prefix = <<Text>>, !.items = Whole, !.min = 1],
            [Of("object") EXCEPT !.addl = Whole], [Of("object") EXCEPT !.addl = XorY],
            Obj("a" :> Text, {"a"}, Whole), Obj("k" :> XorY, {}, Text)}

Either(a, b) == Doc(<<AnyOf(<<2, 3>>), a, b>>, << >>, {1})
\* A null tag names one branch and a missing tag could be either's.
NullNamesOne(a, b) ==
    /\ {a.types, b.types} = {{"object"}} /\ "k" \in DOMAIN a.props \cap DOMAIN b.props
    /\ XorNull \in {a.props["k"], b.props["k"]} /\ "k" \notin a.req \union b.req
Alternatives == {Either(a, b) : <<a, b>> \in {p \in Branchlike \X Branchlike : ~NullNamesOne(p[1], p[2])}}
NullTags == {Either(a, b) : <<a, b>> \in {p \in Branchlike \X Branchlike : NullNamesOne(p[1], p[2])}}

-----------------------------------------------------------------------------
(***************************************************************************)
(* Unions in unions, in members, in lists, and beside null.                *)
(***************************************************************************)
Few == {Obj("a" :> Text, {"a"}, 0), Obj("b" :> Text, {"b"}, 0), Obj("a" :> Text, {}, Never),
        Obj("k" :> XorY, {"k"}, 0), Of("string"), Of("null"), Listing(<<X, Null>>), Of("number")}
Fewer == {Obj("a" :> Text, {}, Never), Obj("k" :> XorY, {"k"}, 0), Of("string"), Of("null")}
Nested == {Doc(<<AnyOf(<<2, 3>>), inner, a, b, c>>, << >>, {1}) :
              inner \in {AnyOf(<<4, 5>>), OneOf(<<4, 5>>), AllOf(<<4, 5>>)}, a \in Few, b \in Few, c \in Fewer}
Inside == {Doc(<<outer, AnyOf(<<3, 4>>), a, b>>, << >>, {1}) :
              outer \in {Obj("a" :> 2, {}, 0), Obj("a" :> 2, {"a"}, 0), [Of("array") EXCEPT !.items = 2],
                         [Of("object") EXCEPT !.addl = 2], AllOf(<<2, Text>>)},
              a \in Few, b \in Few}

-----------------------------------------------------------------------------
(***************************************************************************)
(* Something beside a union, and schemas that hold at once.                *)
(***************************************************************************)
Beside == {Doc(<<[own EXCEPT !.anyOf = <<2, 3>>], a, b>>, << >>, {1}) :
              own \in {Obj("k" :> XorY, {"k"}, 0), Obj("a" :> Text, {}, 0), Obj("a" :> Whole, {}, Never),
                       Obj(<< >>, {"a"}, 0), Listing(<<X>>), Listing(<<X, NumOf(1), Null>>),
                       [Blank EXCEPT !.types = {"object", "null"}], [Of("object") EXCEPT !.addl = Text]},
              a \in Few, b \in Few \union {Listing(<<X, Y>>), Obj("b" :> Whole, {}, 0)}}
Together == {Doc(<<AllOf(<<2, 3>>), a, b>>, << >>, {1}) :
                a, b \in Few \union {Of("integer"), Listing(<<X, Y>>), Obj("a" :> XorY, {"a"}, 0),
                                     Obj("b" :> Text, {}, Never), AnyOf(<<Text, Num>>)}}

-----------------------------------------------------------------------------
(***************************************************************************)
(* Unions with a tag: constants of the branches or a discriminator, the    *)
(* branches shared with a position or with a second union.                 *)
(***************************************************************************)
Tag(property, mapping) == [property |-> property, mapping |-> mapping]
Mappings == {<< >>, ("x" :> 2 @@ "y" :> 3), ("x" :> 2 @@ "y" :> 2 @@ "B" :> 3), ("x" :> 2)}
Variantlike == {Obj("k" :> Text, {"k"}, 0), Obj("k" :> Text @@ "a" :> XorY, {"k"}, 0), Obj("a" :> Text, {}, 0),
                Obj("k" :> XorY, {}, 0), Obj("k" :> IsY, {"k"}, Never), Obj("k" :> Whole, {}, 0)}
ByA == [OneOf(<<3, 2>>) EXCEPT !.tag = Tag("a", "x" :> 3 @@ "y" :> 2)]
Seconds == {Blank, OneOf(<<2, 3>>), [OneOf(<<2, 3>>) EXCEPT !.tag = Tag("k", << >>)], Obj("b" :> 2, {}, 0)}
WithTag(mapping, a, b, second, at) ==
    Doc(<<[OneOf(<<2, 3>>) EXCEPT !.tag = Tag("k", mapping)], a, b, second>>, <<"", "A", "B">>, {1} \union at)
Seen(second) == IF second = Blank THEN {{}, {2}} ELSE {{4}, {2, 4}}
Tagged == UNION {{WithTag(mapping, a, b, second, at) :
                    mapping \in Mappings, a \in Variantlike, b \in Variantlike, at \in Seen(second)} :
                 second \in Seconds}

\* Two tags over the same branches, which declare both.
Declaring == {Obj("k" :> Text @@ "a" :> XorY, {"k"}, 0), Obj("k" :> XorY @@ "a" :> Text, {}, 0),
              Obj("k" :> IsY @@ "a" :> TextOrNull, {"a", "k"}, Never), Obj("k" :> Text @@ "a" :> Whole, {}, 0)}
TwoTags == {WithTag(mapping, a, b, ByA, at) :
               mapping \in Mappings, a \in Declaring, b \in Declaring, at \in {{2}, {4}}}

\* Two tags over the same branches, of which each is declared or not.
ForeignTags == {WithTag(mapping, a, b, ByA, {4}) : mapping \in Mappings, a \in Variantlike, b \in Variantlike}

-----------------------------------------------------------------------------
(***************************************************************************)
(* Externally tagged enums.                                                *)
(***************************************************************************)
Keyed == {Doc(<<OneOf(ids), Listing(<<X, Y>>), Obj("a" :> Whole, {"a"}, addl), Obj("b" :> under, {"b"}, 0),
                [Blank EXCEPT !.types = {"string", "object"}]>>, << >>, {1}) :
             ids \in {<<2, 3>>, <<2, 3, 4>>, <<3, 4>>, <<3, 4, 5>>}, addl \in {0, Never},
             under \in {Text, TextOrNull, AnyObject}}

\* Closed objects told apart by the values of a member, some of which they share.
Closed == {Obj("k" :> XorY, {"k"}, Never), Obj("k" :> IsY @@ "a" :> Text, {"k"}, Never),
           Obj("k" :> XorY @@ "a" :> Text, {"a", "k"}, Never), Obj("k" :> IsX @@ "a" :> TextOrNull, {"a", "k"}, Never),
           Obj("k" :> XorY @@ "a" :> HoldsB, {"k"}, Never)}
Partitions3 == {Doc(<<AnyOf(<<2, 3, 4>>), a, b, c>>, << >>, {1}) : a \in Closed, b \in Closed, c \in Closed}

\* A union, with a tag or without, beside members that none of its branches declares.
Flattened == {Doc(<<[Obj("k" :> Text, {"k"}, 0) EXCEPT !.oneOf = <<2, 3>>, !.tag = tag], a, b>>,
                  <<"", "A", "B">>, at) :
                 tag \in {NoTag, Tag("a", "x" :> 2 @@ "y" :> 3)}, at \in {{1}, {1, 2}},
                 a, b \in {Obj("a" :> XorY, {"a"}, 0), Obj("b" :> Text, {"b"}, 0), Obj("a" :> Text @@ "b" :> Text, {}, 0),
                           Obj("b" :> Whole, {"b"}, Never), Obj("a" :> IsX, {}, 0)}}

\* Lists that give their first elements schemas of their own, as long as those or longer.
ListOfEach(prefix, rest, atLeast) == [Of("array") EXCEPT !.prefix = prefix, !.items = rest, !.min = atLeast]
Tuples == {Doc(<<outer, list>>, << >>, {1, 2}) :
             outer \in {Obj("a" :> 2, {"a"}, 0), AnyOf(<<2, Whole>>), OneOf(<<2, NullOnly>>)},
             list \in {ListOfEach(<<Text, XorY>>, Never, 2), ListOfEach(<<Text>>, Whole, 0),
                       ListOfEach(<<Text>>, Whole, 1), ListOfEach(<<Whole, Num>>, Free, 0)}}

MCDescribed == {Alternatives, Nested, Inside, Beside, Together, Tagged, TwoTags, Keyed,
                Partitions3, Flattened, Tuples}
MCNullTags == {NullTags}
MCForeignTags == {ForeignTags}

-----------------------------------------------------------------------------
Scalars == {NumOf(1), Frac(1), X, Y, StrOf("z"), Null}
Objects1 == {MapOf(<<Entry(n, v)>>) : n \in {"a", "b", "k"}, v \in Scalars \union {MapOf(<<Entry("b", X)>>), StrOf("A"), StrOf("B")}}
Objects2 == {MapOf(<<Entry("k", v), Entry("a", w)>>) : v \in {X, Y, StrOf("A"), StrOf("B"), Null}, w \in {X, NumOf(1), Null}}
            \union {MapOf(<<Entry("a", v), Entry("b", w)>>) : v \in {X, NumOf(1), Null}, w \in {X, NumOf(1)}}
MCSamples == Scalars \union Objects1 \union Objects2
             \union {MapOf(<<Entry("k", X), Entry("a", X), Entry("b", w)>>) : w \in {X, NumOf(1)}}
             \union {MapOf(<<>>), MapOf(<<Entry("k", Y), Entry("b", X)>>), MapOf(<<Entry("k", Y), Entry("b", NumOf(1))>>),
                     MapOf(<<Entry("k", Y), Entry("a", MapOf(<<Entry("b", X)>>))>>), ListOf(<<>>), ListOf(<<X>>), ListOf(<<X, Y>>), ListOf(<<X, NumOf(1)>>),
                     ListOf(<<NumOf(1), NumOf(1)>>), MapOf(<<Entry("b", MapOf(<<Entry("k", X), Entry("a", Y)>>))>>)}

=============================================================================
