------------------------------ MODULE MCClient ------------------------------
(***************************************************************************)
(* The jobs of Client that TLC checks: single answers of every shape       *)
(* against every kind of type, streams over pages that drift in every      *)
(* place, and bodies cut, limited and broken in every way.                 *)
(***************************************************************************)
EXTENDS Client

Json == [t |-> "any"]
N == [t |-> "scalar", of |-> "num"]
S == [t |-> "scalar", of |-> "str"]
E == [t |-> "enum", listed |-> {"a", "b"}]
List(of) == [t |-> "list", of |-> of]
Map(of) == [t |-> "map", of |-> of]
Option(of) == [t |-> "option", of |-> of]
Field(name, declared, ty) == [name |-> name, declared |-> declared, ty |-> ty]
Struct(name, members, unknown, rest) ==
    [t |-> "struct", name |-> name, members |-> members, unknown |-> unknown, rest |-> rest]
Untagged(variants) == [t |-> "untagged", variants |-> variants]
Tagged(variants, absent, null) ==
    [t |-> "tagged", tag |-> "t", variants |-> variants, absent |-> absent, null |-> null]
Keyed(ty) == [t |-> "keyed", units |-> {"a"}, data |-> <<[key |-> "x", ty |-> ty]>>]

-----------------------------------------------------------------------------
(***************************************************************************)
(* Single answers.                                                         *)
(***************************************************************************)
Presences == {"Required", "Optional", "Nullable", "OptionalNullable", "Presence"}

\* One member x, and what becomes of the rest.
One(declared, ty, unknown) == Struct("A", <<Field("x", declared, ty)>>, unknown, N)
Two(ty) == Struct("B", <<Field("x", "Required", ty), Field("y", "Optional", S)>>, "Ignore", N)

Flat == {Json, N, S, E, Option(N), List(N), Map(N)}
Structs == {One(d, ty, u) : d \in Presences, ty \in Flat \ {Option(N)},
                            u \in {"Ignore", "Deny", "Capture"}}
              \cup {Two(ty) : ty \in {N, E}}

Narrow == One("Required", N, "Deny")
Wide == One("Optional", S, "Ignore")
Branches == {Narrow, Wide, One("Nullable", N, "Ignore"), One("Required", E, "Capture"), N, List(N)}
Untaggeds == {Untagged(<<a, b>>) : a \in Branches, b \in Branches}

CarryingTag(declared, ty) ==
    Struct("V", <<Field("t", declared, S), Field("x", "Required", ty)>>, "Ignore", N)
Taggeds ==
    {Tagged(<<[names |-> <<"a", other>>, ty |-> CarryingTag("Optional", N)],
              [names |-> <<"b">>, ty |-> CarryingTag(d, S)]>>, absent, null) :
        other \in {"z", "b"}, d \in {"OptionalNullable", "Nullable"},
        absent \in {0, 2}, null \in {0, 1}}
Keyeds == {Keyed(ty) : ty \in {N, Narrow, List(N), Two(N)}}

Unions == {Untagged(<<Narrow, Wide>>), Untagged(<<Wide, Narrow>>), Keyed(Narrow), Keyed(List(N)),
           Tagged(<<[names |-> <<"a">>, ty |-> CarryingTag("Optional", N)]>>, 1, 0)}
Nested ==
    {List(u) : u \in Unions} \cup {Option(u) : u \in Unions}
        \cup {One(d, u, "Ignore") : d \in {"Optional", "Required"}, u \in Unions}
        \cup {Untagged(<<u, N>>) : u \in Unions}
        \cup {Untagged(<<One("Required", u, "Deny"), One("Optional", Json, "Ignore")>>) : u \in Unions}
        \cup {Struct("F", <<Field("y", "Optional", S)>>, "Union", u) : u \in Unions}

Types == Flat \cup Structs \cup Untaggeds \cup Taggeds \cup Keyeds \cup Nested

Scalars == {Null, NumOf(1), StrOf("a"), StrOf("z")}
Lists == {ListOf(<<>>), ListOf(<<NumOf(1), StrOf("a")>>), ListOf(<<NumOf(1)>>)}
Inner == {MapOf(<<Entry("x", v)>>) : v \in {NumOf(1), StrOf("a"), Null}}
            \cup {MapOf(<<Entry("x", NumOf(1)), Entry("y", v)>>) : v \in {StrOf("a"), NumOf(2)}}
AnyValues == Scalars \cup {ListOf(<<NumOf(1), StrOf("a")>>)} \cup Inner
Maps == {MapOf(<<>>)} \cup {MapOf(<<Entry(n, v)>>) : n \in {"x", "y", "t"}, v \in AnyValues}
           \cup {MapOf(<<Entry("x", v), Entry(n, w)>>) :
                    v \in AnyValues, n \in {"x", "y", "t"}, w \in Scalars}
           \cup {MapOf(<<Entry("t", v), Entry("t", w), Entry("x", NumOf(1))>>) :
                    v \in {Null, StrOf("a")}, w \in {StrOf("a")}}
AnswerPayloads == Scalars \cup Lists \cup Maps
                     \cup {ListOf(<<m, NumOf(1)>>) : m \in Inner}

Whole == {[declared |-> Undeclared, ends |-> <<3>>]}
Job(caller, decoding, ty, pages) ==
    [caller |-> caller, decoding |-> decoding, ty |-> ty, pages |-> pages,
     itemsPath |-> <<"items">>, nextPath |-> <<"next">>,
     client |-> Inherit, own |-> Inherit, deliveries |-> Whole, statuses |-> {"ok"}]

\* The jobs of one caller whose bodies arrive whole.
JobsOver(caller, decodings, types, pages) ==
    [caller : {caller}, decoding : decodings, ty : types, pages : pages,
     itemsPath : {<<"items">>}, nextPath : {<<"next">>},
     client : {Inherit}, own : {Inherit}, deliveries : {Whole}, statuses : {{"ok"}}]

SingleJobs == JobsOver("send", {"lenient"}, Types, {<<c>> : c \in AnswerPayloads})
                \cup JobsOver("send", {"strict"}, Flat, {<<c>> : c \in Scalars})

-----------------------------------------------------------------------------
(***************************************************************************)
(* Streams: up to three pages, one of which drifts somewhere.              *)
(***************************************************************************)
Item == Struct("Item", <<Field("id", "Required", N), Field("tag", "Optional", S)>>, "Ignore", N)
PageOf(item, declared) ==
    Struct("Page", <<Field("items", "Required", List(item)), Field("next", declared, N)>>, "Ignore", N)
Deep ==
    Struct("Page", <<Field("data", "Required",
                           Struct("Data", <<Field("items", "Required", List(Item))>>, "Ignore", N)),
                     Field("meta", "Required",
                           Struct("Meta", <<Field("next", "Nullable", N)>>, "Ignore", N))>>, "Ignore", N)

Good(id) == MapOf(<<Entry("id", NumOf(id))>>)
Odd(id) == MapOf(<<Entry("id", NumOf(id)), Entry("tag", NumOf(id)), Entry("new", Null)>>)
Lost == MapOf(<<Entry("tag", StrOf("a"))>>)
Clean(k) == {ListOf(<<Good(10 * k), Good(10 * k + 1)>>), ListOf(<<>>)}
Drifted(k) == {ListOf(<<Odd(10 * k), Good(10 * k + 1)>>), ListOf(<<StrOf("a"), Good(10 * k + 1)>>),
               ListOf(<<Lost, Good(10 * k + 1)>>), Null, NumOf(1)}

Items(list) == <<Entry("items", list)>>
Nexts(k) == {<<Entry("next", NumOf(k + 1))>>}
OddNexts(k) == {<<Entry("next", StrOf("a"))>>, <<Entry("next", Null)>>, <<>>,
                <<Entry("next", NumOf(k + 1)), Entry("next", NumOf(k + 1))>>}
Proper(k) == {MapOf(Items(l) \o n) : l \in Clean(k), n \in Nexts(k)}
Improper(k) == {MapOf(Items(l) \o n) : l \in Clean(k) \cup Drifted(k), n \in Nexts(k) \cup OddNexts(k)}
                \cup {MapOf(n \o <<Entry("new", NumOf(1))>>) : n \in Nexts(k)}
                \cup {MapOf(Items(ListOf(<<>>)) \o Items(ListOf(<<>>)) \o n) : n \in Nexts(k)}
Lasts(k) == {MapOf(Items(l) \o n) : l \in Clean(k) \cup Drifted(k), n \in {<<>>, <<Entry("next", Null)>>}}

Walks == {<<p, q, r>> : p \in Proper(1), q \in Improper(2), r \in Lasts(3)} \cup {<<p>> : p \in Lasts(1)}
Flats == JobsOver("stream", {"strict", "lenient"},
                  {PageOf(Item, declared) : declared \in {"Optional", "Nullable", "OptionalNullable"}}, Walks)

Nest(data, meta) == MapOf(<<Entry("data", data), Entry("meta", meta)>>)
Deeps ==
    {[Job("stream", "lenient", Deep, <<Nest(d, m), Nest(MapOf(Items(l)), MapOf(<<Entry("next", Null)>>))>>)
        EXCEPT !.itemsPath = <<"data", "items">>, !.nextPath = <<"meta", "next">>] :
        d \in {MapOf(Items(l)) : l \in Clean(1) \cup Drifted(1)} \cup {Null, NumOf(1), MapOf(<<>>)},
        m \in {MapOf(n) : n \in Nexts(1) \cup OddNexts(1)} \cup {Null, NumOf(1)},
        l \in Clean(2)}

\* Items with an open arm: a union and a string enum.
Opens ==
    {Job("stream", "lenient", PageOf(item, "Optional"),
         <<MapOf(Items(ListOf(<<first, second>>)) \o n)>>) :
        item \in {Untagged(<<Item, N>>), E}, first \in {Good(1), NumOf(1), StrOf("a")},
        second \in {StrOf("z"), Good(2)}, n \in {<<>>, <<Entry("next", Null)>>}}

-----------------------------------------------------------------------------
(***************************************************************************)
(* Bodies: one or two pages of three bytes or none, cut in every way.      *)
(***************************************************************************)
ChunkCuts == {<<>>, <<1>>, <<3>>, <<1, 3>>, <<2, 3>>, <<1, 2, 3>>}
MCDeliveries == {[declared |-> d, ends |-> e] : e \in ChunkCuts, d \in {Undeclared}}
                   \cup {[declared |-> Total([ends |-> e]), ends |-> e] : e \in ChunkCuts}
MCLimits == {Unlimited} \cup 0..3

BodyJobs ==
    {[Job(caller, "lenient", ty, <<MapOf(Items(ListOf(<<Good(1)>>)) \o n), MapOf(Items(ListOf(<<Good(2)>>)))>>)
        EXCEPT !.client = client, !.own = own, !.deliveries = MCDeliveries,
               !.statuses = {"ok", "declared", "unexpected", "lost"}] :
        caller \in {"send", "stream"}, ty \in {PageOf(Item, "Optional")}, n \in Nexts(1),
        client \in {Inherit, Unlimited, 1, 2}, own \in {Inherit, Unlimited, 0, 1, 3}}

MCJobs == SingleJobs \cup Flats \cup Deeps \cup Opens \cup BodyJobs
OpenJobs == Opens

=============================================================================
