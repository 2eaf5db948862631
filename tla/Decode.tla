------------------------------- MODULE Decode -------------------------------
(***************************************************************************)
(* Reading a JSON value as a generated type, in the two ways the crate can *)
(* be generated: strictly (support/buffered.rs, as the rendered            *)
(* Deserialize calls it), which gives a value or refuses, and leniently    *)
(* (support/lenient.rs, as the rendered Lenient calls it), which goes as   *)
(* far as the payload allows and reports what it tolerated.                *)
(*                                                                         *)
(* A payload is a record with a kind, "null", "num", "str", "seq" or       *)
(* "map"; a map keeps every copy of a name written twice, as the buffer    *)
(* does.  A type is a record with a kind of its own, see ReadAs below.     *)
(***************************************************************************)
EXTENDS Naturals, Sequences, SequencesExt, FiniteSetsExt

Null == [k |-> "null"]
NoValue == [k |-> "none"]           \* an Option that holds nothing
NumOf(n) == [k |-> "num", n |-> n]
StrOf(s) == [k |-> "str", s |-> s]
ListOf(items) == [k |-> "seq", items |-> items]
MapOf(members) == [k |-> "map", members |-> members]
Entry(name, value) == [name |-> name, value |-> value]

Texts(c) == IF c.k = "str" THEN {c.s} ELSE {}
Elements(c) == IF c.k = "seq" THEN c.items ELSE <<>>
Entries(c) == IF c.k = "map" THEN c.members ELSE <<>>
Copies(c, name) == SelectSeq(Entries(c), LAMBDA m : m.name = name)
NamesIn(entries) == {entries[i].name : i \in DOMAIN entries}

\* The payload as a variant reads it whose tag the union has taken out.
WithoutMember(c, name) ==
    IF c.k = "map" THEN MapOf(SelectSeq(c.members, LAMBDA m : m.name # name)) ELSE c

\* The members no declared name claims.
Leftovers(ty, c) ==
    SelectSeq(Entries(c), LAMBDA m : \A i \in DOMAIN ty.members : ty.members[i].name # m.name)

\* What collecting entries into a map keeps: the last value of each name.
Collected(entries) ==
    [name \in NamesIn(entries) |->
        entries[Max({i \in DOMAIN entries : entries[i].name = name})].value]

\* The results of reading each element, in order.
Each(ReadOne(_), elements) ==
    FoldLeft(LAMBDA done, element : Append(done, ReadOne(element)), <<>>, elements)

\* Arbitrary JSON, which reads every payload.
RECURSIVE Plain(_)
Plain(c) ==
    CASE c.k = "seq" -> [k |-> "seq", items |-> [i \in DOMAIN c.items |-> Plain(c.items[i])]]
      [] c.k = "map" -> [k |-> "map", of |-> Collected([i \in DOMAIN c.members |->
                            Entry(c.members[i].name, Plain(c.members[i].value))])]
      [] OTHER -> c

Open(c) == [k |-> "open", value |-> Plain(c)]
Variant(i, v) == [k |-> "variant", at |-> i, value |-> v]

-----------------------------------------------------------------------------
(***************************************************************************)
(* Presence, and how a union picks a variant: shared by both readings.     *)
(***************************************************************************)
AllowsAbsent(declared) == declared \in {"Optional", "OptionalNullable", "Presence"}
AllowsNull(declared) == declared \in {"Nullable", "OptionalNullable", "Presence"}
Kept(declared) == IF declared = "Presence" THEN Null ELSE NoValue

\* The spellings of every variant's tag, in order, each with its variant.
TagTable(ty) ==
    FlattenSeq([i \in DOMAIN ty.variants |->
        [j \in DOMAIN ty.variants[i].names |-> [name |-> ty.variants[i].names[j], variant |-> i]]])
Shared(table) == \E i, j \in DOMAIN table : i # j /\ table[i].name = table[j].name

\* Each position at or after one that spells its name.
Sharing(table, at) ==
    SelectSeq([i \in DOMAIN table |-> i], LAMBDA i : i >= at /\ table[i].name = table[at].name)

\* The position of a variant's first spelling; 0 for a route that is not there.
Start(table, variant) ==
    IF variant = 0 THEN 0 ELSE Min({i \in DOMAIN table : table[i].variant = variant})
Spelled(table, c) ==
    LET at == {i \in DOMAIN table : table[i].name \in Texts(c)}
    IN  IF at = {} THEN 0 ELSE Min(at)

\* The position the tag names, 0 for none; a tag written twice is refused before.
Choice(ty, c) ==
    LET tags == Copies(c, ty.tag)
    IN  CASE c.k # "map" -> 0
          [] c.k = "map" /\ tags = <<>> -> Start(TagTable(ty), ty.absent)
          [] tags # <<>> /\ Head(tags).value = Null -> Start(TagTable(ty), ty.null)
          [] tags # <<>> /\ Head(tags).value # Null -> Spelled(TagTable(ty), Head(tags).value)
TaggedTwice(ty, c) == Len(Copies(c, ty.tag)) > 1

Keys(ty) == {ty.data[i].key : i \in DOMAIN ty.data}
KeyedTwice(ty, c) == \E key \in Keys(ty) : Len(Copies(c, key)) > 1

\* The data variants an object of one member names: at most one.
Payloads(ty, c) ==
    {i \in DOMAIN ty.data : Len(Entries(c)) = 1 /\ c.members[1].name = ty.data[i].key}

-----------------------------------------------------------------------------
(***************************************************************************)
(* The strict reading: a value, or nothing.                                *)
(***************************************************************************)
Value(v) == [ok |-> TRUE, v |-> v]
Refused == [ok |-> FALSE, v |-> NoValue]
When(condition, v) == IF condition THEN Value(v) ELSE Refused
Within(read, Wrap(_)) == IF read.ok THEN Value(Wrap(read.v)) ELSE Refused
AllRead(reads) == \A i \in DOMAIN reads : reads[i].ok
Got(reads) == [i \in DOMAIN reads |-> reads[i].v]

RECURSIVE Strict(_, _)

StrictList(of, c) ==
    LET reads == Each(LAMBDA item : Strict(of, item), Elements(c))
    IN  IF c.k = "seq" THEN When(AllRead(reads), [k |-> "seq", items |-> Got(reads)]) ELSE Refused

\* A fixed number of elements, each of a type of its own.
StrictTuple(types, c) ==
    LET reads == [i \in DOMAIN types |-> Strict(types[i], c.items[i])]
    IN  IF c.k = "seq" /\ Len(Elements(c)) = Len(types)
        THEN When(AllRead(reads), [k |-> "seq", items |-> Got(reads)]) ELSE Refused

StrictMap(of, c) ==
    LET reads == Each(LAMBDA m : Strict(of, m.value), Entries(c))
        named == [i \in DOMAIN c.members |-> Entry(c.members[i].name, reads[i].v)]
    IN  IF c.k = "map" THEN When(AllRead(reads), [k |-> "map", of |-> Collected(named)])
        ELSE Refused

\* Only a member declared always there and never null is a plain T; any other is an Option.
StrictMember(f, c) ==
    LET copies == Copies(c, f.name)
        value == Head(copies).value
    IN  CASE Len(copies) > 1 -> Refused
          [] copies = <<>> -> When(f.declared # "Required", NoValue)
          [] Len(copies) = 1 /\ f.declared # "Required" /\ value = Null -> Value(Kept(f.declared))
          [] OTHER -> Strict(f.ty, value)

StrictStruct(ty, c) ==
    LET reads == Each(LAMBDA f : StrictMember(f, c), ty.members)
        left == Leftovers(ty, c)
        rest == CASE ty.unknown = "Capture" -> StrictMap(ty.rest, MapOf(left))
                  [] ty.unknown = "Union" -> Strict(ty.rest, MapOf(left))
                  [] ty.unknown = "Ignore" -> Value(NoValue)
                  [] ty.unknown = "Deny" -> When(left = <<>>, NoValue)
    IN  IF c.k = "map"
        THEN When(AllRead(reads) /\ rest.ok, [k |-> "struct", fields |-> Got(reads), rest |-> rest.v])
        ELSE Refused

StrictFirst(types, order, c) ==
    LET reads == Each(LAMBDA at : Strict(types[at], c), order)
        fits == {i \in DOMAIN order : reads[i].ok}
        first == Min(fits)
    IN  IF fits = {} THEN Value(Open(c)) ELSE Value(Variant(order[first], reads[first].v))

StrictTagged(ty, c) ==
    LET table == TagTable(ty)
        at == Choice(ty, c)
        types == [i \in DOMAIN table |-> ty.variants[table[i].variant].ty]
        Wrap(v) == Variant(at, v)
    IN  CASE TaggedTwice(ty, c) -> Refused
          [] ~TaggedTwice(ty, c) /\ at = 0 -> Value(Open(c))
          [] ~TaggedTwice(ty, c) /\ at > 0 /\ ~Shared(table) -> Within(Strict(types[at], c), Wrap)
          [] OTHER -> StrictFirst(types, Sharing(table, at), c)

\* A payload its type refuses stays in the open arm with its envelope.
StrictKeyed(ty, c) ==
    LET at == CHOOSE i \in Payloads(ty, c) : TRUE
        read == Strict(ty.data[at].ty, c.members[1].value)
    IN  CASE KeyedTwice(ty, c) -> Refused
          [] Texts(c) \cap ty.units # {} -> Value(Variant(0, c))
          [] ~KeyedTwice(ty, c) /\ Payloads(ty, c) # {} ->
                IF read.ok THEN Value(Variant(at, read.v)) ELSE Value(Open(c))
          [] OTHER -> Value(Open(c))

Strict(ty, c) ==
    CASE ty.t = "any" -> Value(Plain(c))
      [] ty.t = "scalar" -> When(c.k = ty.of, c)
      [] ty.t = "number" -> When(c.k \in {"num", "frac"}, c)
      [] ty.t = "tuple" -> StrictTuple(ty.of, c)
      [] ty.t = "without" -> Strict(ty.of, WithoutMember(c, ty.member))
      [] ty.t = "enum" -> When(c.k = "str", IF Texts(c) \subseteq ty.listed THEN c ELSE Open(c))
      [] ty.t = "list" -> StrictList(ty.of, c)
      [] ty.t = "map" -> StrictMap(ty.of, c)
      [] ty.t = "option" -> IF c = Null THEN Value(NoValue) ELSE Strict(ty.of, c)
      [] ty.t = "struct" -> StrictStruct(ty, c)
      [] ty.t = "untagged" -> StrictFirst(ty.variants, [i \in DOMAIN ty.variants |-> i], c)
      [] ty.t = "tagged" -> StrictTagged(ty, c)
      [] ty.t = "keyed" -> StrictKeyed(ty, c)

-----------------------------------------------------------------------------
(***************************************************************************)
(* The lenient reading: a result also carries what it reported, as places  *)
(* of the description with a kind, and whether any of it would have made   *)
(* the strict reading refuse.  A place is a type and one of its members,   *)
(* or "" for the type itself.                                              *)
(***************************************************************************)
Told(site, kind) == {<<site, kind>>}
RefusingKinds == {"Undecodable", "SkippedElement"}
Read(v) == [ok |-> TRUE, v |-> v, seen |-> {}, refuses |-> FALSE]
Problem == [ok |-> FALSE, v |-> NoValue, seen |-> {}, refuses |-> FALSE]

\* The same result with one more record in its report.
Recorded(read, site, kind, strictRefuses) ==
    [read EXCEPT !.seen = @ \union Told(site, kind),
                 !.refuses = @ \/ strictRefuses \/ kind \in RefusingKinds]

\* A value with the reports of the results it was made from.
Merged(v, reads) ==
    [ok |-> TRUE, v |-> v, seen |-> UNION {reads[i].seen : i \in DOMAIN reads},
     refuses |-> \E i \in DOMAIN reads : reads[i].refuses]

\* A scratch report folded in as findings no strict reading would have refused.
Tolerated(read) == [read EXCEPT !.refuses = FALSE]

UnknownUnion(c, site) == Recorded(Read(Open(c)), site, "UnknownUnionValue", FALSE)

\* Mutant: what does not read is left out without a word.
KeptOrDropped(read, site) == read

\* What is left of a list or map that leaves out what does not read.
KeptOrSkipped(read, site) == IF read.ok THEN read ELSE Recorded(read, site, "SkippedElement", TRUE)

RECURSIVE Lenient(_, _, _)

\* A member whose value does not read is absent, with the reason reported.
Unreadable(read, site) ==
    IF read.ok THEN read ELSE [Recorded(read, site, "Undecodable", TRUE) EXCEPT !.ok = TRUE, !.v = NoValue]

LenientMember(ty, f, c) ==
    LET copies == Copies(c, f.name)
        value == Head(copies).value
        site == <<ty.name, f.name>>
        strictly == f.declared = "Required"
    IN  CASE Len(copies) > 1 -> Unreadable(Problem, site)
          [] copies = <<>> -> IF AllowsAbsent(f.declared) THEN Read(NoValue)
                              ELSE Recorded(Read(NoValue), site, "RequiredAbsent", strictly)
          [] Len(copies) = 1 /\ value = Null ->
                IF AllowsNull(f.declared) THEN Read(Kept(f.declared))
                ELSE Recorded(Read(NoValue), site, "NullNotAllowed", strictly)
          [] OTHER -> Unreadable(Lenient(f.ty, value, site), site)

LenientList(of, c, site) ==
    LET reads == Each(LAMBDA item : KeptOrSkipped(Lenient(of, item, site), site), Elements(c))
    IN  IF c.k # "seq" THEN Problem
        ELSE Merged([k |-> "seq", items |-> Got(SelectSeq(reads, LAMBDA r : r.ok))], reads)

\* All or nothing: a fixed arity has no element to leave out.
LenientTuple(types, c, site) ==
    LET reads == [i \in DOMAIN types |-> Lenient(types[i], c.items[i], site)]
    IN  IF c.k = "seq" /\ Len(Elements(c)) = Len(types) /\ AllRead(reads)
        THEN Merged([k |-> "seq", items |-> Got(reads)], reads) ELSE Problem

LenientMap(of, entries, site) ==
    LET reads == Each(LAMBDA m : KeptOrSkipped(Lenient(of, m.value, site), site), entries)
        whole == SelectSeq([i \in DOMAIN entries |-> Entry(entries[i].name, reads[i])],
                           LAMBDA e : e.value.ok)
        named == [i \in DOMAIN whole |-> Entry(whole[i].name, whole[i].value.v)]
    IN  Merged([k |-> "map", of |-> Collected(named)], reads)

\* The leftovers: declared by the description, read as the union beside the members, or drift.
LenientRest(ty, c) ==
    LET left == Leftovers(ty, c)
        site == <<ty.name, "">>
    IN  CASE ty.unknown = "Capture" -> LenientMap(ty.rest, left, site)
          [] ty.unknown = "Union" -> Lenient(ty.rest, MapOf(left), site)
          [] ty.unknown \in {"Ignore", "Deny"} ->
                IF left = <<>> THEN Read(NoValue)
                ELSE Recorded(Read(NoValue), site, "UndeclaredMember", ty.unknown = "Deny")

LenientStruct(ty, c) ==
    LET reads == Each(LAMBDA f : LenientMember(ty, f, c), ty.members)
        rest == LenientRest(ty, c)
        value == [k |-> "struct", fields |-> Got(reads), rest |-> rest.v]
    IN  IF c.k = "map" THEN [Merged(value, Append(reads, rest)) EXCEPT !.ok = rest.ok] ELSE Problem

\* Mutant: a variant is taken whatever its report says.
ProbedLoosely(read) == read.ok

\* A variant is read with a scratch report and taken only when nothing in it refuses.
Probed(read) == read.ok /\ ~read.refuses

LenientFirst(types, order, c, site) ==
    LET reads == Each(LAMBDA at : Lenient(types[at], c, site), order)
        fits == {i \in DOMAIN order : Probed(reads[i])}
        first == Min(fits)
    IN  IF fits = {} THEN UnknownUnion(c, site)
        ELSE [reads[first] EXCEPT !.v = Variant(order[first], @)]

LenientTagged(ty, c, site) ==
    LET table == TagTable(ty)
        at == Choice(ty, c)
        types == [i \in DOMAIN table |-> ty.variants[table[i].variant].ty]
        read == Lenient(types[at], c, site)
    IN  CASE TaggedTwice(ty, c) -> Problem
          [] ~TaggedTwice(ty, c) /\ at = 0 -> UnknownUnion(c, site)
          [] ~TaggedTwice(ty, c) /\ at > 0 /\ ~Shared(table) -> [read EXCEPT !.v = Variant(at, @)]
          [] OTHER -> LenientFirst(types, Sharing(table, at), c, site)

LenientKeyed(ty, c, site) ==
    LET at == CHOOSE i \in Payloads(ty, c) : TRUE
        read == Lenient(ty.data[at].ty, c.members[1].value, site)
    IN  CASE KeyedTwice(ty, c) -> Problem
          [] Texts(c) \cap ty.units # {} -> Read(Variant(0, c))
          [] ~KeyedTwice(ty, c) /\ Payloads(ty, c) # {} ->
                IF read.ok THEN Tolerated([read EXCEPT !.v = Variant(at, @)])
                ELSE UnknownUnion(c, site)
          [] OTHER -> UnknownUnion(c, site)

Lenient(ty, c, site) ==
    CASE ty.t = "any" -> Read(Plain(c))
      [] ty.t = "scalar" -> IF c.k = ty.of THEN Read(c) ELSE Problem
      [] ty.t = "number" -> IF c.k \in {"num", "frac"} THEN Read(c) ELSE Problem
      [] ty.t = "tuple" -> LenientTuple(ty.of, c, site)
      [] ty.t = "without" -> Lenient(ty.of, WithoutMember(c, ty.member), site)
      [] ty.t = "enum" ->
            IF c.k # "str" THEN Problem
            ELSE IF Texts(c) \subseteq ty.listed THEN Read(c)
                 ELSE Recorded(Read(Open(c)), site, "UnknownEnumValue", FALSE)
      [] ty.t = "list" -> LenientList(ty.of, c, site)
      [] ty.t = "map" -> IF c.k = "map" THEN LenientMap(ty.of, c.members, site) ELSE Problem
      [] ty.t = "option" -> IF c = Null THEN Read(NoValue) ELSE Lenient(ty.of, c, site)
      [] ty.t = "struct" -> LenientStruct(ty, c)
      [] ty.t = "untagged" -> LenientFirst(ty.variants, [i \in DOMAIN ty.variants |-> i], c, site)
      [] ty.t = "tagged" -> LenientTagged(ty, c, site)
      [] ty.t = "keyed" -> LenientKeyed(ty, c, site)

=============================================================================
