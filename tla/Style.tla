------------------------------- MODULE Style -------------------------------
(***************************************************************************)
(* support/style.rs and the reading plans of support/serve.rs: how one     *)
(* parameter or form member is written on the wire, and how it is read     *)
(* back. A text is a sequence of characters; a character with an escape is *)
(* one token, so percent-encoding is a map over tokens.                    *)
(***************************************************************************)
EXTENDS Integers, Sequences, SequencesExt

\* Letters are unreserved, the digit is the text of a number.
A == 1
B == 2
Digit == 3
Dot == 4
Comma == 5
Semi == 6
Eq == 7
Space == 8
Pipe == 9
Plus == 10
Amp == 11
Percent == 12
OpenBracket == 13
Close == 14
Accent == 15   \* a letter outside ASCII
Char == 1..15
Escaped == 100

Styles == {"form", "simple", "label", "matrix", "space", "pipe", "deep"}

(***************************************************************************)
(* serde_json::Value, with the scalars the properties tell apart. An       *)
(* object is the sequence of its members.                                  *)
(***************************************************************************)
NullLeaf == [kind |-> "null"]
Str(text) == [kind |-> "str", text |-> text]
Num == [kind |-> "num", text |-> <<Digit>>]
Arr(items) == [kind |-> "arr", items |-> items]
Obj(members) == [kind |-> "obj", members |-> members]
Member(key, value) == [key |-> key, value |-> value]

IsNull(v) == v.kind = "null"
NotNull(v) == ~IsNull(v)
Scalar(v) == IF IsNull(v) THEN <<>> ELSE v.text

Some(v) == <<v>>
None == <<>>

-----------------------------------------------------------------------------
(***************************************************************************)
(* Texts.                                                                  *)
(***************************************************************************)
Unreserved == {A, B, Digit, Dot}
Encode(text) == [k \in DOMAIN text |->
    IF text[k] \in Unreserved THEN text[k] ELSE Escaped + text[k]]

DecodePercent(text) == [k \in DOMAIN text |->
    IF text[k] > Escaped THEN text[k] - Escaped ELSE text[k]]
Decode(text, plus) == [k \in DOMAIN text |->
    IF text[k] > Escaped THEN text[k] - Escaped
    ELSE IF plus /\ text[k] = Plus THEN Space ELSE text[k]]

\* How `reqwest` and `url` write a query component: a space is a `+`.
FormEncode(text) == [k \in DOMAIN text |->
    IF text[k] = Space THEN Plus ELSE Encode(text)[k]]

\* `allowReserved`: what a query cannot carry or would misread stays escaped.
\* Mutant: the `&` between pairs is not among it.
ReservedBare(text) == [k \in DOMAIN text |->
    IF text[k] \in {Space, Pipe, Plus, OpenBracket, Close} THEN Escaped + text[k] ELSE text[k]]
Reserved(text) == [k \in DOMAIN text |->
    IF text[k] \in {Space, Pipe, Plus, Amp, OpenBracket, Close} THEN Escaped + text[k] ELSE text[k]]

Join(parts, separator) ==
    LET joined[k \in 0..Len(parts)] ==
            IF k = 0 THEN <<>>
            ELSE IF k = 1 THEN parts[1]
            ELSE joined[k - 1] \o <<separator>> \o parts[k]
    IN  joined[Len(parts)]

Split(text, separator) ==
    LET cuts == <<0>> \o SetToSortSeq({k \in DOMAIN text : text[k] = separator}, <)
                  \o <<Len(text) + 1>>
    IN  [k \in 1..(Len(cuts) - 1) |-> SubSeq(text, cuts[k] + 1, cuts[k + 1] - 1)]

Trim(text) ==
    LET kept == {k \in DOMAIN text : text[k] # Space}
    IN  IF kept = {} THEN <<>>
        ELSE SubSeq(text, CHOOSE k \in kept : \A m \in kept : k <= m,
                          CHOOSE k \in kept : \A m \in kept : m <= k)

\* str::split_once: the text before the first separator and after it, if there is one.
SplitOnce(text, separator) ==
    LET at == {k \in DOMAIN text : text[k] = separator}
        first == CHOOSE k \in at : \A m \in at : k <= m
    IN  IF at = {} THEN None
        ELSE Some(<<SubSeq(text, 1, first - 1), SubSeq(text, first + 1, Len(text))>>)

KeyOf(part) == LET cut == SplitOnce(part, Eq) IN IF cut = None THEN part ELSE cut[1][1]
ValueOf(part) == LET cut == SplitOnce(part, Eq) IN IF cut = None THEN <<>> ELSE cut[1][2]

StrParts(parts) == [k \in DOMAIN parts |-> Str(parts[k])]

\* serde_json::Map keeps the last value of a key that is inserted twice.
ExplodedPairs(pairs) ==
    LET last == {k \in DOMAIN pairs : \A m \in DOMAIN pairs : pairs[m][1] = pairs[k][1] => m <= k}
        kept == SetToSortSeq(last, <)
    IN  Obj([k \in DOMAIN kept |-> Member(pairs[kept[k]][1], Str(pairs[kept[k]][2]))])

\* A trailing key without a value is dropped.
FlatPairs(parts) == ExplodedPairs([k \in 1..(Len(parts) \div 2) |-> <<parts[2 * k - 1], parts[2 * k]>>])

KeyedParts(parts) == [k \in DOMAIN parts |-> <<KeyOf(parts[k]), ValueOf(parts[k])>>]

Shaped(text, separator, shape, trim) ==
    LET parts == Split(text, separator)
        elements == IF trim THEN [k \in DOMAIN parts |-> Trim(parts[k])] ELSE parts
    IN  CASE shape = "object" -> IF \E k \in DOMAIN elements : Eq \in {elements[k][m] : m \in DOMAIN elements[k]}
                                 THEN ExplodedPairs(KeyedParts(elements)) ELSE FlatPairs(elements)
          [] shape = "array" -> Arr(StrParts(elements))
          [] OTHER -> Str(IF trim THEN Trim(text) ELSE text)

-----------------------------------------------------------------------------
(***************************************************************************)
(* Queries and form bodies: pairs of a name and a text.                    *)
(***************************************************************************)
ListElements(v) == LET kept == SelectSeq(v.items, NotNull)
                   IN  [k \in DOMAIN kept |-> Scalar(kept[k])]
Held(v) == SelectSeq(v.members, LAMBDA m : NotNull(m.value))
ScalarTexts(items) == [k \in DOMAIN items |-> Scalar(items[k])]
FlatTexts(v) == FlattenSeq([k \in DOMAIN v.members |-> <<v.members[k].key, Scalar(v.members[k].value)>>])

Separator(style) == CASE style = "space" -> Space [] style = "pipe" -> Pipe [] OTHER -> Comma

Joined(name, texts, separator) == IF texts = <<>> THEN <<>> ELSE <<<<name, Join(texts, separator)>>>>

\* The member of a deep object, `name[key]`.
DeepName(name, key) == name \o <<OpenBracket>> \o key \o <<Close>>

QueryPairs(name, v, style, explode) ==
    CASE IsNull(v) -> <<>>
      [] v.kind = "arr" -> IF explode
                           THEN [k \in DOMAIN ListElements(v) |-> <<name, ListElements(v)[k]>>]
                           ELSE Joined(name, ScalarTexts(v.items), Separator(style))
      [] v.kind = "obj" /\ style = "deep" ->
            [k \in DOMAIN Held(v) |-> <<DeepName(name, Held(v)[k].key), Scalar(Held(v)[k].value)>>]
      [] v.kind = "obj" /\ style # "deep" /\ explode ->
            [k \in DOMAIN Held(v) |-> <<Held(v)[k].key, Scalar(Held(v)[k].value)>>]
      [] v.kind = "obj" /\ style # "deep" /\ ~explode -> Joined(name, FlatTexts(v), Comma)
      [] OTHER -> <<<<name, Scalar(v)>>>>

\* A pair under `allowReserved`, of a form body, and as `reqwest` writes one.
ReservedPair(pair) == <<Encode(pair[1]), Reserved(pair[2])>>
EncodedPair(pair) == <<Encode(pair[1]), Encode(pair[2])>>
FormPair(pair) == <<FormEncode(pair[1]), FormEncode(pair[2])>>
SplitQuery(text, plus) ==
    LET pairs == SelectSeq(Split(text, Amp), LAMBDA pair : pair # <<>>)
    IN  [k \in DOMAIN pairs |-> <<Decode(KeyOf(pairs[k]), TRUE), Decode(ValueOf(pairs[k]), plus)>>]
QueryText(pairs) == Join([k \in DOMAIN pairs |-> pairs[k][1] \o <<Eq>> \o pairs[k][2]], Amp)

DeepObject(pairs, name) ==
    LET prefix == name \o <<OpenBracket>>
        mine == SelectSeq(pairs, LAMBDA pair :
                    /\ Len(pair[1]) > Len(prefix)
                    /\ SubSeq(pair[1], 1, Len(prefix)) = prefix
                    /\ Last(pair[1]) = Close)
    IN  IF mine = <<>> THEN None
        ELSE Some(ExplodedPairs([k \in DOMAIN mine |->
                <<SubSeq(mine[k][1], Len(prefix) + 1, Len(mine[k][1]) - 1), mine[k][2]>>]))

ReadValues(texts, style, explode, array) ==
    CASE texts = <<>> -> None
      [] texts # <<>> /\ array /\ explode -> Some(Arr(StrParts(texts)))
      [] texts # <<>> /\ array /\ ~explode -> Some(Arr(StrParts(Split(texts[1], Separator(style)))))
      [] OTHER -> Some(Str(texts[1]))

Mine(pairs, name) == LET mine == SelectSeq(pairs, LAMBDA pair : pair[1] = name)
                     IN  [k \in DOMAIN mine |-> mine[k][2]]

FromQuery(text, name, row) ==
    LET pairs == SplitQuery(text, ~row.reserved)
        mine == Mine(pairs, name)
    IN  CASE row.style = "deep" -> DeepObject(pairs, name)
          [] row.style = "form" /\ row.shape = "object" /\ ~row.explode ->
                IF mine = <<>> THEN None ELSE Some(FlatPairs(Split(mine[1], Comma)))
          [] OTHER -> ReadValues(mine, row.style, row.explode, row.shape = "array")

(***************************************************************************)
(* A form body: the same pairs, member by member, through the rows of the  *)
(* description, a row being [name, required, style, explode, shape,        *)
(* reserved, plan]. A name without a row is an exploded form member, and   *)
(* repetition alone makes it an array. An object member under another row  *)
(* than a deep or a flat form one is sent as its JSON text; no row here is *)
(* one of those.                                                           *)
(***************************************************************************)
RowsOf(rows, name) == SelectSeq(rows, LAMBDA row : row.name = name)

FormBody(v, rows) ==
    LET pairsOf(m) == LET row == RowsOf(rows, m.key)[1]
                      IN  QueryPairs(m.key, m.value, row.style, row.explode)
        pairs == FlattenSeq([k \in DOMAIN v.members |-> pairsOf(v.members[k])])
    IN  QueryText([k \in DOMAIN pairs |-> EncodedPair(pairs[k])])

ReadMember(pairs, name, rows) ==
    LET mine == Mine(pairs, name)
        row == RowsOf(rows, name)[1]
    IN  CASE RowsOf(rows, name) = <<>> -> ReadValues(mine, "form", TRUE, Len(mine) > 1)
          [] RowsOf(rows, name) # <<>> /\ row.style = "deep" -> DeepObject(pairs, name)
          [] RowsOf(rows, name) # <<>> /\ row.style = "form" /\ ~row.explode /\ row.shape = "object" ->
                Some(FlatPairs(Split(mine[1], Comma)))
          [] OTHER -> ReadValues(mine, row.style, row.explode, row.shape = "array")

\* The members in the order their names first arrive.
QueryObject(text, rows) ==
    LET pairs == SplitQuery(text, TRUE)
        first == {k \in DOMAIN pairs : /\ \A m \in 1..(k - 1) : pairs[m][1] # pairs[k][1]
                                       /\ ReadMember(pairs, pairs[k][1], rows) # None}
        at == SetToSortSeq(first, <)
    IN  Obj([k \in DOMAIN at |->
            Member(pairs[at[k]][1], ReadMember(pairs, pairs[at[k]][1], rows)[1])])

-----------------------------------------------------------------------------
(***************************************************************************)
(* Path segments, headers and cookies.                                     *)
(***************************************************************************)
Codes(items) == [k \in DOMAIN items |-> Encode(Scalar(items[k]))]
PairText(member, glue) == Encode(member.key) \o <<glue>> \o Encode(Scalar(member.value))

PathSegment(v, style, explode) ==
    LET label == style = "label"
        separator == IF label /\ explode THEN Dot ELSE Comma
        body == CASE v.kind = "arr" -> Join(Codes(v.items), separator)
                  [] v.kind = "obj" -> Join([k \in DOMAIN v.members |->
                            PairText(v.members[k], IF explode THEN Eq ELSE Comma)], separator)
                  [] OTHER -> Encode(Scalar(v))
    IN  (IF label THEN <<Dot>> ELSE <<>>) \o body

MatrixSegment(name, v, explode) ==
    LET crumb(key, text) == <<Semi>> \o Encode(key) \o <<Eq>> \o text
    IN  CASE v.kind = "arr" /\ explode ->
                FlattenSeq([k \in DOMAIN v.items |-> crumb(name, Encode(Scalar(v.items[k])))])
          [] v.kind = "obj" /\ explode ->
                FlattenSeq([k \in DOMAIN v.members |->
                    crumb(v.members[k].key, Encode(Scalar(v.members[k].value)))])
          [] IsNull(v) -> <<Semi>> \o Encode(name)
          [] OTHER -> crumb(name, PathSegment(v, "simple", FALSE))

FromMatrix(text, name, explode, shape) ==
    LET crumbs == KeyedParts(SelectSeq(Split(text, Semi), LAMBDA part : part # <<>>))
        mine == Mine(crumbs, name)
    IN  CASE shape = "object" /\ explode -> ExplodedPairs(crumbs)
          [] shape = "array" /\ explode -> Arr(StrParts(mine))
          [] OTHER -> Shaped(IF mine = <<>> THEN <<>> ELSE mine[1], Comma, shape, FALSE)

\* The router hands over the segment decoded once, whole.
FromPath(segment, name, row) ==
    LET text == DecodePercent(segment)
        bare == IF text # <<>> /\ text[1] = Dot THEN Tail(text) ELSE text
    IN  CASE row.style = "matrix" -> FromMatrix(text, name, row.explode, row.shape)
          [] row.style = "label" ->
                Shaped(bare, IF row.explode /\ row.shape # "scalar" THEN Dot ELSE Comma, row.shape, FALSE)
          [] OTHER -> Shaped(text, Comma, row.shape, FALSE)

WriteSegment(name, v, row) ==
    IF row.style = "matrix" THEN MatrixSegment(name, v, row.explode)
    ELSE PathSegment(v, row.style, row.explode)

HeaderText(v, explode) ==
    CASE v.kind = "arr" -> Join(ScalarTexts(v.items), Comma)
      [] v.kind = "obj" -> Join([k \in DOMAIN v.members |->
                v.members[k].key \o <<IF explode THEN Eq ELSE Comma>> \o Scalar(v.members[k].value)], Comma)
      [] OTHER -> Scalar(v)

FromHeader(text, row) == Shaped(text, Comma, row.shape, TRUE)

CookieText(v) ==
    CASE v.kind = "arr" -> Join(Codes(v.items), Comma)
      [] v.kind = "obj" -> Join([k \in DOMAIN v.members |-> PairText(v.members[k], Comma)], Comma)
      [] OTHER -> Encode(Scalar(v))

CookiePair(name, v) == Encode(name) \o <<Eq>> \o CookieText(v)

FromCookie(text, row) ==
    LET parts == LET cut == Split(text, Comma) IN [k \in DOMAIN cut |-> DecodePercent(cut[k])]
    IN  CASE row.shape = "object" -> FlatPairs(parts)
          [] row.shape = "array" -> Arr(StrParts(parts))
          [] OTHER -> Str(DecodePercent(text))

-----------------------------------------------------------------------------
(***************************************************************************)
(* serve.rs: a text read back by the plan of its position. The plan of a   *)
(* leaf is "str" (Keep) or "num" (Spelled); a compound has one plan for    *)
(* every leaf of it.                                                       *)
(***************************************************************************)
SpelledLeaf(leaf) == IF leaf.kind = "str" /\ leaf.text = <<Digit>> THEN Num ELSE leaf

Leaf(leaf, plan) == IF plan = "num" THEN SpelledLeaf(leaf) ELSE leaf

ReadBy(v, row) ==
    CASE row.shape = "array" /\ v.kind = "str" -> Arr(<<Leaf(v, row.plan)>>)
      [] v.kind = "arr" -> Arr([k \in DOMAIN v.items |-> Leaf(v.items[k], row.plan)])
      [] v.kind = "obj" -> Obj([k \in DOMAIN v.members |->
                Member(v.members[k].key, Leaf(v.members[k].value, row.plan))])
      [] v.kind \in {"str", "num"} /\ row.shape = "scalar" -> Leaf(v, row.plan)
      [] OTHER -> v

\* serde_json::from_value of the declared type.
IsLeaf(v, plan) == v.kind = plan
Fits(v, row) ==
    CASE row.shape = "scalar" -> IsLeaf(v, row.plan)
      [] row.shape = "array" -> v.kind = "arr" /\ \A k \in DOMAIN v.items : IsLeaf(v.items[k], row.plan)
      [] row.shape = "object" -> v.kind = "obj" /\ \A k \in DOMAIN v.members : IsLeaf(v.members[k].value, row.plan)
=============================================================================
