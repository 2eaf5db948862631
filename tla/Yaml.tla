-------------------------------- MODULE Yaml --------------------------------
(***************************************************************************)
(* The YAML loader (load/yaml.rs): a machine over the parser's events,     *)
(* with a stack of open collections, the anchors seen so far and, in each  *)
(* mapping, the key that is waiting for its value.                         *)
(*                                                                         *)
(* The parser is libyaml, external to the repository: it is the sequence   *)
(* of events of a tree of nodes.  A scalar is its text, its style and its  *)
(* tag; a text stands for its class, and what the classes resolve to under *)
(* the core schema is Reads.  A build without exact-numbers is modelled,   *)
(* where a number may be rounded or dropped.  A mapping's value is a       *)
(* function from member names, so the order of members is left out, and a  *)
(* diagnostic is its kind and its location.  The supplied final line break *)
(* and the panic boundary are left out.                                    *)
(***************************************************************************)
EXTENDS Naturals, Sequences, FiniteSets, SequencesExt

CONSTANTS
    Written,    \* the documents a parser may read: trees of nodes
    MaxDepth    \* MAX_DEPTH, the collections that may be open at a time

ASSUME MaxDepthAssumption == MaxDepth \in Nat \ {0}

None == "none"

(***************************************************************************)
(* Nodes and their events                                                  *)
(***************************************************************************)
Word(text, style, tag, anchor) ==
    [node |-> "scalar", text |-> text, style |-> style, tag |-> tag,
     anchor |-> anchor, parts |-> <<>>]
AliasOf(anchor) ==
    [node |-> "alias", text |-> "", style |-> "plain", tag |-> None,
     anchor |-> anchor, parts |-> <<>>]
SequenceOf(items, anchor) ==
    [node |-> "sequence", text |-> "", style |-> "plain", tag |-> None,
     anchor |-> anchor, parts |-> items]
\* The parts of a mapping are its keys and values in turn.
MappingOf(parts, anchor) ==
    [node |-> "mapping", text |-> "", style |-> "plain", tag |-> None,
     anchor |-> anchor, parts |-> parts]
Closing(node) == [node EXCEPT !.node = "end", !.parts = <<>>]

RECURSIVE Events(_)
Events(node) ==
    IF node.node \in {"scalar", "alias"} THEN <<node>>
    ELSE <<[node EXCEPT !.parts = <<>>]>>
         \o FlattenSeq([i \in DOMAIN node.parts |-> Events(node.parts[i])])
         \o <<Closing(node)>>

(***************************************************************************)
(* Values and scalars                                                      *)
(***************************************************************************)
Value(kind, text, items, members) ==
    [kind |-> kind, text |-> text, items |-> items, members |-> members]
Null == Value("null", "", <<>>, <<>>)
True == Value("boolean", "true", <<>>, <<>>)
Text(text) == Value("string", text, <<>>, <<>>)
List(items) == Value("array", "", items, <<>>)
Object(members) == Value("object", "", <<>>, members)

\* What a text is read as where it may be a number: held exactly, held as
\* the nearest value, or not at all.  `.inf` and `.nan` are no numbers of
\* JSON, and `1e400` is beyond an f64.
Numeric(text) ==
    CASE text \in {"1", "1.50"}       -> [as |-> "held", value |-> Value("number", text, <<>>, <<>>)]
      [] text = "0.30000000000000000000001" -> [as |-> "rounded", value |-> Value("number", "0.3", <<>>, <<>>)]
      [] text \in {"1e400", ".inf"}   -> [as |-> "dropped", value |-> Null]
      [] OTHER                        -> [as |-> "held", value |-> Text(text)]

Resolved(text, style, tag) ==
    CASE tag \in {"int", "float"}     -> Numeric(text)
      [] tag = "null"                 -> [as |-> "held", value |-> Null]
      [] tag = "bool" /\ text = "true" -> [as |-> "held", value |-> True]
      [] tag # None                   -> [as |-> "held", value |-> Text(text)]
      [] style # "plain"              -> [as |-> "held", value |-> Text(text)]
      [] text \in {"", "~", "null"}   -> [as |-> "held", value |-> Null]
      [] text = "true"                -> [as |-> "held", value |-> True]
      [] OTHER                        -> Numeric(text)

\* The member name of a scalar: the canonical spelling of what was written,
\* whether or not the model holds the number.
KeyName(read, text) ==
    CASE read.as = "held" /\ read.value.kind = "null" -> "null"
      [] text = "1e400"                               -> "1e+400"
      [] OTHER                                        -> text

\* What an anchor names, and what a scalar is: its value, how it was read
\* and the member name it has as a key.  A collection has none.
AnchoredScalar(event) ==
    LET read == Resolved(event.text, event.style, event.tag)
    IN  [as |-> read.as, value |-> read.value, key |-> KeyName(read, event.text)]
AnchoredCollection(value) == [as |-> "held", value |-> value, key |-> None]

-----------------------------------------------------------------------------
VARIABLES
    document,   \* the tree the parser reads
    events,     \* its events, the ones not handled yet
    frames,     \* the open collections, the innermost last
    anchors,    \* the nodes remembered, by anchor
    root,       \* the finished document, null while there is none
    reports,    \* the diagnostics: a set of kinds and locations
    outcome     \* "reading", "loaded", or why the document was rejected

yamlVars == <<document, events, frames, anchors, root, reports, outcome>>

Innermost == frames[Len(frames)]

\* The next node read is a mapping key.
ExpectingKey ==
    /\ frames # <<>>
    /\ Innermost.node = "mapping"
    /\ Innermost.pending = None

\* Where the node being read lives: an element is counted where the document
\* has it, the dropped ones included.
Location(open) ==
    FlattenSeq([i \in DOMAIN open |->
        CASE open[i].node = "sequence" -> <<ToString(Len(open[i].items) + open[i].dropped)>>
          [] open[i].pending # None    -> <<open[i].pending>>
          [] OTHER                     -> <<>>])

Frame(event) ==
    [node |-> event.node, anchor |-> event.anchor, items |-> <<>>, dropped |-> 0,
     entries |-> <<>>, merges |-> <<>>, pending |-> None, isMerge |-> FALSE]

\* Hand a value to the innermost of `open`, the frame waiting for it.
Placed(open, value) ==
    LET last == open[Len(open)]
        next == CASE last.node = "sequence" ->
                        [last EXCEPT !.items = Append(@, value)]
                  [] last.isMerge ->
                        [last EXCEPT !.merges = Append(@, value), !.pending = None, !.isMerge = FALSE]
                  [] OTHER ->
                        [last EXCEPT !.entries = Append(@, <<last.pending, value>>), !.pending = None]
    IN  [open EXCEPT ![Len(open)] = next]

\* Mutant: a dropped member leaves its key waiting.
DroppedKeepingKey(open) ==
    LET last == open[Len(open)]
    IN  [open EXCEPT ![Len(open)] =
            IF last.node = "sequence" THEN [last EXCEPT !.dropped = @ + 1] ELSE last]

\* Drop a value: a mapping loses the member, a sequence the element.
Dropped(open) ==
    LET last == open[Len(open)]
    IN  [open EXCEPT ![Len(open)] =
            IF last.node = "sequence" THEN [last EXCEPT !.dropped = @ + 1]
            ELSE [last EXCEPT !.pending = None, !.isMerge = FALSE]]

Keyed(open, name, merge) ==
    [open EXCEPT ![Len(open)].pending = name, ![Len(open)].isMerge = merge]

Keep(value) ==
    IF frames = <<>> THEN root' = value /\ UNCHANGED frames
                     ELSE frames' = Placed(frames, value) /\ UNCHANGED root

\* place_anchored: what a scalar is, or what an alias names, where it lands.
PlaceAnchored(anchored) ==
    \/ /\ anchored.as = "held"
       /\ Keep(anchored.value)
       /\ UNCHANGED reports
    \/ /\ anchored.as = "rounded"
       /\ Keep(anchored.value)
       /\ reports' = reports \cup {<<"inexact", Location(frames)>>}
    \/ /\ anchored.as = "dropped"
       /\ reports' = reports \cup {<<"lost", Location(frames)>>}
       /\ IF frames = <<>> THEN root' = Null /\ UNCHANGED frames
                           ELSE frames' = Dropped(frames) /\ UNCHANGED root

(***************************************************************************)
(* Merge keys                                                              *)
(***************************************************************************)
\* The values the merge key brought, sequences of sources laid out in order.
RECURSIVE Sources(_)
Sources(value) ==
    IF value.kind = "array"
        THEN FlattenSeq([i \in DOMAIN value.items |-> Sources(value.items[i])])
        ELSE <<value>>

\* An explicit member wins over a source, and an earlier source over a later
\* one.  A source that is no mapping is kept as a member named `<<`.
Merged(members, source) ==
    LET brought == IF source.kind = "object" THEN source.members ELSE "<<" :> source
    IN  members @@ brought

\* The last entry of a name is the one that counts.
Explicit(entries) == FoldLeft(LAMBDA map, entry : (entry[1] :> entry[2]) @@ map, <<>>, entries)

Built(frame) ==
    Object(FoldLeft(Merged, Explicit(frame.entries),
                    FlattenSeq([i \in DOMAIN frame.merges |-> Sources(frame.merges[i])])))

\* The merge keys of a frame whose value is not a mapping are reported.
Malformed(frame, at) ==
    {<<"merge", Append(at, "<<")>> : i \in
        {j \in DOMAIN frame.merges :
            \E k \in DOMAIN Sources(frame.merges[j]) : Sources(frame.merges[j])[k].kind # "object"}}

-----------------------------------------------------------------------------
YamlInit ==
    /\ document \in Written
    /\ events = Events(document)
    /\ frames = <<>>
    /\ anchors = <<>>
    /\ root = Null
    /\ reports = {}
    /\ outcome = "reading"

\* The parser hands over an event of this kind.
Reading(kinds) ==
    /\ outcome = "reading"
    /\ events # <<>>
    /\ Head(events).node \in kinds
    /\ events' = Tail(events)
    /\ UNCHANGED document

Reject(why) == outcome' = why /\ UNCHANGED <<frames, anchors, root, reports>>

ReadScalar ==
    LET event == Head(events)
        anchored == AnchoredScalar(event)
    IN  /\ Reading({"scalar"})
        /\ anchors' = IF event.anchor = None THEN anchors
                      ELSE (event.anchor :> anchored) @@ anchors
        /\ IF ExpectingKey
               \* Only a plain, untagged `<<` is the merge key.
               THEN /\ frames' = Keyed(frames, anchored.key,
                            event.text = "<<" /\ event.style = "plain" /\ event.tag = None)
                    /\ UNCHANGED <<root, reports>>
               ELSE PlaceAnchored(anchored)
        /\ UNCHANGED outcome

ReadAlias ==
    LET name == Head(events).anchor
    IN  /\ Reading({"alias"})
        /\ name \in DOMAIN anchors
        /\ IF ExpectingKey
               THEN /\ anchors[name].key # None
                    /\ frames' = Keyed(frames, anchors[name].key, FALSE)
                    /\ UNCHANGED <<root, reports>>
               ELSE PlaceAnchored(anchors[name])
        /\ UNCHANGED <<anchors, outcome>>

\* An alias of nothing, or of a collection where a key is expected.
RefuseAlias ==
    LET name == Head(events).anchor
    IN  /\ Reading({"alias"})
        /\ \/ name \notin DOMAIN anchors /\ Reject("unparsable")
           \/ /\ name \in DOMAIN anchors
              /\ ExpectingKey
              /\ anchors[name].key = None
              /\ Reject("non-scalar key")

Open ==
    /\ Reading({"sequence", "mapping"})
    /\ ~ExpectingKey
    /\ Len(frames) < MaxDepth
    /\ frames' = Append(frames, Frame(Head(events)))
    /\ UNCHANGED <<anchors, root, reports, outcome>>

RefuseCollection ==
    /\ Reading({"sequence", "mapping"})
    /\ \/ ExpectingKey /\ Reject("non-scalar key")
       \/ ~ExpectingKey /\ Len(frames) >= MaxDepth /\ Reject("unparsable")

\* A collection is remembered when it closes, and handed to what is then the
\* innermost frame.
Close ==
    LET frame == Innermost
        outer == Front(frames)
        value == IF frame.node = "sequence" THEN List(frame.items) ELSE Built(frame)
    IN  /\ Reading({"end"})
        /\ anchors' = IF frame.anchor = None THEN anchors
                      ELSE (frame.anchor :> AnchoredCollection(value)) @@ anchors
        /\ reports' = reports \cup Malformed(frame, Location(outer))
        /\ IF outer = <<>> THEN root' = value /\ frames' = outer
                           ELSE frames' = Placed(outer, value) /\ UNCHANGED root
        /\ UNCHANGED outcome

EndDocument ==
    /\ outcome = "reading"
    /\ events = <<>>
    /\ outcome' = "loaded"
    /\ UNCHANGED <<document, events, frames, anchors, root, reports>>

YamlNext ==
    \/ ReadScalar \/ ReadAlias \/ RefuseAlias
    \/ Open \/ RefuseCollection \/ Close \/ EndDocument

YamlSpec == YamlInit /\ [][YamlNext]_yamlVars

(***************************************************************************)
(* What a document denotes, read off its tree: `known` are the nodes named *)
(* so far in the order of the text, `at` is the node's place.              *)
(***************************************************************************)
Told(got, at) ==
    CASE got.as = "rounded" -> {<<"inexact", at>>}
      [] got.as = "dropped" -> {<<"lost", at>>}
      [] OTHER              -> {}

Denotation(got, known, said, fault) ==
    [got |-> got, known |-> known, said |-> said, fault |-> fault]

\* The members of a mapping: a name's last explicit value, or the one of the
\* first source that has it.
MembersOf(pairs, sources) ==
    LET named == {pairs[i][1] : i \in DOMAIN pairs}
        lacking == {i \in DOMAIN sources : sources[i].kind # "object"}
        offered(i) == IF i \in lacking THEN {"<<"} ELSE DOMAIN sources[i].members
        LastOf(n) == CHOOSE i \in DOMAIN pairs :
                        pairs[i][1] = n /\ \A j \in DOMAIN pairs : pairs[j][1] = n => j <= i
        FirstWith(n) == CHOOSE i \in DOMAIN sources :
                           n \in offered(i) /\ \A j \in DOMAIN sources : n \in offered(j) => i <= j
    IN  [n \in named \cup UNION {offered(i) : i \in DOMAIN sources} |->
            CASE n \in named                -> pairs[LastOf(n)][2]
              [] FirstWith(n) \in lacking   -> sources[FirstWith(n)]
              [] OTHER                      -> sources[FirstWith(n)].members[n]]

RECURSIVE Denoted(_, _, _, _)
Denoted(node, known, at, depth) ==
    LET fresh(anchored, names) ==
            IF node.anchor = None THEN names ELSE (node.anchor :> anchored) @@ names
        Element(sofar, i) ==
            LET place == Append(at, ToString(i - 1))
                d == Denoted(node.parts[i], sofar.known, place, depth + 1)
            IN  IF sofar.fault # None THEN sofar ELSE
                [sofar EXCEPT
                    !.known = d.known,
                    !.fault = d.fault,
                    !.said  = @ \cup d.said \cup Told(d.got, place),
                    !.items = IF d.got.as = "dropped" THEN @ ELSE Append(@, d.got.value)]
        Member(sofar, i) ==
            LET key == node.parts[2 * i - 1]
                k == Denoted(key, sofar.known, at, depth + 1)
                place == Append(at, k.got.key)
                d == Denoted(node.parts[2 * i], k.known, place, depth + 1)
                merge == /\ key.node = "scalar" /\ key.text = "<<"
                         /\ key.style = "plain" /\ key.tag = None
            IN  CASE sofar.fault # None -> sofar
                  [] key.node \in {"sequence", "mapping"} ->
                        [sofar EXCEPT !.fault = "non-scalar key"]
                  [] k.fault # None -> [sofar EXCEPT !.fault = k.fault]
                  [] k.got.key = None -> [sofar EXCEPT !.fault = "non-scalar key"]
                  [] OTHER ->
                        [sofar EXCEPT
                            !.known = d.known,
                            !.fault = d.fault,
                            !.said  = @ \cup d.said \cup Told(d.got, place),
                            !.items = IF merge \/ d.got.as = "dropped" THEN @
                                      ELSE Append(@, <<k.got.key, d.got.value>>),
                            !.from  = IF ~merge \/ d.got.as = "dropped" THEN @
                                      ELSE @ \o Sources(d.got.value)]
        start == [known |-> known, fault |-> None, said |-> {}, items |-> <<>>, from |-> <<>>]
        nowhere == AnchoredCollection(Null)
    IN  CASE node.node = "scalar" ->
                Denotation(AnchoredScalar(node), fresh(AnchoredScalar(node), known), {}, None)
          [] node.node = "alias" /\ node.anchor \in DOMAIN known ->
                Denotation(known[node.anchor], known, {}, None)
          [] node.node = "alias" -> Denotation(nowhere, known, {}, "unparsable")
          [] depth >= MaxDepth -> Denotation(nowhere, known, {}, "unparsable")
          [] node.node = "sequence" ->
                LET all == FoldLeft(Element, start, [i \in DOMAIN node.parts |-> i])
                    whole == AnchoredCollection(List(all.items))
                IN  Denotation(whole, fresh(whole, all.known), all.said, all.fault)
          [] OTHER ->
                LET all == FoldLeft(Member, start, [i \in 1..(Len(node.parts) \div 2) |-> i])
                    odd == \E i \in DOMAIN all.from : all.from[i].kind # "object"
                    whole == AnchoredCollection(Object(MembersOf(all.items, all.from)))
                IN  Denotation(whole, fresh(whole, all.known),
                        all.said \cup (IF odd THEN {<<"merge", Append(at, "<<")>>} ELSE {}), all.fault)

\* The loaded value is what the document denotes, and every number that is
\* not the one written is reported at the place the document has it: aliases
\* are the node last named, explicit members win over merged ones, a dropped
\* value takes its key or its element along and nothing else, and a document
\* is rejected for the first thing in it that has no reading.
LoadedAsWritten ==
    LET d == Denoted(document, <<>>, <<>>, 0)
    IN  /\ outcome = "loaded" => /\ d.fault = None
                                /\ root = d.got.value
                                /\ reports = d.said \cup Told(d.got, <<>>)
        /\ outcome \in {"unparsable", "non-scalar key"} => d.fault = outcome

=============================================================================
