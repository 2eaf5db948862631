------------------------------- MODULE MCLoad -------------------------------
(* Behaviours of three kinds: the loader over a small document, the          *)
(* resolution of a small document followed by the key of one of its schemas, *)
(* and the same of a document that normalization rewrote first.              *)
EXTENDS Yaml, MCNormalize

-----------------------------------------------------------------------------
(* Documents of the loader: mappings of two members, a sequence of two, and  *)
(* collections as keys, with one anchor `x` set again and again, numbers     *)
(* that are dropped or rounded, and merge keys plain and quoted.             *)
Plain(text) == Word(text, "plain", None, None)
Named(text) == Word(text, "plain", None, "x")
Nearest == "0.30000000000000000000001"

Leaves == {Plain("a"), Plain(".inf"), Named("a"), Named(".inf"), Named(Nearest), AliasOf("x"),
           Word("1e400", "quoted", "float", None)}
Keyish == {Plain("k"), Plain("<<"), Word("<<", "quoted", None, None), Named("1e400"), AliasOf("x"),
           Word("~", "plain", None, None)}
Flat == {SequenceOf(<<a, b>>, n) :
            a \in {Plain("a"), Plain(".inf"), AliasOf("x")}, b \in Leaves, n \in {None, "x"}}
        \cup {MappingOf(<<k, a>>, n) : k \in Keyish, a \in Leaves, n \in {None, "x"}}
\* A sequence of merge sources, and collections below one another: one too
\* many, and as many as may be open with an alias in the innermost.
Sourced == SequenceOf(<<MappingOf(<<Plain("k"), Plain("b")>>, None), AliasOf("x")>>, None)
Tower == SequenceOf(<<SequenceOf(<<AliasOf("x"), SequenceOf(<<Plain("a")>>, None)>>, None)>>, None)
Shaft == SequenceOf(<<SequenceOf(<<AliasOf("x")>>, None)>>, None)

SmallDocuments ==
    {MappingOf(<<k1, v1, k2, v2>>, None) :
        k1 \in Keyish, v1 \in Leaves \cup Flat, k2 \in Keyish,
        v2 \in {Plain("a"), AliasOf("x"), Sourced}}
    \cup {SequenceOf(<<v1, v2>>, "x") : v1 \in Leaves \cup Flat, v2 \in {AliasOf("x"), Sourced, Tower, Shaft}}
    \cup {MappingOf(<<v, Plain("a")>>, None) : v \in Flat}
    \cup Leaves

-----------------------------------------------------------------------------
(* Documents of resolution.                                                  *)
C(name) == Component(name)
X(name) == <<"x", name>>
ToPointer(at) == Reference(Nothing, "pointer", at, Nothing)
ToAnchor(name) == Reference(Nothing, "anchor", << >>, name)
LowerCase(token) == IF token = "Pet" THEN "pet" ELSE token

Blank == [is |-> "object", ref |-> NoReference, id |-> Nothing, anchors |-> {}, allOf |-> << >>,
          dispatches |-> FALSE, union |-> << >>, says |-> TRUE, open |-> TRUE]
Refers(ref) == [Blank EXCEPT !.ref = ref, !.says = FALSE]
Plainly(schemas) ==
    [schemas |-> schemas, parsed |-> DOMAIN schemas, hidden |-> << >>, moves |-> << >>,
     repeats |-> << >>, components |-> << >>, uses |-> << >>]

\* Chains of references through positions nothing parsed, one below another,
\* and through a position that the rewrite of the schema around it moves.
Inner == <<"x", "h", "d">>
Former == <<"x", "h", "old">>
Latter == <<"x", "h", "new">>
Hops == {NoReference} \cup {ToPointer(p) : p \in {C("B"), X("h"), Inner, Former, X("i"), X("no")}}
HiddenDocuments ==
    {[Plainly((C("A") :> Refers(a)) @@ (C("B") :> Refers(b)) @@ (X("h") :> Refers(h))
              @@ (Inner :> Refers(d)) @@ (Former :> Refers(o)) @@ (Latter :> Refers(o))
              @@ (X("i") :> Refers(i)))
        EXCEPT !.parsed = {C("A"), C("B")},
               !.hidden = (X("h") :> {X("h"), Inner, Latter}) @@ (Inner :> {Inner})
                          @@ (Former :> {Former}) @@ (X("i") :> {X("i")}),
               !.moves = <<[from |-> Former, to |-> Latter]>>] :
        a \in Hops, b \in Hops, h \in Hops, d \in {NoReference, ToPointer(X("i"))},
        o \in {NoReference, ToPointer(X("h"))}, i \in {ToPointer(C("A")), ToPointer(Former)}}

\* Names that are declared once, twice, or by repeats of one schema, and
\* addresses that differ in case.
Written1 ==
    {ToPointer(p) : p \in {C("Pet"), C("PET"), C("pet"), C("S"), <<"components", "SCHEMAS", "Pet">>, <<"d">>}}
    \cup {ToAnchor(n) : n \in {"a", "b"}}
    \cup {Reference(base, f, <<"d">>, "a") :
            base \in {"u", "other"}, f \in {"pointer", "anchor", Nothing}}
    \cup {Reference("Pet", Nothing, << >>, Nothing), Reference(Nothing, "broken", << >>, Nothing)}
InPet == C("Pet") \o <<"d">>
NamingDocuments ==
    {[Plainly((C("Pet") :> [Blank EXCEPT !.id = u, !.anchors = {"a"}])
              @@ (InPet :> Refers(w1)) @@ (C("pet2") :> Refers(w2))
              @@ (C("Q") :> [Blank EXCEPT !.anchors = {"b"}])
              @@ (C("R") :> [Blank EXCEPT !.anchors = IF C("R") \in DOMAIN r THEN {"b"} ELSE q, !.id = v])
              @@ (C("S") :> [Blank EXCEPT !.anchors = {"b"}])
              @@ (IF low THEN C("pet") :> Blank ELSE << >>))
        EXCEPT !.repeats = r] :
        u \in {Nothing, "u"}, v \in {Nothing, "u"}, q \in {{}, {"a", "b"}}, low \in BOOLEAN,
        w1 \in Written1, w2 \in Written1,
        r \in {<< >>, C("R") :> C("Q"), (C("S") :> C("R")) @@ (C("R") :> C("Q"))}}

\* Chains of component references, loops among them.
Sections == {"responses", "headers"}
Names == {"m", "n", "o"}
Links == {Item} \cup {[section |-> "responses", name |-> n] : n \in Names \cup {"absent"}}
         \cup {[section |-> "headers", name |-> "n"]}
ChainedDocuments ==
    {[Plainly(C("A") :> Blank)
        EXCEPT !.components = ("responses" :> held) @@ ("headers" :> ("n" :> Item)),
               !.uses = <<[section |-> "responses", written |-> w],
                          [section |-> s, written |-> [section |-> "responses", name |-> "n"]],
                          [section |-> "responses", written |-> w]>>] :
        held \in [Names -> Links], w \in Links \ {Item}, s \in Sections}

\* A base and a subtype of it that may also reach the base through another
\* schema, and members that refer to one another.
ToBase == X("b")
ToMid == X("m")
Families ==
    {Plainly((C("Base") :> [Blank EXCEPT !.dispatches = family, !.union = IF family THEN <<X("c")>> ELSE << >>,
                                         !.allOf = loop])
             @@ (C("Cat") :> [Blank EXCEPT !.says = says, !.allOf = members])
             @@ (C("Mid") :> [Blank EXCEPT !.says = FALSE, !.allOf = through, !.ref = r])
             @@ (ToBase :> Refers(ToPointer(C("Base"))))
             @@ (ToMid :> Refers(ToPointer(C("Mid"))))
             @@ (X("c") :> Refers(ToPointer(C("Cat"))))) :
        family \in BOOLEAN, says \in BOOLEAN, loop \in {<< >>, <<X("c")>>},
        members \in {<< >>, <<ToBase>>, <<ToMid>>, <<ToBase, ToMid>>, <<ToMid, ToBase>>, <<ToMid, ToBase, X("c")>>},
        through \in {<< >>, <<ToBase>>, <<X("c")>>, <<ToMid, ToBase>>},
        r \in {NoReference, ToPointer(C("Cat"))}}
    \cup {Plainly((C("A") :> [Refers(NoReference) EXCEPT !.allOf = <<C("T"), C("F")>>])
                  @@ (C("T") :> [Refers(NoReference) EXCEPT !.is = "true"])
                  @@ (C("F") :> [Refers(NoReference) EXCEPT !.is = f])) : f \in {"true", "false"}}

SmallParsed == HiddenDocuments \cup NamingDocuments \cup ChainedDocuments \cup Families

-----------------------------------------------------------------------------
ResolveIdle ==
    /\ doc = Nothing /\ phase = "idle" /\ readAt = << >> /\ aliases = {} /\ round = 0
    /\ targets = << >> /\ use = 0 /\ ends = << >> /\ noted = {}
YamlIdle ==
    /\ document = Plain("") /\ events = << >> /\ frames = << >> /\ anchors = << >>
    /\ root = Null /\ reports = {} /\ outcome = "idle"

NormalizeIdle ==
    /\ source = Nothing /\ stage = "idle" /\ tree = << >> /\ unwalked = {} /\ moved = << >>
    /\ repairs = {}

LoadInit ==
    /\ KeysIdle
    /\ \/ YamlInit /\ ResolveIdle /\ NormalizeIdle
       \/ ResolveInit /\ YamlIdle /\ NormalizeIdle
       \/ NormalizeInit /\ ResolveIdle /\ YamlIdle
LoadNext ==
    \/ YamlNext /\ UNCHANGED <<normalizeVars, resolveVars, keyVars>>
    \/ PipelineNext /\ UNCHANGED yamlVars
LoadSpec == LoadInit /\ [][LoadNext]_<<yamlVars, normalizeVars, resolveVars, keyVars>>

=============================================================================
