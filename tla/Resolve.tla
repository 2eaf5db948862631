------------------------------ MODULE Resolve ------------------------------
(***************************************************************************)
(* Reference resolution (resolve.rs): the schemas that references prove to *)
(* be schemas are read in rounds (materialize), every schema's reference   *)
(* is resolved against an index of the whole store, and every reference to *)
(* a component is followed to the component at the end of its chain.       *)
(*                                                                         *)
(* A SchemaId is the address the schema is registered at: a sequence of    *)
(* tokens.  A reference is what split() and JsonPointer::parse make of its *)
(* text; one without a fragment is a bare name, with no slash.  The        *)
(* parsers of documents and schemas are outside this module: a             *)
(* document says which addresses they register, which schemas reading an   *)
(* uninterpreted position registers, and where normalization moved what.   *)
(* The discriminator's targets and the counts are left out.                *)
(***************************************************************************)
EXTENDS Moves, Functions

CONSTANTS
    Documents,  \* the documents resolution may be given
    MaxRounds,  \* MAX_MATERIALIZE_ROUNDS
    MaxChain,   \* MAX_CHAIN
    Lowered(_)  \* to_lowercase, of one token

ASSUME RoundsAssumption == MaxRounds \in Nat \ {0}
ASSUME ChainAssumption == MaxChain \in Nat \ {0}

Nothing == "nothing"

\* A reference: its base, and its fragment as a pointer, as an anchor's name,
\* as one that starts as a pointer and is none, or absent.
Reference(base, fragment, to, name) ==
    [base |-> base, fragment |-> fragment, to |-> to, name |-> name]
NoReference == Reference(Nothing, "unwritten", << >>, Nothing)

\* What a section of components holds under a name: a component, or a
\* reference to a name of a section.
Item == [section |-> "item", name |-> Nothing]

-----------------------------------------------------------------------------
VARIABLES
    doc,        \* the parsed document
    phase,      \* "materialize", "schemas", "components" or "resolved"
    readAt,     \* the registered addresses, each with the round it was read in
    aliases,    \* pointers to moved positions, with where they were moved to
    round,      \* rounds of materialize begun
    targets,    \* where each schema's reference points, if anywhere
    use,        \* component references walked so far
    ends,       \* the component each written reference ends at, if any
    noted       \* the diagnostics: a set of kinds and sites

resolveVars == <<doc, phase, readAt, aliases, round, targets, use, ends, noted>>

Store == DOMAIN readAt
Schema(id) == doc.schemas[id]

\* Where normalization put what was written at `address`.
MovedAddress(address) == ShiftedByAll(address, doc.moves)

(***************************************************************************)
(* Repeats (bundle.rs)                                                     *)
(***************************************************************************)
\* The end of a chain of repeats, a chain that goes round ending where it
\* started to.
RECURSIVE ChainEnd(_, _)
ChainEnd(at, seen) ==
    IF at \notin DOMAIN doc.repeats \/ at \in seen THEN at
    ELSE ChainEnd(doc.repeats[at], seen \cup {at})

\* Mutant: one link of the chain.
CanonicalOnce(id) == IF id \in DOMAIN doc.repeats THEN doc.repeats[id] ELSE id

Canonical(id) == IF id \in DOMAIN doc.repeats THEN ChainEnd(doc.repeats[id], {id}) ELSE id

(***************************************************************************)
(* The index                                                               *)
(***************************************************************************)
Indexed == Store \cup {pair[1] : pair \in aliases}
AddressOf(address) ==
    IF address \in Store THEN Canonical(address)
    ELSE Canonical((CHOOSE pair \in aliases : pair[1] = address)[2])

\* What the declarations of a name say: a schema, nothing, or no single one.
\* Only the different schemas that declare it count.
Declared(ids) ==
    CASE ids = {}               -> [found |-> Nothing]
      [] Cardinality(ids) = 1   -> [found |-> "one", id |-> CHOOSE id \in ids : TRUE]
      [] OTHER                  -> [found |-> "ambiguous"]
IdNamed(name) == Declared({Canonical(id) : id \in {s \in Store : Schema(s).id = name}})
AnchorNamed(name) == Declared({Canonical(id) : id \in {s \in Store : name \in Schema(s).anchors}})

Exactly(id) == [found |-> "exactly", id |-> id]
After(id) == [found |-> "repaired", id |-> id]
Failed(reason) == [found |-> reason]

AtAddress(address) ==
    IF address \in Indexed THEN Exactly(AddressOf(address)) ELSE Failed("missing")

\* Index::direct: an `$id` of this document or its root, and the pointer or
\* the anchor the fragment is.
Direct(ref) ==
    LET within == IdNamed(ref.base)
        scope  == IF ref.base = Nothing THEN << >> ELSE within.id
    IN  CASE ref.base # Nothing /\ within.found = Nothing     -> Failed("external")
          [] ref.base # Nothing /\ within.found = "ambiguous" -> Failed("ambiguous")
          [] ref.fragment = Nothing ->
                IF ref.base = Nothing THEN Failed("unreadable") ELSE Exactly(within.id)
          [] ref.fragment = "pointer" -> AtAddress(scope \o ref.to)
          [] ref.fragment = "broken"  -> Failed("unreadable")
          [] OTHER ->
                LET named == AnchorNamed(ref.name)
                IN  CASE named.found = "one"       -> Exactly(named.id)
                      [] named.found = "ambiguous" -> Failed("ambiguous")
                      [] OTHER                     -> Failed("missing")

FoldedTo(address) ==
    LET low == [i \in DOMAIN address |-> Lowered(address[i])]
    IN  {at \in Indexed : [i \in DOMAIN at |-> Lowered(at[i])] = low}

\* A case variant of one address, and of no other.
Folded(address) ==
    IF Cardinality(FoldedTo(address)) # 1 THEN Failed("missing")
    ELSE After(AddressOf(CHOOSE at \in FoldedTo(address) : TRUE))

Component(name) == <<"components", "schemas", name>>

\* Index::resolve: directly, or after one of two repairs.
Repaired(ref) ==
    LET direct == Direct(ref)
        bare   == ref.base # Nothing /\ ref.fragment = Nothing
        folded == Folded(ref.to)
    IN  CASE direct.found = "exactly" -> direct
          [] bare /\ Component(ref.base) \in Indexed -> After(AddressOf(Component(ref.base)))
          [] /\ direct.found # "external"
             /\ ref.fragment = "pointer"
             /\ folded.found = "repaired" -> folded
          [] bare /\ direct.found = "external" -> Failed("missing")
          [] OTHER -> direct

\* The innermost `$id` around `at`, other than the document's root.
Scopes(at) == {n \in 1..Len(at) :
                  /\ SubSeq(at, 1, n) \in Indexed
                  /\ Schema(AddressOf(SubSeq(at, 1, n))).id # Nothing}

\* Index::scoped, then Index::resolve: a pointer is read in the innermost
\* `$id` around it where that holds what it names, and from the root else.
Found(ref, at) ==
    LET inner  == CHOOSE n \in Scopes(at) : \A m \in Scopes(at) : m <= n
        scoped == SubSeq(at, 1, inner) \o ref.to
    IN  IF /\ ref.base = Nothing /\ ref.fragment = "pointer" /\ ref.to # << >>
           /\ Scopes(at) # {}
           /\ scoped \in Indexed
        THEN Exactly(AddressOf(scoped))
        ELSE Repaired(ref)

-----------------------------------------------------------------------------
(***************************************************************************)
(* Rounds                                                                  *)
(***************************************************************************)
Referring == {id \in Store : Schema(id).ref # NoReference}

\* The schemas whose reference is a pointer into this document and no more.
Pointing == {id \in Referring : /\ Schema(id).ref.base = Nothing
                               /\ Schema(id).ref.fragment = "pointer"
                               /\ Schema(id).ref.to # << >>}

\* The positions this round's references name that nothing registered.
Unregistered == {Schema(id).ref.to : id \in Pointing} \ Store
MovedHere == {to \in Unregistered : MovedAddress(to) # to /\ MovedAddress(to) \in Store}
Wanted == {to \in Unregistered \ MovedHere : to \in DOMAIN doc.hidden}
\* A target that an earlier one of the round holds is not read twice.
Held(to) == \E outer \in Wanted \ {to} :
                to \in doc.hidden[outer] \/ MovedAddress(to) \in doc.hidden[outer]
ReadNow == {to \in Wanted : ~Held(to)}
RegisteredNow == UNION {doc.hidden[to] : to \in ReadNow}

Materialize ==
    /\ phase = "materialize"
    /\ round < MaxRounds
    /\ round' = round + 1
    /\ readAt' = [id \in Store \cup RegisteredNow |->
                    IF id \in Store THEN readAt[id] ELSE round + 1]
    /\ aliases' = aliases
           \cup {<<to, MovedAddress(to)>> : to \in MovedHere}
           \cup {<<to, MovedAddress(to)>> : to \in
                    {w \in Wanted \ ReadNow : w \notin RegisteredNow}}
    /\ noted' = noted \cup {<<"read", id>> : id \in {s \in Pointing : Schema(s).ref.to \in Wanted}}
    /\ phase' = IF Wanted = {} THEN "schemas" ELSE "materialize"
    /\ UNCHANGED <<doc, targets, use, ends>>

StopMaterializing ==
    /\ phase = "materialize"
    /\ round = MaxRounds
    /\ phase' = "schemas"
    /\ UNCHANGED <<doc, readAt, aliases, round, targets, use, ends, noted>>

ResolveSchemas ==
    LET found  == [id \in Referring |-> Found(Schema(id).ref, id)]
        landed == {id \in Referring : found[id].found \in {"exactly", "repaired"}}
    IN  /\ phase = "schemas"
        /\ targets' = [id \in landed |-> found[id].id]
        /\ noted' = noted
               \cup {<<"repaired", id>> : id \in {s \in landed : found[s].found = "repaired"}}
               \cup {<<found[id].found, id>> : id \in Referring \ landed}
        /\ phase' = "components"
        /\ UNCHANGED <<doc, readAt, aliases, round, use, ends>>

(***************************************************************************)
(* Component references                                                    *)
(***************************************************************************)
\* The name a reference addresses in the reader's section, Nothing where it
\* addresses another section or no component.
NameIn(written, section) == IF written.section = section THEN written.name ELSE Nothing

\* Mutant: the last link may be a reference.
RECURSIVE ChaseToTheLast(_, _, _)
ChaseToTheLast(written, section, links) ==
    LET name == NameIn(written, section)
    IN  CASE name \notin DOMAIN doc.components[section] -> Nothing
          [] links = 1                                  -> name
          [] doc.components[section][name] = Item       -> name
          [] OTHER -> ChaseToTheLast(doc.components[section][name], section, links - 1)
ChasedToTheLast(written, section) == ChaseToTheLast(written, section, MaxChain)

RECURSIVE Chase(_, _, _)
Chase(written, section, links) ==
    LET name == NameIn(written, section)
    IN  CASE links = 0                                  -> Nothing
          [] name \notin DOMAIN doc.components[section] -> Nothing
          [] doc.components[section][name] = Item       -> name
          [] OTHER -> Chase(doc.components[section][name], section, links - 1)

\* The name at the end of the chain a reference starts.
Chased(written, section) == Chase(written, section, MaxChain)

\* The walk meets the next reference to a component.
ReadUse ==
    LET site == doc.uses[use + 1]
        key  == <<site.section, site.written>>
        end  == Chased(site.written, site.section)
    IN  /\ phase = "components"
        /\ use < Len(doc.uses)
        /\ use' = use + 1
        /\ \/ /\ key \in DOMAIN ends
              /\ UNCHANGED <<ends, noted>>
           \/ /\ key \notin DOMAIN ends /\ end # Nothing
              /\ ends' = (key :> end) @@ ends
              /\ UNCHANGED noted
           \/ /\ key \notin DOMAIN ends /\ end = Nothing
              /\ noted' = noted \cup {<<"dangling", use + 1>>}
              /\ UNCHANGED ends
        /\ UNCHANGED <<doc, phase, readAt, aliases, round, targets>>

FinishResolve ==
    /\ phase = "components"
    /\ use = Len(doc.uses)
    /\ phase' = "resolved"
    /\ UNCHANGED <<doc, readAt, aliases, round, targets, use, ends, noted>>

ResolveInit ==
    /\ doc \in Documents
    /\ phase = "materialize"
    /\ readAt = [id \in doc.parsed |-> 0]
    /\ aliases = {}
    /\ round = 0
    /\ targets = << >>
    /\ use = 0
    /\ ends = << >>
    /\ noted = {}

ResolveNext ==
    \/ Materialize \/ StopMaterializing \/ ResolveSchemas
    \/ ReadUse \/ FinishResolve

ResolveSpec == ResolveInit /\ [][ResolveNext]_resolveVars

-----------------------------------------------------------------------------
(***************************************************************************)
(* Properties                                                              *)
(***************************************************************************)
Failures == {"missing", "ambiguous", "external", "unreadable"}

\* What an address is through any number of links of repeats.
RECURSIVE Repeated(_)
Repeated(id) == {id} \cup (IF id \in DOMAIN doc.repeats THEN Repeated(doc.repeats[id]) ELSE {})

\* `id` is the schema at `address`, which is the end of its repeats.
IsSchemaAt(id, address) == id \in Repeated(address) \ DOMAIN doc.repeats

SchemaReferencesRead ==
    \A s \in Referring :
        LET to    == Schema(s).ref.to
            moved == MovedAddress(to)
            early(id) == id \in Store /\ readAt[id] < MaxRounds
        IN  /\ s \in DOMAIN targets <=> \A why \in Failures : <<why, s>> \notin noted
            /\ s \in DOMAIN targets => targets[s] \in Store \ DOMAIN doc.repeats
            /\ s \in Pointing /\ Scopes(s) = {} =>
                /\ to \in Store =>
                       s \in DOMAIN targets /\ IsSchemaAt(targets[s], to) /\ <<"repaired", s>> \notin noted
                /\ to \notin Store /\ early(s) /\ early(moved) =>
                       s \in DOMAIN targets /\ IsSchemaAt(targets[s], moved)
                /\ to \in DOMAIN doc.hidden /\ early(s) => to \in Store \/ moved \in Store

\* A chain of links in one section from a reference to a component.
IsChain(path, site) ==
    LET held == doc.components[site.section]
    IN  /\ \A i \in DOMAIN path : path[i] \in DOMAIN held
        /\ path[1] = site.written.name /\ site.written.section = site.section
        /\ \A i \in 1..(Len(path) - 1) :
              /\ held[path[i]] # Item
              /\ held[path[i]].section = site.section
              /\ held[path[i]].name = path[i + 1]
        /\ held[path[Len(path)]] = Item

ComponentReferencesRead ==
    \A u \in DOMAIN doc.uses :
        LET site  == doc.uses[u]
            key   == <<site.section, site.written>>
            names == DOMAIN doc.components[site.section]
            chains == {p \in UNION {[1..n -> names] : n \in 1..MaxChain} : IsChain(p, site)}
        IN  IF key \in DOMAIN ends
            THEN \E path \in chains : path[Len(path)] = ends[key]
            ELSE chains = {} /\ <<"dangling", u>> \in noted

\* Every reference is read as the one thing it names, or reported.  A pointer
\* names one schema however it is written: at the position, at the position a
\* rewrite moved it from, or at a repeat of it; a position nothing had parsed
\* is read because a reference names it, as far as the rounds go; and a chain
\* of component references ends at a component, never at a reference, or the
\* use it starts from is reported, loops included.
ReferencesRead ==
    phase = "resolved" => SchemaReferencesRead /\ ComponentReferencesRead

=============================================================================
