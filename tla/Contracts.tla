---------------------------- MODULE Contracts ----------------------------
(***************************************************************************)
(* The contract layer: what happens to the table of generated types        *)
(* between lowering and the renderer. Each pass is an action, each round   *)
(* of a pass that loops is a step. Positions in the table are the only     *)
(* identity a type has, and three passes renumber or extend the table, so  *)
(* everything that holds a position has to move with it.                   *)
(***************************************************************************)
EXTENDS TypeGraph

CONSTANTS Shapes,  \* the classified shapes that lowering gave a type
          Inputs   \* what lowering and the caller's configuration hand over

VARIABLES
    input,      \* the member of Inputs this build started from
    phase,      \* the pass that runs next
    round,      \* rounds taken by the pass that is looping
    types,      \* the table
    byShape,    \* the type each shape became
    collapses,  \* findings about a member, owned by a type
    queue,      \* positions still to visit, per direction
    reach,      \* positions reached, per direction
    differing,  \* positions whose read form has another shape
    twins,      \* strict position -> position of its read twin
    reports,    \* the non-consuming cycles reported
    supported,  \* per position, the derives the type can have
    derives     \* per position, the derives the frozen type carries

vars == <<input, phase, round, types, byShape, collapses, queue, reach,
          differing, twins, reports, supported, derives>>

Direction == {"request", "response"}
Derive == {"PartialEq", "Eq", "Hash", "PartialOrd", "Ord", "Default", "Copy"}
CycleKind == {"Nonproductive", "NullOnly", "Replaying"}

InTable(ref, n) == ref.leaf = "Named" => ref.to \in 1..n
Pinned(c) == c.naming # "inline"

\* What a kind says of its members: a wrapper has one, only a struct captures.
Shaped(c) ==
    /\ c.kind \in {"Alias", "Newtype"} => Len(c.members) = 1
    /\ c.kind # "Struct" =>
          \A k \in DOMAIN c.members : c.members[k].capture = "None"

(* What lowering hands over: positions in range, one item in a wrapper, an *)
(* Option around a member that may be absent, a null read by a nullable    *)
(* one, every type the type of some shape with a name of its own, and      *)
(* nothing twinned yet.                                                    *)
WellFormed(in) ==
    LET n == Len(in.types)
    IN  /\ in.types \in Seq(Contract)
        /\ \A i \in 1..n : \A k \in DOMAIN in.types[i].members :
              LET m == in.types[i].members[k]
              IN  /\ InTable(m.ty, n)
                  /\ m.presence = "Optional" => SpellsOption(m.ty)
                  /\ m.presence = "Nullable" => SpellsOption(Unaliased(in.types, m.ty))
        /\ \A i \in 1..n :
              /\ in.types[i].form = [mode |-> "Strict", half |-> 0]
              /\ Shaped(in.types[i])
              /\ \E s \in Shapes : Names(in.byShape[s], i)
        /\ \A i, j \in 1..n : in.types[i].origin = in.types[j].origin => i = j
        /\ in.byShape \in [Shapes -> TypeRef]
        /\ \A s \in Shapes : InTable(in.byShape[s], n)
        /\ in.collapses \subseteq [owner : 1..n, at : Nat]
        /\ in.requests \subseteq Shapes
        /\ in.responses \subseteq Shapes
        /\ in.branches \subseteq Shapes
        /\ in.lenient \in BOOLEAN
        /\ in.orderedMap \in BOOLEAN
        /\ in.wanted \subseteq Derive
        /\ in.asked \subseteq Derive
        /\ in.named \subseteq Nat

ASSUME InputsAssumption == \A in \in Inputs : WellFormed(in)

Init ==
    /\ input \in Inputs
    /\ phase = "dedup"
    /\ round = 0
    /\ types = input.types
    /\ byShape = input.byShape
    /\ collapses = input.collapses
    /\ queue = [d \in Direction |-> {}]
    /\ reach = [d \in Direction |-> {}]
    /\ differing = {}
    /\ twins = << >>
    /\ reports = {}
    /\ supported = << >>
    /\ derives = << >>

-----------------------------------------------------------------------------
(* Dedup: merge types that are one contract, until nothing more merges.    *)

\* Mutant: the types of the members are left out of the encoding.
FingerprintByArity(c) == <<c.unknown, c.kind, Len(c.members)>>
Fingerprint(c) == <<c.unknown, c.kind, c.members>>

Group(ts, i) == {j \in DOMAIN ts : Fingerprint(ts[j]) = Fingerprint(ts[i])}

First(S) == CHOOSE i \in S : \A j \in S : i <= j

\* The type a group merges into: the first one somebody named, else the first.
Survivor(ts, i) ==
    LET pinned == {j \in Group(ts, i) : Pinned(ts[j])}
    IN  IF pinned # {} THEN First(pinned) ELSE First(Group(ts, i))

\* Mutant: a named type merges like an inline one.
TargetWhoever(ts, i) == Survivor(ts, i)
Target(ts, i) == IF Pinned(ts[i]) THEN i ELSE Survivor(ts, i)

Plan(ts) == {i \in DOMAIN ts : Target(ts, i) # i}

\* The last round the merge may take. Mutant: one round is taken to be enough.
OneMerge == 0
LastMerge == Len(input.types)

\* Every holder of a position is rewritten, then the dropped entries go.
Renumber(kept, moved) ==
    /\ types' = Keep([i \in 1..Len(types) |-> RemapContract(types[i], moved)], kept)
    /\ byShape' = [s \in Shapes |-> Remap(byShape[s], moved)]
    /\ collapses' = {[c EXCEPT !.owner = moved[c.owner]] : c \in
                        {x \in collapses : x.owner \in DOMAIN moved}}

DedupRound ==
    LET kept == (DOMAIN types) \ Plan(types)
    IN  /\ phase = "dedup"
        /\ round <= LastMerge
        /\ Plan(types) # {}
        /\ Renumber(kept, [i \in 1..Len(types) |-> Rank(kept, Target(types, i))])
        /\ round' = round + 1
        /\ UNCHANGED <<input, phase, queue, reach, differing, twins, reports,
                       supported, derives>>

\* The named types at the positions a set of shapes takes in the document.
Seeds(shapes) == {byShape[s].to : s \in {x \in shapes : byShape[x].leaf = "Named"}}

DedupEnd ==
    /\ phase = "dedup"
    /\ Plan(types) = {} \/ round > LastMerge
    /\ phase' = IF input.lenient THEN "reach" ELSE "unit"
    /\ round' = 0
    /\ queue' = IF input.lenient
                THEN [d \in Direction |->
                        Seeds(IF d = "request" THEN input.requests ELSE input.responses)]
                ELSE queue
    /\ UNCHANGED <<input, types, byShape, collapses, reach, differing, twins,
                   reports, supported, derives>>

-----------------------------------------------------------------------------
(* Reach: which directions each type travels in.                           *)

\* Mutant: the worklist forgets what it has visited.
AlwaysUnseen(d, at) == TRUE
Unseen(d, at) == at \notin reach[d]

ReachStep(d) ==
    LET at == CHOOSE i \in queue[d] : TRUE
        rest == queue[d] \ {at}
    IN  /\ phase = "reach"
        /\ queue[d] # {}
        /\ d = "response" => queue["request"] = {}
        /\ reach' = [reach EXCEPT ![d] = reach[d] \cup {at}]
        /\ queue' = [queue EXCEPT ![d] =
                        rest \cup (IF Unseen(d, at) THEN Holds(types[at]) ELSE {})]
        /\ UNCHANGED <<input, phase, round, types, byShape, collapses, differing,
                       twins, reports, supported, derives>>

ReachEnd ==
    /\ phase = "reach"
    /\ \A d \in Direction : queue[d] = {}
    /\ phase' = "unit"
    /\ UNCHANGED <<input, round, types, byShape, collapses, queue, reach, differing,
                   twins, reports, supported, derives>>

-----------------------------------------------------------------------------
(* Unit: an empty payload of a consumed-tag variant becomes a unit variant. *)

Bare(ref) == ref.leaf = "Named" /\ ref.wraps = << >>

ReadOnly(i) == input.lenient /\ i \in reach["response"] /\ i \notin reach["request"]

Empty(i) ==
    /\ types[i].kind = "Struct"
    /\ types[i].members = << >>
    /\ types[i].unknown = "Ignore"
    /\ types[i].naming \in {"inline", "title"}
    /\ ~ReadOnly(i)

\* Positions a contract holds other than as a consumed-tag variant's whole payload.
HeldAsType(c) ==
    {ref.to : ref \in {r \in References(c) :
        r.leaf = "Named" /\ ~(c.kind = "TaggedEnum" /\ Bare(r))}}

ShapedAsType ==
    {byShape[s].to : s \in {x \in Shapes :
        byShape[x].leaf = "Named" /\ ~(x \in input.branches /\ Bare(byShape[x]))}}

Units ==
    {i \in DOMAIN types : Empty(i)}
        \ (ShapedAsType \cup UNION {HeldAsType(types[j]) : j \in DOMAIN types})

UnitRef(ref, units) ==
    IF Bare(ref) /\ ref.to \in units THEN LeafRef("Unit") ELSE ref

UnitVariants(c, units) ==
    IF c.kind = "TaggedEnum"
    THEN Retyped(c, [k \in 1..Len(c.members) |-> UnitRef(c.members[k].ty, units)])
    ELSE c

\* A struct with a required member has another shape when every member is optional.
DiffersAlone(c) ==
    /\ c.kind = "Struct"
    /\ \E k \in DOMAIN c.members :
          c.members[k].presence = "Required" /\ c.members[k].capture = "None"

UnitRun ==
    LET kept == (DOMAIN types) \ Units
        moved == [i \in kept |-> Rank(kept, i)]
    IN  /\ phase = "unit"
        /\ types' = Keep([i \in 1..Len(types) |->
                            RemapContract(UnitVariants(types[i], Units), moved)], kept)
        /\ byShape' = [s \in Shapes |-> Remap(UnitRef(byShape[s], Units), moved)]
        /\ collapses' = {[c EXCEPT !.owner = moved[c.owner]] : c \in
                            {x \in collapses : x.owner \in kept}}
        /\ reach' = [d \in Direction |-> {moved[i] : i \in reach[d] \cap kept}]
        /\ differing' = {i \in DOMAIN types' : input.lenient /\ DiffersAlone(types'[i])}
        /\ phase' = IF input.lenient THEN "twin" ELSE "normalize"
        /\ UNCHANGED <<input, round, queue, twins, reports, supported, derives>>

-----------------------------------------------------------------------------
(* Twin: give every type its form, and a read twin to those that need two. *)

DiffersThrough ==
    {i \in DOMAIN types : i \notin differing /\ Holds(types[i]) \cap differing # {}}

DiffersRound ==
    /\ phase = "twin"
    /\ DiffersThrough # {}
    /\ differing' = differing \cup DiffersThrough
    /\ UNCHANGED <<input, phase, round, types, byShape, collapses, queue, reach,
                   twins, reports, supported, derives>>

CaptureMember ==
    [ty |-> Wrapped("Map", LeafRef("Value")), presence |-> "Required",
     capture |-> "Undeclared"]

\* Mutant: a required member stays required in the read form.
LeftRequired(m) == m
Opened(m) ==
    IF m.presence = "Required" /\ m.capture = "None"
    THEN [m EXCEPT !.ty = Wrapped("Option", m.ty)] ELSE m

\* The read form: required members optional, undeclared ones kept. Mutant: of
\* every kind, captured or not.
LoosenAnyKind(c) ==
    [c EXCEPT !.members =
        Append([k \in 1..Len(c.members) |-> Opened(c.members[k])], CaptureMember)]
Loosen(c) ==
    LET opened == [k \in 1..Len(c.members) |-> Opened(c.members[k])]
        captures == \E k \in DOMAIN c.members : c.members[k].capture # "None"
    IN  IF c.kind # "Struct" THEN c
        ELSE [c EXCEPT !.members =
                IF captures THEN opened ELSE Append(opened, CaptureMember)]

\* Mutant: a read form keeps naming the strict forms.
ReadFormOfStrict(c, twinOf) == IF IsLenient(c) THEN Loosen(c) ELSE c
ReadForm(c, twinOf) == IF IsLenient(c) THEN Loosen(RemapContract(c, twinOf)) ELSE c

Twinned == reach["request"] \cap reach["response"] \cap differing

\* Mutant: whatever a response reaches takes the read form.
FormByResponse(i, twinOf) ==
    IF i \notin reach["response"] THEN [mode |-> "Strict", half |-> 0]
    ELSE IF i \in DOMAIN twinOf THEN [mode |-> "Strict", half |-> twinOf[i]]
    ELSE [mode |-> "Lenient", half |-> 0]
FormOf(i, twinOf) ==
    IF i \notin reach["response"] THEN [mode |-> "Strict", half |-> 0]
    ELSE IF i \notin reach["request"] THEN [mode |-> "Lenient", half |-> 0]
    ELSE IF i \in DOMAIN twinOf THEN [mode |-> "Strict", half |-> twinOf[i]]
    ELSE [mode |-> "Shared", half |-> 0]

TwinRun ==
    LET n == Len(types)
        twinOf == [i \in Twinned |-> n + Rank(Twinned, i)]
        Half(k) == CHOOSE i \in Twinned : Rank(Twinned, i) = k
        Formed(k) ==
            IF k <= n THEN [types[k] EXCEPT !.form = FormOf(k, twinOf)]
            ELSE [types[Half(k - n)] EXCEPT
                    !.form = [mode |-> "Lenient", half |-> Half(k - n)]]
    IN  /\ phase = "twin"
        /\ DiffersThrough = {}
        /\ types' = [k \in 1..(n + Cardinality(Twinned)) |-> ReadForm(Formed(k), twinOf)]
        /\ twins' = twinOf
        /\ phase' = "normalize"
        /\ UNCHANGED <<input, round, byShape, collapses, queue, reach, differing,
                       reports, supported, derives>>

-----------------------------------------------------------------------------
(* Finalize: cycles removed or boxed, nullable members reopened.           *)

AliasOf(c, leaf) ==
    [c EXCEPT !.kind = "Alias",
              !.members = <<[ty |-> LeafRef(leaf), presence |-> "Required",
                             capture |-> "None"]>>]

ThroughNull(ref) ==
    Forwards(ref) /\ \E k \in DOMAIN ref.wraps : ref.wraps[k] \in {"Option", "Presence"}

KindOfCycle(cycle) ==
    IF \E i \in cycle : types[i].kind \notin {"Alias", "Newtype"} THEN "Replaying"
    ELSE IF \E i \in cycle : \E ref \in References(types[i]) : ThroughNull(ref)
         THEN "NullOnly" ELSE "Nonproductive"

IsTwin(c) == IsLenient(c) /\ c.form.half # 0

\* The types on a cycle of non-consuming steps. Mutant: only those that name
\* themselves.
ReplayThemselves(ts) == {i \in DOMAIN ts : <<i, i>> \in ForwardEdges(ts)}
Replaying(ts) ==
    LET paths == Paths(Len(ts), ForwardEdges(ts))
    IN  {i \in DOMAIN ts : Recursive(paths, i)}

\* A cycle of read twins mirrors its strict halves' cycle. Mutant: it is reported too.
ReportedAnyway(cycle) == TRUE
Reported(cycle) == \E i \in cycle : ~IsTwin(types[i])

Normalize ==
    LET paths == Paths(Len(types), ForwardEdges(types))
        Cycle(i) == {j \in DOMAIN types : Together(paths, i, j)}
        cycles == {Cycle(i) : i \in Replaying(types)}
    IN  /\ phase = "normalize"
        /\ types' = [i \in 1..Len(types) |->
                IF i \notin Replaying(types) THEN types[i]
                ELSE AliasOf(types[i],
                        IF KindOfCycle(Cycle(i)) = "NullOnly" THEN "Unit" ELSE "Value")]
        /\ reports' = {[cycle |-> cycle, kind |-> KindOfCycle(cycle)] : cycle \in
                        {c \in cycles : Reported(c)}}
        /\ phase' = "promote"
        /\ UNCHANGED <<input, round, byShape, collapses, queue, reach, differing,
                       twins, supported, derives>>

\* Mutant: an alias that reaches itself through a list is taken to be fine.
BareAliasLoops(ts) ==
    LET bare == EdgesBy([i \in DOMAIN ts |-> {ref \in References(ts[i]) : Bare(ref)}])
        paths == Paths(Len(ts), bare \cap AliasEdges(ts))
    IN  {i \in DOMAIN ts : Recursive(paths, i)}
RecursiveAliases(ts) ==
    LET paths == Paths(Len(ts), AliasEdges(ts))
    IN  {i \in DOMAIN ts : Recursive(paths, i)}

Promote ==
    /\ phase = "promote"
    /\ types' = [i \in 1..Len(types) |->
                    IF i \in RecursiveAliases(types)
                    THEN [types[i] EXCEPT !.kind = "Newtype"] ELSE types[i]]
    /\ phase' = "box"
    /\ UNCHANGED <<input, round, byShape, collapses, queue, reach, differing,
                   twins, reports, supported, derives>>

\* Mutant: only a type that directly holds itself is boxed.
SelfEdges(ts) == {e \in DirectEdges(ts) : e[1] = e[2]}
ClosingEdges(ts) ==
    LET paths == Paths(Len(ts), DirectEdges(ts))
    IN  {e \in DirectEdges(ts) : Together(paths, e[1], e[2])}

\* Edges out of an alias last, then by the two names, then by position.
EdgeKey(ts, e) ==
    <<IF ts[e[1]].kind = "Alias" THEN 1 ELSE 0,
      ts[e[1]].origin, ts[e[2]].origin, e[1], e[2]>>

Before(a, b) == \E k \in 1..5 : a[k] < b[k] /\ \A j \in 1..(k - 1) : a[j] = b[j]

SmallestClosingEdge(ts) ==
    CHOOSE e \in ClosingEdges(ts) : \A f \in ClosingEdges(ts) \ {e} :
        Before(EdgeKey(ts, e), EdgeKey(ts, f))

\* The first direct reference to the target gets a Box right around the name.
BoxFirst(c, target) ==
    LET direct == {k \in DOMAIN c.members :
                    Names(c.members[k].ty, target) /\ Direct(c.members[k].ty)}
    IN  Retyped(c, [k \in 1..Len(c.members) |->
            IF k \in direct /\ \A j \in direct : k <= j
            THEN [c.members[k].ty EXCEPT !.wraps = Append(c.members[k].ty.wraps, "Box")]
            ELSE c.members[k].ty])

BoxRound ==
    LET edge == SmallestClosingEdge(types)
    IN  /\ phase = "box"
        /\ round <= Len(types)
        /\ ClosingEdges(types) # {}
        /\ types' = [types EXCEPT ![edge[1]] = BoxFirst(types[edge[1]], edge[2])]
        /\ round' = round + 1
        /\ UNCHANGED <<input, phase, byShape, collapses, queue, reach, differing,
                       twins, reports, supported, derives>>

BoxEnd ==
    /\ phase = "box"
    /\ ClosingEdges(types) = {} \/ round > Len(types)
    /\ phase' = "reopen"
    /\ round' = 0
    /\ UNCHANGED <<input, types, byShape, collapses, queue, reach, differing,
                   twins, reports, supported, derives>>

\* Mutants: an alias is taken to still spell an Option; the read forms are left out.
ReopenedUnlessAlias(ts, c) ==
    Retyped(c, [k \in 1..Len(c.members) |->
        IF /\ c.kind = "Struct"
           /\ c.members[k].presence = "Nullable"
           /\ ~SpellsOption(c.members[k].ty)
           /\ c.members[k].ty.leaf # "Named"
        THEN Wrapped("Option", c.members[k].ty) ELSE c.members[k].ty])
ReopenedStrict(ts, c) ==
    Retyped(c, [k \in 1..Len(c.members) |->
        IF /\ c.kind = "Struct" /\ ~IsLenient(c)
           /\ c.members[k].presence = "Nullable"
           /\ ~SpellsOption(Unaliased(ts, c.members[k].ty))
        THEN Wrapped("Option", c.members[k].ty) ELSE c.members[k].ty])
Reopened(ts, c) ==
    Retyped(c, [k \in 1..Len(c.members) |->
        IF /\ c.kind = "Struct"
           /\ c.members[k].presence = "Nullable"
           /\ ~SpellsOption(Unaliased(ts, c.members[k].ty))
        THEN Wrapped("Option", c.members[k].ty) ELSE c.members[k].ty])

Reopen ==
    /\ phase = "reopen"
    /\ types' = [i \in 1..Len(types) |-> Reopened(types, types[i])]
    /\ supported' = [i \in 1..Len(types) |-> Derive]
    /\ phase' = "derive"
    /\ UNCHANGED <<input, round, byShape, collapses, queue, reach, differing,
                   twins, reports, derives>>

-----------------------------------------------------------------------------
(* Derives: a greatest fixed point, because support is contagious.         *)

LeafCarries(d, ref, sup) ==
    CASE ref.leaf = "Named" -> d \in sup[ref.to]
      [] ref.leaf = "Value" -> d \in {"PartialEq", "Eq", "Hash", "Default"}
      [] ref.leaf = "F64" -> d \notin {"Eq", "Ord", "Hash"}
      [] ref.leaf = "Text" -> d # "Copy"
      [] ref.leaf = "Address" -> d \notin {"Default", "Copy"}
      [] OTHER -> TRUE

Carries(d, ref, sup) ==
    LET Some(ws) == \E k \in DOMAIN ref.wraps : ref.wraps[k] \in ws
    IN  \/ d = "Default" /\ Some({"Vec", "Map", "Option", "Presence"})
        \/ /\ d = "Copy" => ~Some(Indirecting)
           /\ d \in {"Ord", "PartialOrd", "Hash"} => input.orderedMap \/ ~Some({"Map"})
           /\ LeafCarries(d, ref, sup)

IsUnion(c) == c.kind \in {"Enum", "TaggedEnum", "CarriedTagEnum", "KeyedEnum"}

\* What an open enum's fallback variant holds is judged like a reference.
Fallback(c) ==
    IF c.kind = "StringEnum" THEN {LeafRef("Text")}
    ELSE IF IsUnion(c) THEN {LeafRef("Value")} ELSE {}

\* Mutant: the fallback variant of an open enum is not judged.
SupportsDeclared(d, c, sup) ==
    /\ d = "Default" => ~IsUnion(c) /\ c.kind # "StringEnum"
    /\ \A ref \in References(c) : Carries(d, ref, sup)
Supports(d, c, sup) ==
    /\ d = "Default" => ~IsUnion(c) /\ c.kind # "StringEnum"
    /\ \A ref \in References(c) \cup Fallback(c) : Carries(d, ref, sup)

Judged(sup, k) == [sup EXCEPT ![k] = {d \in Derive : Supports(d, types[k], sup)}]

\* One sweep over the table, each type judged by what the sweep left so far.
Swept ==
    LET sweep[k \in 0..Len(types)] ==
            IF k = 0 THEN supported ELSE Judged(sweep[k - 1], k)
    IN  sweep[Len(types)]

DeriveRound ==
    /\ phase = "derive"
    /\ round <= Len(types)
    /\ Swept # supported
    /\ supported' = Swept
    /\ round' = round + 1
    /\ UNCHANGED <<input, phase, types, byShape, collapses, queue, reach, differing,
                   twins, reports, derives>>

\* A struct a response decodes into gets a Default whenever it can have one.
AutoDerives(i) ==
    IF IsRead(types[i]) /\ types[i].kind = "Struct" THEN {"Default"} \cap supported[i]
    ELSE {}

\* A type the configuration names asks for its own derives, the others for the crate's.
IsNamed(i) == types[i].origin \in input.named
Requested(i) == IF IsNamed(i) THEN input.asked ELSE input.wanted

Refused(i) == IsNamed(i) /\ ~(Requested(i) \subseteq supported[i])

Freeze ==
    /\ phase = "derive"
    /\ Swept = supported \/ round > Len(types)
    /\ IF \E i \in DOMAIN types : Refused(i)
       THEN phase' = "rejected" /\ derives' = derives
       ELSE /\ phase' = "done"
            /\ derives' = [i \in 1..Len(types) |->
                            AutoDerives(i) \cup (Requested(i) \cap supported[i])]
    /\ UNCHANGED <<input, round, types, byShape, collapses, queue, reach, differing,
                   twins, reports, supported>>

-----------------------------------------------------------------------------

Finished ==
    /\ phase \in {"done", "rejected"}
    /\ UNCHANGED vars

\* The passes over the provisional table, then those that finalize it.
Tabling ==
    \/ DedupRound \/ DedupEnd
    \/ \E d \in Direction : ReachStep(d)
    \/ ReachEnd
    \/ UnitRun
    \/ DiffersRound \/ TwinRun

Finalizing ==
    \/ Normalize \/ Promote
    \/ BoxRound \/ BoxEnd
    \/ Reopen
    \/ DeriveRound \/ Freeze

Next == Tabling \/ Finalizing \/ Finished

\* One thread runs the passes one after the other and waits for nothing. The
\* fairness is only stated for the passes whose loops no counter bounds.
Spec == Init /\ [][Next]_vars /\ WF_vars(Tabling)

-----------------------------------------------------------------------------
(* What has to hold, whatever the document.                                *)

Phase == {"dedup", "reach", "unit", "twin", "normalize", "promote", "box",
          "reopen", "derive", "done", "rejected"}

\* The type invariant of the build.
TypeOK ==
    /\ phase \in Phase
    /\ round \in Nat
    /\ types \in Seq(Contract)
    /\ \A i \in DOMAIN types : Shaped(types[i])
    /\ byShape \in [Shapes -> TypeRef]
    /\ collapses \subseteq [owner : Nat, at : Nat]
    /\ queue \in [Direction -> SUBSET Nat]
    /\ reach \in [Direction -> SUBSET Nat]
    /\ differing \subseteq Nat
    /\ reports \subseteq [cycle : SUBSET Nat, kind : CycleKind]
    /\ supported \in Seq(SUBSET Derive)
    /\ derives \in Seq(SUBSET Derive)

\* Referential integrity: whatever was merged, dropped, renumbered or appended,
\* every position anything holds is one of the table (dedup::apply,
\* unit::remove and twin::run all rewrite the holders).
RefsInTable ==
    LET n == Len(types)
    IN  /\ \A i \in 1..n : \A k \in DOMAIN types[i].members :
              InTable(types[i].members[k].ty, n)
        /\ \A i \in 1..n : types[i].form.half \in 0..n
        /\ \A s \in Shapes : InTable(byShape[s], n)
        /\ \A c \in collapses : c.owner \in 1..n
        /\ \A d \in Direction : queue[d] \subseteq 1..n /\ reach[d] \subseteq 1..n
        /\ differing \subseteq 1..n
        /\ DOMAIN twins \subseteq 1..n
        /\ \A i \in DOMAIN twins : twins[i] \in 1..n

\* Two references that spell the same wrappers around types that agree. A
\* payload the unit pass dropped agrees with the empty struct it was.
AgreeRef(doc, old, new, agree) ==
    \/ /\ old.wraps = new.wraps /\ old.leaf = new.leaf
       /\ old.leaf = "Named" => <<old.to, new.to>> \in agree
    \/ /\ Bare(old) /\ new = LeafRef("Unit")
       /\ doc.types[old.to].kind = "Struct" /\ doc.types[old.to].members = << >>

AgreeContract(doc, old, new, agree) ==
    /\ old.kind = new.kind /\ old.unknown = new.unknown
    /\ Len(old.members) = Len(new.members)
    /\ \A k \in DOMAIN old.members :
          /\ old.members[k].presence = new.members[k].presence
          /\ old.members[k].capture = new.members[k].capture
          /\ AgreeRef(doc, old.members[k].ty, new.members[k].ty, agree)

\* The lowered positions and the positions now that unfold to the same contracts.
Agreeing ==
    LET all == (DOMAIN input.types) \X (DOMAIN types)
        depth == Len(input.types) + Len(types)
        agree[k \in 0..depth] ==
            IF k = 0 THEN all
            ELSE LET prev == agree[k - 1]
                 IN  {p \in prev :
                        AgreeContract(input, input.types[p[1]], types[p[2]], prev)}
    IN  agree[depth]

\* Merging keeps the wire contract: every shape still denotes the contract it
\* was lowered to, unfolded to any depth, and so does the owner of every
\* finding (dedup.rs: identity is the wire contract).
MergesKeepContracts ==
    phase \in {"unit", "twin"} =>
        LET agree == Agreeing
        IN  /\ \A s \in Shapes : AgreeRef(input, input.byShape[s], byShape[s], agree)
            /\ \A c \in collapses : \E o \in input.collapses :
                  o.at = c.at /\ <<o.owner, c.owner>> \in agree

\* The merge reaches its fixed point within the bound on its rounds: past it,
\* no inline type repeats the contract of another type.
NothingLeftToMerge == phase = "reach" => Plan(types) = {}

\* A type the document or the caller named is never merged away: it is in the
\* table exactly once (a titled empty payload may still become a unit).
NamedTypesSurvive ==
    phase \in {"reach", "unit"} =>
        \A i \in DOMAIN input.types : Pinned(input.types[i]) =>
            Cardinality({j \in DOMAIN types :
                types[j].origin = input.types[i].origin}) = 1

Formed == input.lenient /\ phase \notin {"dedup", "reach", "unit", "twin"}

\* Everything a response position can decode is a read form: the types it names,
\* through their read twins, and everything those hold.
ResponsesAreRead ==
    Formed =>
        /\ \A s \in input.responses : LET ref == Remap(byShape[s], twins)
              IN  ref.leaf = "Named" => IsRead(types[ref.to])
        /\ \A i \in DOMAIN types : IsRead(types[i]) =>
              \A j \in Holds(types[i]) : IsRead(types[j])

\* Nothing a caller builds for a request is of the lenient shape: what request
\* positions name, and everything that holds, is reached and is not lenient. (A
\* type nothing reaches stays strict, and may hold a type only responses reach.)
RequestsAreStrict ==
    Formed =>
        /\ Seeds(input.requests) \subseteq reach["request"]
        /\ \A i \in reach["request"] :
              ~IsLenient(types[i]) /\ Holds(types[i]) \subseteq reach["request"]

Retyping == {"dedup", "reach", "unit", "twin", "normalize"}

\* No decoder goes round a cycle without consuming input, once the cycles are
\* retyped and after every later pass (cycle::normalize).
NothingReplays ==
    phase \notin Retyping => ~Cyclic(Len(types), ForwardEdges(types))

\* Every type on such a cycle is named by exactly one report, at its strict half
\* when it has one: the twins' cycle is the same finding.
CyclesReportedOnce ==
    [][phase = "normalize" =>
        \A i \in DOMAIN types :
            Recursive(Paths(Len(types), ForwardEdges(types)), i) =>
                Cardinality({r \in reports' : \E j \in r.cycle :
                    types[j].origin = types[i].origin}) = 1]_vars

\* No alias is recursive, which Rust would refuse (promote_recursive_aliases).
AliasesEnd ==
    phase \notin Retyping \cup {"promote"} => ~Cyclic(Len(types), AliasEdges(types))

\* The two loops a table of acceptable shapes may still hold are gone once
\* their pass has run, and no later pass brings one back (cycle::normalize,
\* promote_recursive_aliases).
LoopsAreGone == NothingReplays /\ AliasesEnd

Sized == {"reopen", "derive", "done", "rejected"}

\* No type has infinite size once the boxes are placed (break_cycles).
FiniteSize == phase \in Sized => ~Cyclic(Len(types), DirectEdges(types))

\* A type and its read twin convert member by member, whatever later passes do
\* to both: same kind, same members, each naming the read form of what the
\* strict one names, with one Option more where the member is required, and
\* at most the capture member besides (finalize.rs: "on both halves alike"). Where
\* the rounds of boxing run out a half may be without its box, and has no size.
PairsConvert ==
    Formed /\ phase # "box" /\ FiniteSize => \A i \in DOMAIN twins :
        LET strict == types[i]
            twin == types[twins[i]]
            n == Len(strict.members)
            Half(m) == LET ref == Remap(m.ty, twins)
                       IN  IF strict.kind = "Struct" THEN Opened([m EXCEPT !.ty = ref]).ty
                           ELSE ref
        IN  /\ strict.form.half = twins[i] /\ twin.form.half = i
            /\ twin.kind = strict.kind
            /\ Len(twin.members) \in n..(n + 1)
            /\ Len(twin.members) = n + 1 => twin.members[n + 1] = CaptureMember
            /\ \A k \in 1..n : twin.members[k].ty = Half(strict.members[k])

SizedMembers ==
    {p \in UNION {{i} \X (DOMAIN types[i].members) : i \in DOMAIN types} :
        LET ref == types[p[1]].members[p[2]].ty
        IN  ref.leaf = "Named" /\ \A k \in DOMAIN ref.wraps :
                ref.wraps[k] \notin {"Vec", "Map"}}

\* The same where the rounds suffice: one round boxes one edge, and the bound
\* on the rounds is the number of types and one.
FiniteSizeWithinRounds ==
    Cardinality(SizedMembers) <= Len(types) + 1 => FiniteSize

\* A nullable member is still read into an Option after the passes that may
\* have taken the one its type spelled (reopen_nullable_members).
NullableReadsNull ==
    phase \in {"derive", "done", "rejected"} =>
        \A i \in DOMAIN types : types[i].kind = "Struct" =>
            \A k \in DOMAIN types[i].members :
                types[i].members[k].presence = "Nullable" =>
                    SpellsOption(Unaliased(types, types[i].members[k].ty))

\* Everything a type holds carries a derive that the type carries.
Compiles(i, d) ==
    \A ref \in References(types[i]) \cup Fallback(types[i]) : Carries(d, ref, derives)

\* Every derive a frozen type carries is one that everything it holds carries
\* too, so that the derive compiles.
DerivesCompile ==
    phase = "done" => \A i \in DOMAIN types : \A d \in derives[i] : Compiles(i, d)

\* The same of the crate's derives, where every type asks for them. (The Default
\* a read struct is given unasked goes through Options and aliases, and an alias
\* has no derives to look at.)
CrateDerivesCompile ==
    phase = "done" /\ input.named = {} =>
        \A i \in DOMAIN types : \A d \in derives[i] \cap input.wanted : Compiles(i, d)

\* The Default a read struct is given ends: building it never needs itself.
DefaultIsFinite ==
    LET Needs(c) == {ref \in References(c) : \A k \in DOMAIN ref.wraps :
                        ref.wraps[k] \in {"Array", "Box"}}
        paths == Paths(Len(types), EdgesBy([i \in DOMAIN types |-> Needs(types[i])]))
    IN  phase = "done" => \A i \in DOMAIN types :
            IsRead(types[i]) /\ types[i].kind = "Struct" /\ "Default" \in derives[i] =>
                \A j \in DOMAIN types :
                    j = i \/ <<i, j>> \in paths => ~Recursive(paths, j)

\* The worklist and the fixed point that no counter bounds come to an end,
\* however the types refer to one another.
TablingEnds == <>(phase \notin {"dedup", "reach", "unit", "twin"})

==========================================================================
