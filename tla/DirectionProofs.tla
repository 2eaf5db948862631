-------------------------- MODULE DirectionProofs --------------------------
(* What travels in which direction, for tables of any size: everything a    *)
(* response can decode is a read form, nothing a request is built from is   *)
(* of the lenient shape, a cycle that both forms are on is reported once,   *)
(* and a type converts member by member into its read twin.                 *)
EXTENDS FinalizeProofs

\* The shapes the document puts in a direction.
Placed(d) == IF d = "request" THEN input.requests ELSE input.responses

\* A direction whose worklist has not lost anything.
Traced(d) ==
    /\ Seeds(Placed(d)) \subseteq reach[d] \cup queue[d]
    /\ \A i \in reach[d] : Holds(types[i]) \subseteq reach[d] \cup queue[d]

\* From the first step of the worklists until the forms are given.
Tracing ==
    /\ phase = "reach" => input.lenient
    /\ input.lenient /\ phase \in {"reach", "unit", "twin"} =>
          \A d \in Direction : Traced(d)

\* The invariant of both directions.
Directed == Tracing /\ RequestsAreStrict /\ ResponsesAreRead

-----------------------------------------------------------------------------
(* What the passes do to the positions a contract holds.                    *)

(* Renumbering moves what is held, and holds nothing else.                  *)
LEMMA RemapHolds ==
    ASSUME NEW c, NEW n, Fits(c, n), NEW moved, \A i \in DOMAIN moved : moved[i] \in Nat,
           NEW x \in Holds(RemapContract(c, moved))
    PROVE  \E j \in Holds(c) : x = IF j \in DOMAIN moved THEN moved[j] ELSE j
<1> DEFINE tys == [k \in 1..Len(c.members) |-> Remap(c.members[k].ty, moved)]
           d == Retyped(c, tys)
<1>1. c \in Contract /\ DOMAIN c.members = 1..Len(c.members)
      /\ \A k \in 1..Len(c.members) : c.members[k].ty \in TypeRef
    BY FitsTypes DEF Fits
<1>2. \A k \in 1..Len(c.members) :
          /\ tys[k] \in TypeRef
          /\ tys[k].leaf = c.members[k].ty.leaf
          /\ c.members[k].ty.leaf = "Named" /\ c.members[k].ty.to \in DOMAIN moved =>
                tys[k].to = moved[c.members[k].ty.to]
          /\ ~(c.members[k].ty.leaf = "Named" /\ c.members[k].ty.to \in DOMAIN moved) =>
                tys[k] = c.members[k].ty
    BY <1>1, RemapType
<1>3. RemapContract(c, moved) = d
    BY DEF RemapContract
<1> HIDE DEF tys
<1>4. /\ d \in Contract /\ Len(d.members) = Len(c.members)
      /\ \A k \in 1..Len(c.members) : d.members[k].ty = tys[k]
    BY <1>1, <1>2, RetypedType
<1> HIDE DEF d
<1>5. DOMAIN d.members = 1..Len(d.members)
    BY <1>4 DEF Contract
<1>6. PICK k \in 1..Len(c.members) : tys[k].leaf = "Named" /\ tys[k].to = x
    BY <1>3, <1>4, <1>5, HeldBy
<1>7. c.members[k].ty.leaf = "Named" /\ c.members[k].ty.to \in Holds(c)
    BY <1>1, <1>2, <1>6, HeldBy
<1>8. x = IF c.members[k].ty.to \in DOMAIN moved
          THEN moved[c.members[k].ty.to] ELSE c.members[k].ty.to
    BY <1>2, <1>6, <1>7
<1> QED
    BY <1>7, <1>8

(* The read form of a struct names nothing that the struct does not.        *)
LEMMA LoosenHolds ==
    ASSUME NEW c, NEW n, Fits(c, n)
    PROVE  /\ Holds(Loosen(c)) \subseteq Holds(c)
           /\ Loosen(c).form = c.form
<1> DEFINE len == Len(c.members)
           opened == [k \in 1..len |-> Opened(c.members[k])]
<1>1. c \in Contract /\ c.members \in Seq(Member) /\ DOMAIN c.members = 1..len /\ len \in Nat
      /\ \A k \in 1..len : c.members[k] \in Member
    BY FitsTypes DEF Fits
<1>2. ASSUME NEW k \in 1..len
      PROVE  /\ opened[k] \in Member
             /\ opened[k].ty.leaf = c.members[k].ty.leaf
             /\ opened[k].ty.to = c.members[k].ty.to
    <2>1. c.members[k] \in Member /\ c.members[k].ty \in TypeRef
        BY <1>1, FitsTypes
    <2>2. /\ Wrapped("Option", c.members[k].ty) \in TypeRef
          /\ Wrapped("Option", c.members[k].ty).leaf = c.members[k].ty.leaf
          /\ Wrapped("Option", c.members[k].ty).to = c.members[k].ty.to
        BY <2>1, WrappedType DEF Wrap, Through
    <2>3. opened[k] = Opened(c.members[k])
        OBVIOUS
    <2> QED
        BY <2>1, <2>2, <2>3 DEF Opened, Member
<1>3. CaptureMember \in Member /\ CaptureMember.ty.leaf # "Named"
    <2>1. LeafRef("Value") \in TypeRef /\ LeafRef("Value").leaf = "Value"
        BY DEF LeafRef, TypeRef, Leaf
    <2>2. Wrapped("Map", LeafRef("Value")) \in TypeRef
          /\ Wrapped("Map", LeafRef("Value")).leaf = "Value"
        BY <2>1, WrappedType DEF Wrap, Indirecting
    <2> QED
        BY <2>2 DEF CaptureMember, Member, Presence, Capture
<1>4. opened \in [1..len -> Member]
    BY <1>2
<1>5. opened \in Seq(Member) /\ Len(opened) = len /\ DOMAIN opened = 1..len
    BY <1>1, <1>4
<1> HIDE DEF opened
<1>6. ASSUME NEW ms, ms = opened \/ ms = Append(opened, CaptureMember)
      PROVE  /\ Holds([c EXCEPT !.members = ms]) \subseteq Holds(c)
             /\ [c EXCEPT !.members = ms].form = c.form
    <2> DEFINE d == [c EXCEPT !.members = ms]
    <2>1. d.members = ms /\ d.form = c.form
        BY <1>1 DEF Contract
    <2>2. DOMAIN ms = 1..Len(ms) /\ Len(ms) \in {len, len + 1}
          /\ \A k \in 1..Len(ms) : IF k \in 1..len THEN ms[k] = opened[k]
                                   ELSE ms[k] = CaptureMember
        BY <1>1, <1>3, <1>5, <1>6
    <2> HIDE DEF d
    <2>3. ASSUME NEW x \in Holds(d) PROVE x \in Holds(c)
        <3>0. DOMAIN d.members = 1..Len(d.members)
            BY <2>1, <2>2
        <3>1. PICK k \in 1..Len(ms) : ms[k].ty.leaf = "Named" /\ ms[k].ty.to = x
            BY <2>1, <3>0, HeldBy
        <3>2. k \in 1..len /\ ms[k] = opened[k]
            BY <1>3, <2>2, <3>1
        <3> QED
            BY <1>1, <1>2, <3>1, <3>2, HeldBy
    <2>4. Holds(d) \subseteq Holds(c) /\ d.form = c.form
        BY <2>1, <2>3
    <2> QED
        BY <2>4 DEF d
<1>7. CASE c.kind # "Struct"
    BY <1>7 DEF Loosen
<1>8. CASE c.kind = "Struct"
    <2>1. \/ Loosen(c) = [c EXCEPT !.members = opened]
          \/ Loosen(c) = [c EXCEPT !.members = Append(opened, CaptureMember)]
        BY <1>8 DEF Loosen, opened
    <2>2. CASE Loosen(c) = [c EXCEPT !.members = opened]
        BY <1>6, <2>2
    <2> DEFINE more == Append(opened, CaptureMember)
    <2>3. /\ Holds([c EXCEPT !.members = more]) \subseteq Holds(c)
          /\ [c EXCEPT !.members = more].form = c.form
        BY <1>6
    <2> QED
        BY <2>1, <2>2, <2>3
<1> QED
    BY <1>7, <1>8

(* A contract rewrapped holds what it held.                                 *)
LEMMA RewrappedHolds ==
    ASSUME NEW c, NEW d, Rewrapped(c, d)
    PROVE  Holds(d) \subseteq Holds(c)
<1>1. ASSUME NEW x \in Holds(d) PROVE x \in Holds(c)
    <2>1. PICK k \in 1..Len(d.members) : d.members[k].ty.leaf = "Named"
                                        /\ d.members[k].ty.to = x
        BY HeldBy DEF Rewrapped
    <2>2. c.members[k].ty.leaf = "Named" /\ c.members[k].ty.to = x
          /\ k \in 1..Len(c.members) /\ DOMAIN c.members = 1..Len(c.members)
        BY <2>1 DEF Rewrapped, SameName
    <2> QED
        BY <2>2, HeldBy
<1> QED
    BY <1>1

-----------------------------------------------------------------------------
(* The worklists.                                                           *)

(* Both worklists start from what the document puts in the direction.       *)
LEMMA DedupEndTraces ==
    ASSUME Sound, DedupEnd PROVE Tracing'
<1>1. /\ \A d \in Direction : reach'[d] = {}
      /\ phase' = (IF input.lenient THEN "reach" ELSE "unit")
      /\ input' = input /\ byShape' = byShape
      /\ input.lenient => queue' = [d \in Direction |->
            Seeds(IF d = "request" THEN input.requests ELSE input.responses)]
    BY DEF DedupEnd, Sound, Staged
<1>2. ASSUME input'.lenient, NEW d \in Direction PROVE Traced(d)'
    <2>1. queue'[d] = Seeds(Placed(d))
        BY <1>1, <1>2 DEF Placed
    <2>2. Seeds(Placed(d))' = Seeds(Placed(d))
        BY <1>1 DEF Seeds, Placed
    <2> QED
        BY <1>1, <2>1, <2>2 DEF Traced
<1> QED
    BY <1>1, <1>2 DEF Tracing

(* A position leaves a worklist only when it is reached, and brings what it *)
(* holds the first time.                                                    *)
LEMMA ReachStepTraces ==
    ASSUME Sound, Tracing, NEW d \in Direction, ReachStep(d) PROVE Tracing'
<1> DEFINE at == CHOOSE i \in queue[d] : TRUE
<1>1. /\ queue \in [Direction -> SUBSET (1..Len(types))]
      /\ reach \in [Direction -> SUBSET (1..Len(types))]
    BY DEF Sound, Holders
<1>2. at \in queue[d]
    BY DEF ReachStep
<1>3. /\ reach' = [reach EXCEPT ![d] = reach[d] \cup {at}]
      /\ queue' = [queue EXCEPT ![d] = (queue[d] \ {at})
                     \cup (IF Unseen(d, at) THEN Holds(types[at]) ELSE {})]
      /\ phase = "reach" /\ phase' = phase
      /\ input' = input /\ byShape' = byShape /\ types' = types
    BY DEF ReachStep
<1> HIDE DEF at
<1>4. input.lenient /\ \A e \in Direction : Traced(e)
    BY <1>3 DEF Tracing
<1>5. ASSUME NEW e \in Direction PROVE Traced(e)'
    <2>1. Seeds(Placed(e))' = Seeds(Placed(e))
        BY <1>3 DEF Seeds, Placed
    <2>2. CASE e # d
        <3>1. reach'[e] = reach[e] /\ queue'[e] = queue[e]
            BY <1>1, <1>3, <2>2
        <3> QED
            BY <1>3, <1>4, <2>1, <3>1 DEF Traced
    <2>3. CASE e = d
        <3>1. /\ reach'[d] = reach[d] \cup {at}
              /\ queue'[d] = (queue[d] \ {at})
                     \cup (IF at \notin reach[d] THEN Holds(types[at]) ELSE {})
            BY <1>1, <1>3 DEF Unseen
        <3>2. reach[d] \cup queue[d] \subseteq reach'[d] \cup queue'[d]
            BY <3>1
        <3>3. Traced(d)
            BY <1>4
        <3>4. Seeds(Placed(d)) \subseteq reach'[d] \cup queue'[d]
            BY <3>2, <3>3 DEF Traced
        <3>5. ASSUME NEW i \in reach'[d]
              PROVE  Holds(types[i]) \subseteq reach'[d] \cup queue'[d]
            <4>1. CASE i \in reach[d]
                BY <3>2, <3>3, <4>1 DEF Traced
            <4>2. CASE i \notin reach[d]
                BY <3>1, <3>5, <4>2
            <4> QED
                BY <4>1, <4>2
        <3> QED
            BY <1>3, <2>1, <2>3, <3>4, <3>5 DEF Traced
    <2> QED
        BY <2>2, <2>3
<1> QED
    BY <1>3, <1>4, <1>5 DEF Tracing

(* The worklists are left empty.                                            *)
LEMMA ReachEndTraces ==
    ASSUME Tracing, ReachEnd PROVE Tracing'
BY DEF Tracing, ReachEnd, Traced, Seeds, Placed

(* Dropping the units renumbers what is reached, and what it holds with it. *)
LEMMA UnitRunTraces ==
    ASSUME Sound, Tracing, UnitRun PROVE Tracing'
<1> DEFINE n == Len(types)
           kept == (DOMAIN types) \ Units
           moved == [i \in kept |-> Rank(kept, i)]
           v(i) == UnitVariants(types[i], Units)
           whole == [i \in 1..n |-> RemapContract(v(i), moved)]
<1>1. /\ n \in Nat /\ DOMAIN types = 1..n /\ Table(types)
      /\ \A i \in 1..n : types[i].form.half = 0
    BY DEF Sound, Table, Staged, UnitRun
<1>2. PartOf(kept, n)
    BY <1>1 DEF PartOf
<1>3. DOMAIN moved = kept /\ \A i \in kept : moved[i] = Rank(kept, i)
    OBVIOUS
<1>4. \A i \in kept : moved[i] \in Nat
    <2>1. n \in Nat /\ kept \in SUBSET (1..n) /\ \A i \in kept : i \in Nat
        BY <1>1
    <2> QED
        BY <1>3, <2>1, RankNatural
<1>5. /\ types' = Keep(whole, kept)
      /\ byShape' = [s \in Shapes |-> Remap(UnitRef(byShape[s], Units), moved)]
      /\ reach' = [d \in Direction |-> {moved[i] : i \in reach[d] \cap kept}]
      /\ phase = "unit" /\ phase' \in {"twin", "normalize"}
      /\ queue' = queue /\ input' = input
    BY DEF UnitRun
<1>6. \A d \in Direction : queue[d] = {} /\ queue'[d] = {}
    BY <1>5 DEF Sound, Staged
<1>7. \A i \in 1..n : whole[i] = RemapContract(v(i), moved)
    OBVIOUS
<1> HIDE DEF moved, whole
<1>11. \A i \in kept : types'[moved[i]] = whole[i]
    <2> HIDE DEF kept
    <2> QED
        BY <1>2, <1>3, <1>5, KeepOf
<1>8. ASSUME NEW i \in kept, NEW x \in Holds(types'[moved[i]])
      PROVE  \E j \in Holds(types[i]) \cap kept : x = moved[j]
    <2>1. types'[moved[i]] = RemapContract(v(i), moved)
        <3>1. types'[moved[i]] = whole[i]
            BY <1>11
        <3> QED
            BY <1>1, <1>7, <3>1
    <2>2. Fits(v(i), n) /\ \A k \in 1..Len(v(i).members) :
              v(i).members[k].ty.leaf = "Named" => v(i).members[k].ty.to \notin Units
        BY <1>1, UnitVariantsFit
    <2>3. \E j \in Holds(v(i)) : x = IF j \in DOMAIN moved THEN moved[j] ELSE j
        BY <1>3, <1>4, <1>8, <2>1, <2>2, RemapHolds
    <2>4. PICK j \in Holds(v(i)) : x = IF j \in DOMAIN moved THEN moved[j] ELSE j
        BY <2>3
    <2>5. DOMAIN v(i).members = 1..Len(v(i).members)
        BY <2>2, FitsTypes
    <2>6. PICK k \in 1..Len(v(i).members) : v(i).members[k].ty.leaf = "Named"
                                           /\ v(i).members[k].ty.to = j
        BY <2>4, <2>5, HeldBy
    <2>7. Holds(v(i)) \subseteq 1..n
        BY <2>2, FitsHolds
    <2>8. j \in kept
        BY <1>1, <2>2, <2>4, <2>6, <2>7
    <2>9. j \in Holds(types[i])
        <3> DEFINE t == types[i]
                   tys == [m \in 1..Len(t.members) |-> UnitRef(t.members[m].ty, Units)]
        <3>1. Fits(t, n) /\ t \in Contract
            BY <1>1 DEF Table, Fits
        <3>2. DOMAIN t.members = 1..Len(t.members)
              /\ \A m \in 1..Len(t.members) : t.members[m].ty \in TypeRef
            BY <3>1, FitsTypes
        <3>3. CASE t.kind # "TaggedEnum"
            <4>1. v(i) = t
                BY <3>3 DEF UnitVariants
            <4> QED
                BY <2>4, <4>1
        <3>4. CASE t.kind = "TaggedEnum"
            <4>1. v(i) = Retyped(t, tys)
                BY <3>4 DEF UnitVariants
            <4>2. LeafRef("Unit") \in TypeRef /\ LeafRef("Unit").leaf # "Named"
                BY DEF LeafRef, TypeRef, Leaf
            <4>3. \A m \in 1..Len(t.members) :
                      tys[m] = t.members[m].ty \/ tys[m] = LeafRef("Unit")
                BY DEF UnitRef
            <4>4. \A m \in 1..Len(t.members) : tys[m] \in TypeRef
                BY <3>2, <4>2, <4>3
            <4> HIDE DEF t, tys, v
            <4>5. Len(v(i).members) = Len(t.members)
                  /\ \A m \in 1..Len(t.members) : v(i).members[m].ty = tys[m]
                BY <3>1, <4>1, <4>4, RetypedType
            <4>6. t.members[k].ty.leaf = "Named" /\ t.members[k].ty.to = j
                  /\ k \in 1..Len(t.members)
                BY <2>6, <4>2, <4>3, <4>5
            <4> QED
                BY <3>2, <4>6, HeldBy DEF t
        <3> QED
            BY <3>3, <3>4
    <2> QED
        BY <1>3, <2>4, <2>8, <2>9
<1> HIDE DEF v
<1>9. ASSUME NEW s \in Shapes, byShape'[s].leaf = "Named"
      PROVE  /\ byShape[s].leaf = "Named" /\ byShape[s].to \in kept
             /\ byShape'[s].to = moved[byShape[s].to]
    <2> DEFINE ref == UnitRef(byShape[s], Units)
    <2>1. byShape[s] \in TypeRef /\ InTable(byShape[s], n)
        BY DEF Sound, Holders
    <2>2. LeafRef("Unit") \in TypeRef /\ LeafRef("Unit").leaf # "Named"
        BY DEF LeafRef, TypeRef, Leaf
    <2>3. byShape[s].leaf = "Named" /\ ~Bare(byShape[s]) => byShape[s].to \notin Units
        BY DEF Units, ShapedAsType
    <2>4. ref \in TypeRef /\ (ref.leaf = "Named" => ref = byShape[s] /\ ref.to \in kept)
        BY <1>1, <2>1, <2>2, <2>3 DEF UnitRef, InTable
    <2>5. byShape'[s] = Remap(ref, moved)
        BY <1>5
    <2> HIDE DEF ref
    <2>6. /\ byShape'[s].leaf = ref.leaf
          /\ ref.leaf = "Named" /\ ref.to \in DOMAIN moved =>
                byShape'[s].to = moved[ref.to]
        BY <1>3, <1>4, <2>4, <2>5, RemapType
    <2> QED
        BY <1>3, <1>9, <2>4, <2>6
<1> HIDE DEF kept
<1>10. ASSUME input.lenient, NEW d \in Direction PROVE Traced(d)'
    <2>1. Traced(d)
        BY <1>5, <1>10 DEF Tracing
    <2>2. reach'[d] = {moved[i] : i \in reach[d] \cap kept}
        BY <1>5
    <2>3. Seeds(Placed(d)) \subseteq reach[d]
          /\ \A i \in reach[d] : Holds(types[i]) \subseteq reach[d]
        BY <1>6, <2>1 DEF Traced
    <2>4. Placed(d)' = Placed(d) /\ Placed(d) \subseteq Shapes
        BY <1>5, InputsAssumption DEF Placed, Sound, WellFormed
    <2>5. ASSUME NEW s \in Placed(d), byShape'[s].leaf = "Named"
          PROVE  byShape'[s].to \in reach'[d]
        <3>1. /\ byShape[s].leaf = "Named" /\ byShape[s].to \in kept
              /\ byShape'[s].to = moved[byShape[s].to]
            BY <1>9, <2>4, <2>5
        <3>2. byShape[s].to \in Seeds(Placed(d))
            BY <2>5, <3>1 DEF Seeds
        <3> QED
            BY <2>2, <2>3, <3>1, <3>2
    <2>6. Seeds(Placed(d))' \subseteq reach'[d]
        BY <2>4, <2>5 DEF Seeds
    <2>7. ASSUME NEW a \in reach'[d], NEW x \in Holds(types'[a]) PROVE x \in reach'[d]
        <3>1. PICK i \in reach[d] \cap kept : a = moved[i]
            BY <2>2, <2>7
        <3>2. PICK j \in Holds(types[i]) \cap kept : x = moved[j]
            BY <1>8, <2>7, <3>1
        <3> QED
            BY <2>2, <2>3, <3>1, <3>2
    <2> QED
        BY <1>6, <2>6, <2>7 DEF Traced
<1> QED
    BY <1>5, <1>10 DEF Tracing

(* The fixed point over differing forms moves nothing that is reached.      *)
LEMMA DiffersRoundTraces ==
    ASSUME Tracing, DiffersRound PROVE Tracing'
BY DEF Tracing, DiffersRound, Traced, Seeds, Placed

-----------------------------------------------------------------------------
(* The forms.                                                               *)

(* Every type gets its form, and what responses alone reach, with the       *)
(* twins, names what it holds in its read form.                             *)
LEMMA TwinRunForms ==
    ASSUME Sound, TwinRun
    PROVE  LET n == Len(types)
               c == Cardinality(Twinned)
           IN  /\ n \in Nat /\ c \in Nat /\ DOMAIN types = 1..n /\ DOMAIN types' = 1..(n + c)
               /\ DOMAIN twins' = Twinned /\ Twinned \subseteq 1..n
               /\ \A i \in Twinned : twins'[i] \in (n + 1)..(n + c)
               /\ \A i \in 1..n : types'[i].form = FormOf(i, twins')
               /\ \A i \in (n + 1)..(n + c) : types'[i].form.mode = "Lenient"
               /\ \A i \in 1..n : ~IsLenient(types'[i]) => Holds(types'[i]) = Holds(types[i])
               /\ \A k \in 1..(n + c) : IsLenient(types'[k]) =>
                     \E h \in 1..n :
                        /\ k = h \/ h \in Twinned
                        /\ \A x \in Holds(types'[k]) : \E j \in Holds(types[h]) :
                              x = IF j \in Twinned THEN twins'[j] ELSE j
<1> DEFINE n == Len(types)
           c == Cardinality(Twinned)
           twinOf == [i \in Twinned |-> n + Rank(Twinned, i)]
           Half(k) == CHOOSE i \in Twinned : Rank(Twinned, i) = k
           Entry(k) ==
              IF k <= n THEN [types[k] EXCEPT !.form = FormOf(k, twinOf)]
              ELSE [types[Half(k - n)] EXCEPT
                      !.form = [mode |-> "Lenient", half |-> Half(k - n)]]
<1>1. /\ n \in Nat /\ DOMAIN types = 1..n /\ differing \subseteq 1..n
      /\ \A i \in 1..n : Fits(types[i], n) /\ types[i] \in Contract
    BY DEF Sound, Table, Holders, Fits
<1>2. Twinned \in SUBSET (1..n)
    BY <1>1 DEF Twinned
<1>3. c \in Nat
    BY <1>1, <1>2, FiniteKept
<1>4. DOMAIN twinOf = Twinned /\ \A i \in Twinned : twinOf[i] \in (n + 1)..(n + c)
    <2> SUFFICES ASSUME NEW i \in Twinned PROVE twinOf[i] \in (n + 1)..(n + c)
        OBVIOUS
    <2>1. Rank(Twinned, i) \in 1..c
        BY <1>1, <1>2, RankInRange
    <2> QED
        BY <1>1, <1>3, <2>1
<1>5. /\ types' = [k \in 1..(n + c) |-> ReadForm(Entry(k), twinOf)]
      /\ twins' = twinOf
    BY DEF TwinRun
<1> HIDE DEF twinOf
<1>6. \A i \in DOMAIN twinOf : twinOf[i] \in Nat
    BY <1>1, <1>3, <1>4
<1>8. ASSUME NEW k \in 1..(n + c)
      PROVE  \E h \in 1..n :
                /\ IF k <= n THEN k = h ELSE h \in Twinned
                /\ Entry(k).members = types[h].members
                /\ Holds(Entry(k)) = Holds(types[h])
                /\ Entry(k).form = IF k <= n THEN FormOf(k, twinOf)
                                   ELSE [mode |-> "Lenient", half |-> h]
                /\ \E form : Entry(k) = [types[h] EXCEPT !.form = form]
    <2>1. CASE k <= n
        <3>1. k \in 1..n
            BY <1>1, <1>3, <2>1
        <3>2. Entry(k) = [types[k] EXCEPT !.form = FormOf(k, twinOf)]
            BY <2>1
        <3> DEFINE e == Entry(k)
                   t == types[k]
                   form == FormOf(k, twinOf)
        <3>3. e = [t EXCEPT !.form = form] /\ t \in Contract
            BY <1>1, <3>1, <3>2
        <3> HIDE DEF e, t, form
        <3>4. e.members = t.members /\ e.form = form
            BY <3>3 DEF Contract
        <3>6. Holds(e) = Holds(t)
            BY <3>4 DEF Holds, References
        <3>5. /\ Entry(k).members = types[k].members /\ Entry(k).form = FormOf(k, twinOf)
              /\ Holds(Entry(k)) = Holds(types[k])
            BY <3>4, <3>6 DEF e, t, form
        <3> HIDE DEF Entry
        <3> QED
            BY <2>1, <3>1, <3>2, <3>5
    <2>2. CASE ~(k <= n)
        <3>1. k - n \in 1..c
            BY <1>1, <1>3, <2>2
        <3>2. \E i \in Twinned : Rank(Twinned, i) = k - n
            BY <1>1, <1>2, <3>1, RankOnto
        <3> DEFINE h == Half(k - n)
                   form == [mode |-> "Lenient", half |-> h]
        <3>3. h \in Twinned
            BY <3>2
        <3>4. h \in 1..n
            BY <1>2, <3>3
        <3>5. Entry(k) = [types[h] EXCEPT !.form = form]
            BY <2>2
        <3> DEFINE e == Entry(k)
                   t == types[h]
        <3>6. e = [t EXCEPT !.form = form] /\ t \in Contract
            BY <1>1, <3>4, <3>5
        <3> HIDE DEF e, t, h
        <3>7. e.members = t.members /\ e.form = form
            BY <3>6 DEF Contract
        <3>8. Holds(e) = Holds(t)
            BY <3>7 DEF Holds, References
        <3>9. /\ Entry(k).members = types[h].members /\ Entry(k).form = form
              /\ Holds(Entry(k)) = Holds(types[h])
            BY <3>7, <3>8 DEF e, t
        <3> HIDE DEF Entry
        <3> QED
            BY <2>2, <3>3, <3>4, <3>5, <3>9
    <2> QED
        BY <2>1, <2>2
<1> HIDE DEF Entry
<1>9. ASSUME NEW k \in 1..(n + c)
      PROVE  /\ types'[k].form = Entry(k).form
             /\ ~IsLenient(Entry(k)) => types'[k] = Entry(k)
             /\ IsLenient(Entry(k)) => \A x \in Holds(types'[k]) : \E j \in Holds(Entry(k)) :
                    x = IF j \in Twinned THEN twinOf[j] ELSE j
    <2> DEFINE f == Entry(k)
               r == RemapContract(f, twinOf)
    <2>1. types'[k] = ReadForm(f, twinOf)
        BY <1>5
    <2>2. PICK h \in 1..n : /\ f.members = types[h].members
                            /\ \E form : f = [types[h] EXCEPT !.form = form]
                            /\ f.form = IF k <= n THEN FormOf(k, twinOf)
                                        ELSE [mode |-> "Lenient", half |-> h]
        BY <1>8
    <2>3. Fits(f, n + c)
        <3>1. f.form \in Form /\ f.form.half \in 0..(n + c)
            BY <1>1, <1>2, <1>3, <1>4, <2>2 DEF FormOf, Form
        <3>2. Fits(types[h], n) /\ types[h] \in Contract
            BY <1>1
        <3> DEFINE t == types[h]
        <3>3. PICK form : f = [t EXCEPT !.form = form]
            BY <2>2
        <3>4. f.form = form
            BY <3>2, <3>3 DEF Contract
        <3>5. n <= n + c /\ n + c \in Nat
            BY <1>1, <1>3
        <3> HIDE DEF t, f
        <3>6. form \in Form /\ form.half \in 0..(n + c)
            BY <3>1, <3>4
        <3>7. Fits(t, n)
            BY <3>2 DEF t
        <3> QED
            BY <1>1, <3>3, <3>5, <3>6, <3>7, FormFits
    <2>4. n + c \in Nat
        BY <1>1, <1>3
    <2> HIDE DEF f
    <2>5. f.form.half \in 0..(n + c)
          /\ \A j \in 1..Len(f.members) : f.members[j].ty.leaf = "Named" =>
                f.members[j].ty.to \in (DOMAIN twinOf) \cup (1..(n + c))
        BY <2>3 DEF Fits, InTable
    <2>6. \A i \in DOMAIN twinOf : twinOf[i] \in 1..(n + c)
        BY <1>1, <1>3, <1>4
    <2>7. Fits(r, n + c) /\ r.form = f.form
        BY <2>3, <2>4, <2>5, <2>6, RemapFits
    <2>8. Holds(Loosen(r)) \subseteq Holds(r) /\ Loosen(r).form = f.form
        <3> HIDE DEF r
        <3> QED
            BY <2>7, LoosenHolds
    <2>9. \A x \in Holds(r) : \E j \in Holds(f) : x = IF j \in DOMAIN twinOf THEN twinOf[j] ELSE j
        BY <1>6, <2>3, RemapHolds
    <2>10. ReadForm(f, twinOf) = IF IsLenient(f) THEN Loosen(r) ELSE f
        BY DEF ReadForm
    <2> HIDE DEF r
    <2>11. /\ types'[k].form = f.form
           /\ ~IsLenient(f) => types'[k] = f
           /\ IsLenient(f) => \A x \in Holds(types'[k]) : \E j \in Holds(f) :
                    x = IF j \in Twinned THEN twinOf[j] ELSE j
        BY <1>4, <2>1, <2>8, <2>9, <2>10
    <2> QED
        BY <2>11 DEF f
<1>10. ASSUME NEW i \in 1..n
       PROVE  /\ types'[i].form = FormOf(i, twins')
              /\ ~IsLenient(types'[i]) => Holds(types'[i]) = Holds(types[i])
    <2>1. i \in 1..(n + c) /\ i <= n
        BY <1>1, <1>3
    <2>2. Entry(i).form = FormOf(i, twinOf) /\ Holds(Entry(i)) = Holds(types[i])
        BY <1>8, <2>1
    <2> QED
        BY <1>5, <1>9, <2>1, <2>2 DEF IsLenient
<1>11. ASSUME NEW i \in (n + 1)..(n + c) PROVE types'[i].form.mode = "Lenient"
    <2>1. i \in 1..(n + c) /\ ~(i <= n)
        BY <1>1, <1>3
    <2>2. \E h \in 1..n : Entry(i).form = [mode |-> "Lenient", half |-> h]
        BY <1>8, <2>1
    <2>3. Entry(i).form.mode = "Lenient"
        BY <2>2
    <2> QED
        BY <1>9, <2>1, <2>3
<1>12. ASSUME NEW k \in 1..(n + c), IsLenient(types'[k])
       PROVE  \E h \in 1..n :
                /\ k = h \/ h \in Twinned
                /\ \A x \in Holds(types'[k]) : \E j \in Holds(types[h]) :
                      x = IF j \in Twinned THEN twins'[j] ELSE j
    <2>1. PICK h \in 1..n : /\ k = h \/ h \in Twinned
                            /\ Holds(Entry(k)) = Holds(types[h])
        BY <1>8
    <2>2. IsLenient(Entry(k))
        BY <1>9, <1>12 DEF IsLenient
    <2> QED
        BY <1>5, <1>9, <2>1, <2>2
<1> QED
    BY <1>1, <1>2, <1>3, <1>4, <1>5, <1>10, <1>11, <1>12

(* A position responses reach is read, or its twin is.                      *)
LEMMA ReachedIsRead ==
    ASSUME Sound, TwinRun, NEW j \in reach["response"]
    PROVE  LET x == IF j \in Twinned THEN twins'[j] ELSE j
           IN  IsRead(types'[x])
<1> DEFINE n == Len(types)
           c == Cardinality(Twinned)
<1>1. j \in 1..n
    BY DEF Sound, Holders, Direction
<1>2. CASE j \in Twinned
    <2>1. types'[twins'[j]].form.mode = "Lenient"
        BY <1>2, TwinRunForms
    <2> QED
        BY <1>2, <2>1 DEF IsRead
<1>3. CASE j \notin Twinned
    <2>1. types'[j].form = FormOf(j, twins') /\ DOMAIN twins' = Twinned
        BY <1>1, TwinRunForms
    <2>2. FormOf(j, twins').mode \in {"Lenient", "Shared"}
        BY <1>3, <2>1 DEF FormOf
    <2> QED
        BY <1>3, <2>1, <2>2 DEF IsRead
<1> QED
    BY <1>2, <1>3

(* The forms keep both promises.                                            *)
LEMMA TwinRunDirects ==
    ASSUME Sound, Tracing, TwinRun PROVE (RequestsAreStrict /\ ResponsesAreRead)'
<1> DEFINE n == Len(types)
           c == Cardinality(Twinned)
<1>1. /\ phase = "twin" /\ DiffersThrough = {}
      /\ byShape' = byShape /\ reach' = reach /\ input' = input
    BY DEF TwinRun
<1>2. SUFFICES ASSUME input.lenient PROVE (RequestsAreStrict /\ ResponsesAreRead)'
    BY <1>1 DEF Formed, RequestsAreStrict, ResponsesAreRead
<1>3. ASSUME NEW d \in Direction
      PROVE  /\ Seeds(Placed(d)) \subseteq reach[d]
             /\ \A i \in reach[d] : Holds(types[i]) \subseteq reach[d]
             /\ reach[d] \subseteq 1..n
    <2>1. Traced(d) /\ queue[d] = {}
        BY <1>1, <1>2 DEF Tracing, Sound, Staged
    <2> QED
        BY <2>1 DEF Traced, Sound, Holders
<1>4. /\ Placed("request") = input.requests /\ Placed("response") = input.responses
      /\ "request" \in Direction /\ "response" \in Direction
    BY DEF Placed, Direction
<1>5. /\ n \in Nat /\ c \in Nat /\ DOMAIN types = 1..n /\ DOMAIN types' = 1..(n + c)
      /\ DOMAIN twins' = Twinned /\ Twinned \subseteq 1..n
      /\ \A i \in Twinned : twins'[i] \in (n + 1)..(n + c)
      /\ \A i \in 1..n : types'[i].form = FormOf(i, twins')
      /\ \A i \in (n + 1)..(n + c) : types'[i].form.mode = "Lenient"
      /\ \A i \in 1..n : ~IsLenient(types'[i]) => Holds(types'[i]) = Holds(types[i])
      /\ \A k \in 1..(n + c) : IsLenient(types'[k]) =>
            \E h \in 1..n :
               /\ k = h \/ h \in Twinned
               /\ \A x \in Holds(types'[k]) : \E j \in Holds(types[h]) :
                     x = IF j \in Twinned THEN twins'[j] ELSE j
    BY TwinRunForms
<1>6. RequestsAreStrict'
    <2>1. Seeds(input.requests) \subseteq reach["request"]
        BY <1>3, <1>4
    <2>2. Seeds(input.requests)' = Seeds(input.requests)
        BY <1>1 DEF Seeds
    <2>3. ASSUME NEW i \in reach["request"]
          PROVE  ~IsLenient(types'[i]) /\ Holds(types'[i]) \subseteq reach["request"]
        <3>1. i \in 1..n /\ Holds(types[i]) \subseteq reach["request"]
            BY <1>3, <1>4
        <3>2. types'[i].form = FormOf(i, twins') /\ FormOf(i, twins').mode # "Lenient"
            BY <1>5, <3>1 DEF FormOf
        <3>3. ~IsLenient(types'[i])
            BY <3>2 DEF IsLenient
        <3> QED
            BY <1>5, <3>1, <3>3
    <2> QED
        BY <1>1, <2>1, <2>2, <2>3 DEF RequestsAreStrict
<1>7. ASSUME NEW s \in input.responses, Remap(byShape[s], twins').leaf = "Named"
      PROVE  IsRead(types'[Remap(byShape[s], twins').to])
    <2>1. s \in Shapes
        BY <1>7, InputsAssumption DEF Sound, WellFormed
    <2>2. byShape[s] \in TypeRef /\ \A i \in DOMAIN twins' : twins'[i] \in Nat
        BY <1>5, <2>1 DEF Sound, Holders
    <2>3. byShape[s].leaf = "Named"
          /\ Remap(byShape[s], twins').to =
                IF byShape[s].to \in Twinned THEN twins'[byShape[s].to] ELSE byShape[s].to
        BY <1>5, <1>7, <2>2, RemapType
    <2>4. byShape[s].to \in Seeds(input.responses)
        BY <1>7, <2>3 DEF Seeds
    <2>5. byShape[s].to \in reach["response"]
        BY <1>3, <1>4, <2>4
    <2> QED
        BY <2>3, <2>5, ReachedIsRead
<1>8. ASSUME NEW k \in 1..(n + c), IsRead(types'[k]), NEW x \in Holds(types'[k])
      PROVE  IsRead(types'[x])
    <2>1. CASE IsLenient(types'[k])
        <3>1. PICK h \in 1..n :
               /\ k = h \/ h \in Twinned
               /\ \A y \in Holds(types'[k]) : \E j \in Holds(types[h]) :
                     y = IF j \in Twinned THEN twins'[j] ELSE j
            BY <1>5, <2>1
        <3>2. h \in reach["response"]
            <4>1. CASE h \in Twinned
                BY <4>1 DEF Twinned
            <4>2. CASE k = h
                <5>1. types'[h].form = FormOf(h, twins')
                    BY <1>5
                <5>2. FormOf(h, twins').mode = "Lenient"
                    BY <2>1, <4>2, <5>1 DEF IsLenient
                <5> QED
                    BY <5>2 DEF FormOf
            <4> QED
                BY <3>1, <4>1, <4>2
        <3>3. PICK j \in Holds(types[h]) : x = IF j \in Twinned THEN twins'[j] ELSE j
            BY <1>8, <3>1
        <3>4. j \in reach["response"]
            BY <1>3, <1>4, <3>2, <3>3
        <3> QED
            BY <3>3, <3>4, ReachedIsRead
    <2>2. CASE ~IsLenient(types'[k])
        <3>1. types'[k].form.mode = "Shared"
            BY <1>8, <2>2 DEF IsRead, IsLenient
        <3>2. k \in 1..n
            BY <1>5, <3>1
        <3>3. types'[k].form = FormOf(k, twins')
            BY <1>5, <3>2
        <3>4. k \in reach["response"] /\ k \in reach["request"] /\ k \notin Twinned
            BY <1>5, <3>1, <3>3 DEF FormOf
        <3>5. k \notin differing
            BY <3>4 DEF Twinned
        <3>6. Holds(types[k]) \cap differing = {}
            BY <1>1, <1>5, <3>2, <3>5 DEF DiffersThrough
        <3>7. x \in Holds(types[k])
            BY <1>5, <1>8, <2>2, <3>2
        <3>8. x \in reach["response"] /\ x \notin Twinned
            BY <1>3, <1>4, <3>4, <3>6, <3>7 DEF Twinned
        <3> QED
            BY <3>8, ReachedIsRead
    <2> QED
        BY <2>1, <2>2
<1> HIDE DEF n, c
<1>9. ResponsesAreRead'
    BY <1>1, <1>5, <1>7, <1>8 DEF ResponsesAreRead
<1> QED
    BY <1>6, <1>9

-----------------------------------------------------------------------------
(* The passes after the forms.                                              *)

(* A later pass leaves every form, and names nothing new.                   *)
LEMMA LaterKeeps ==
    ASSUME Sound, Normalize \/ Promote \/ BoxRound \/ Reopen
    PROVE  /\ DOMAIN types' = DOMAIN types
           /\ \A i \in DOMAIN types : /\ types'[i].form = types[i].form
                                      /\ Holds(types'[i]) \subseteq Holds(types[i])
<1> DEFINE n == Len(types)
<1>1. /\ n \in Nat /\ DOMAIN types = 1..n
      /\ \A i \in 1..n : Fits(types[i], n) /\ types[i] \in Contract
    BY DEF Sound, Table, Fits
<1>2. CASE Normalize
    <2>1. /\ DOMAIN types' = 1..n
          /\ \A i \in 1..n : \/ types'[i] = types[i]
                             \/ \E leaf \in {"Unit", "Value"} :
                                   types'[i] = AliasOf(types[i], leaf)
        BY <1>2 DEF Normalize
    <2>2. ASSUME NEW i \in 1..n, NEW leaf \in {"Unit", "Value"}
          PROVE  /\ AliasOf(types[i], leaf).form = types[i].form
                 /\ Holds(AliasOf(types[i], leaf)) = {}
        <3> DEFINE d == AliasOf(types[i], leaf)
        <3>1. /\ d.form = types[i].form
              /\ d.members = <<[ty |-> LeafRef(leaf), presence |-> "Required",
                                capture |-> "None"]>>
            BY <1>1 DEF AliasOf, Contract
        <3> HIDE DEF d
        <3>2. DOMAIN d.members = 1..Len(d.members)
              /\ \A k \in 1..Len(d.members) : d.members[k].ty.leaf = leaf
            BY <3>1 DEF LeafRef
        <3>3. d.form = types[i].form /\ Holds(d) = {}
            BY <3>1, <3>2 DEF Holds, References
        <3> QED
            BY <3>3 DEF d
    <2> QED
        BY <1>1, <2>1, <2>2
<1>3. CASE Promote
    <2>1. /\ DOMAIN types' = 1..n
          /\ \A i \in 1..n : \/ types'[i] = types[i]
                             \/ types'[i] = [types[i] EXCEPT !.kind = "Newtype"]
        BY <1>3 DEF Promote
    <2>2. ASSUME NEW i \in 1..n
          PROVE  LET d == [types[i] EXCEPT !.kind = "Newtype"]
                 IN  d.form = types[i].form /\ Holds(d) = Holds(types[i])
        <3> DEFINE d == [types[i] EXCEPT !.kind = "Newtype"]
        <3>1. d.members = types[i].members /\ d.form = types[i].form
            BY <1>1 DEF Contract
        <3> HIDE DEF d
        <3>2. Holds(d) = Holds(types[i]) /\ d.form = types[i].form
            BY <3>1 DEF Holds, References
        <3> QED
            BY <3>2 DEF d
    <2> QED
        BY <1>1, <2>1, <2>2
<1>4. CASE BoxRound \/ Reopen
    <2>1. /\ DOMAIN types' = 1..n
          /\ \A i \in 1..n : types'[i] = types[i] \/ Rewrapped(types[i], types'[i])
        BY <1>4, LaterRewraps
    <2>2. \A c, d : Rewrapped(c, d) => d.form = c.form
        BY DEF Rewrapped
    <2> QED
        BY <1>1, <2>1, <2>2, RewrappedHolds
<1> QED
    BY <1>2, <1>3, <1>4

(* So it keeps both promises.                                               *)
LEMMA LaterDirects ==
    ASSUME Sound, RequestsAreStrict, ResponsesAreRead,
           Normalize \/ Promote \/ BoxRound \/ Reopen
    PROVE  (RequestsAreStrict /\ ResponsesAreRead)'
<1>1. /\ phase \notin {"dedup", "reach", "unit", "twin"}
      /\ UNCHANGED <<input, byShape, reach, twins>>
    BY DEF Normalize, Promote, BoxRound, Reopen
<1>2. SUFFICES ASSUME input.lenient PROVE (RequestsAreStrict /\ ResponsesAreRead)'
    BY <1>1 DEF Formed, RequestsAreStrict, ResponsesAreRead
<1>3. Formed
    BY <1>1, <1>2 DEF Formed
<1>4. /\ DOMAIN types' = DOMAIN types
      /\ \A i \in DOMAIN types : /\ types'[i].form = types[i].form
                                 /\ Holds(types'[i]) \subseteq Holds(types[i])
    BY LaterKeeps
<1>5. /\ DOMAIN types = 1..Len(types)
      /\ \A i \in DOMAIN types : Holds(types[i]) \subseteq DOMAIN types
      /\ reach["request"] \subseteq DOMAIN types
    BY FitsHolds DEF Sound, Table, Holders, Direction
<1>6. RequestsAreStrict'
    <2>1. Seeds(input.requests)' = Seeds(input.requests)
        BY <1>1 DEF Seeds
    <2> QED
        BY <1>1, <1>3, <1>4, <1>5, <2>1 DEF RequestsAreStrict, IsLenient
<1>7. ASSUME NEW s \in input.responses, Remap(byShape[s], twins).leaf = "Named"
      PROVE  IsRead(types'[Remap(byShape[s], twins).to])
    <2> DEFINE ref == Remap(byShape[s], twins)
    <2>1. s \in Shapes
        BY <1>7, InputsAssumption DEF Sound, WellFormed
    <2>2. /\ byShape[s] \in TypeRef /\ InTable(byShape[s], Len(types))
          /\ \A i \in DOMAIN twins : twins[i] \in 1..Len(types)
        BY <2>1 DEF Sound, Holders
    <2>3. ref.to \in DOMAIN types
        BY <1>5, <1>7, <2>2, RemapType DEF InTable
    <2>4. IsRead(types[ref.to])
        BY <1>3, <1>7 DEF ResponsesAreRead
    <2> HIDE DEF ref
    <2>5. IsRead(types'[ref.to])
        BY <1>4, <2>3, <2>4 DEF IsRead
    <2> QED
        BY <2>5 DEF ref
<1>8. ASSUME NEW i \in DOMAIN types, IsRead(types'[i]), NEW j \in Holds(types'[i])
      PROVE  IsRead(types'[j])
    <2>1. IsRead(types[i]) /\ j \in Holds(types[i]) /\ j \in DOMAIN types
        BY <1>4, <1>5, <1>8 DEF IsRead
    <2>2. IsRead(types[j])
        BY <1>3, <2>1 DEF ResponsesAreRead
    <2> QED
        BY <1>4, <2>1, <2>2 DEF IsRead
<1>9. ResponsesAreRead'
    BY <1>1, <1>4, <1>7, <1>8 DEF ResponsesAreRead
<1> QED
    BY <1>6, <1>9

(* Every step of the layer keeps track of both directions.                  *)
LEMMA NextDirected ==
    ASSUME Sound, Directed, [Next]_vars PROVE Directed'
<1>1. ASSUME phase' \in {"dedup", "reach", "unit", "twin"}
      PROVE  RequestsAreStrict' /\ ResponsesAreRead'
    BY <1>1 DEF RequestsAreStrict, ResponsesAreRead, Formed
<1>2. ASSUME phase' \notin {"reach", "unit", "twin"}
      PROVE  Tracing'
    BY <1>2 DEF Tracing
<1>3. CASE DedupRound
    BY <1>1, <1>2, <1>3 DEF DedupRound, Directed
<1>4. CASE DedupEnd
    BY <1>1, <1>4, DedupEndTraces DEF DedupEnd, Directed
<1>5. CASE \E d \in Direction : ReachStep(d)
    BY <1>1, <1>5, ReachStepTraces DEF ReachStep, Directed
<1>6. CASE ReachEnd
    BY <1>1, <1>6, ReachEndTraces DEF ReachEnd, Directed
<1>7. CASE UnitRun
    <2>1. Tracing'
        BY <1>7, UnitRunTraces DEF Directed
    <2>2. phase' = "twin" \/ ~input'.lenient
        BY <1>7 DEF UnitRun
    <2> QED
        BY <1>1, <2>1, <2>2 DEF Directed, RequestsAreStrict, ResponsesAreRead, Formed
<1>8. CASE DiffersRound
    BY <1>1, <1>8, DiffersRoundTraces DEF DiffersRound, Directed
<1>9. CASE TwinRun
    BY <1>2, <1>9, TwinRunDirects DEF TwinRun, Directed
<1>10. CASE Normalize \/ Promote \/ BoxRound \/ Reopen
    BY <1>2, <1>10, LaterDirects DEF Normalize, Promote, BoxRound, Reopen, Directed
<1>11. CASE BoxEnd \/ DeriveRound \/ Freeze
    <2>1. /\ phase \notin {"dedup", "reach", "unit", "twin"}
          /\ phase' \notin {"dedup", "reach", "unit", "twin"}
          /\ UNCHANGED <<input, types, byShape, reach, twins>>
        BY <1>11 DEF BoxEnd, DeriveRound, Freeze
    <2>2. Formed' = Formed
        BY <2>1 DEF Formed
    <2> QED
        BY <1>2, <2>1, <2>2 DEF Directed, RequestsAreStrict, ResponsesAreRead, Seeds
<1>12. CASE UNCHANGED vars
    BY <1>12 DEF vars, Directed, Tracing, Traced, Placed, Seeds, RequestsAreStrict,
       ResponsesAreRead, Formed
<1> QED
    BY <1>3, <1>4, <1>5, <1>6, <1>7, <1>8, <1>9, <1>10, <1>11, <1>12
    DEF Next, Tabling, Finalizing, Finished

(* Both directions, always.                                                 *)
THEOREM AlwaysDirected == Spec => []Directed
<1>1. Init => Directed
    BY DEF Init, Directed, Tracing, RequestsAreStrict, ResponsesAreRead, Formed
<1>2. Sound /\ Directed /\ [Next]_vars => Directed'
    BY NextDirected
<1> QED
    BY <1>1, <1>2, AlwaysSound, PTL DEF Spec

(* Nothing a caller builds for a request is of the lenient shape: whatever  *)
(* order the worklists take, what request positions name and everything it  *)
(* holds is reached from the requests, and every later pass keeps it strict *)
(* (reach.rs, twin.rs).                                                     *)
THEOREM RequestsStayStrict == Spec => []RequestsAreStrict
<1>1. Directed => RequestsAreStrict
    BY DEF Directed
<1> QED
    BY <1>1, AlwaysDirected, PTL

(* Everything a response position can decode is a read form, and holds      *)
(* nothing but read forms: the fixed point over the differing forms leaves  *)
(* no shared type that holds a strict one, and renumbering to the twins     *)
(* misses no reference (twin.rs).                                           *)
THEOREM ResponsesStayRead == Spec => []ResponsesAreRead
<1>1. Directed => ResponsesAreRead
    BY DEF Directed
<1> QED
    BY <1>1, AlwaysDirected, PTL

-----------------------------------------------------------------------------
(* The cycles of the two forms.                                             *)

\* A decoder of the contract hands the value it was handed to the position.
Steps(c, x) ==
    \E k \in DOMAIN c.members :
        HandsOn(c, k) /\ Forwards(c.members[k].ty) /\ c.members[k].ty.to = x

(* Such a position is held.                                                 *)
LEMMA StepsHold ==
    ASSUME NEW c, NEW n, Fits(c, n), NEW x, Steps(c, x) PROVE x \in Holds(c)
<1>1. DOMAIN c.members = 1..Len(c.members)
    BY FitsTypes
<1> QED
    BY <1>1, HeldBy DEF Steps, Forwards

(* Renumbering moves it, and adds none.                                     *)
LEMMA RemapSteps ==
    ASSUME NEW c, NEW n, Fits(c, n), NEW moved, \A i \in DOMAIN moved : moved[i] \in Nat,
           NEW x, Steps(RemapContract(c, moved), x)
    PROVE  \E y : Steps(c, y) /\ x = IF y \in DOMAIN moved THEN moved[y] ELSE y
<1> DEFINE tys == [k \in 1..Len(c.members) |-> Remap(c.members[k].ty, moved)]
           d == Retyped(c, tys)
<1>1. c \in Contract /\ DOMAIN c.members = 1..Len(c.members)
      /\ \A k \in 1..Len(c.members) : c.members[k].ty \in TypeRef
    BY FitsTypes DEF Fits
<1>2. ASSUME NEW k \in 1..Len(c.members)
      PROVE  /\ tys[k] \in TypeRef
             /\ Forwards(tys[k]) =>
                   /\ Forwards(c.members[k].ty)
                   /\ tys[k].to = IF c.members[k].ty.to \in DOMAIN moved
                                  THEN moved[c.members[k].ty.to] ELSE c.members[k].ty.to
    <2> DEFINE ref == c.members[k].ty
    <2>1. ref \in TypeRef
        BY <1>1
    <2>2. tys[k] = Remap(ref, moved)
        OBVIOUS
    <2> HIDE DEF ref, tys
    <2>3. /\ Remap(ref, moved) \in TypeRef
          /\ Remap(ref, moved).leaf = ref.leaf
          /\ ref.leaf = "Named" /\ ref.to \in DOMAIN moved => Remap(ref, moved).to = moved[ref.to]
          /\ ~(ref.leaf = "Named" /\ ref.to \in DOMAIN moved) => Remap(ref, moved) = ref
        BY <2>1, RemapType
    <2>4. Remap(ref, moved).wraps = ref.wraps
        BY <2>1 DEF Remap, TypeRef
    <2> QED
        BY <2>2, <2>3, <2>4 DEF Forwards, ref
<1>3. RemapContract(c, moved) = d
    BY DEF RemapContract
<1> HIDE DEF tys
<1>4. /\ d \in Contract /\ Len(d.members) = Len(c.members) /\ d.kind = c.kind
      /\ \A k \in 1..Len(c.members) : /\ d.members[k].ty = tys[k]
                                      /\ d.members[k].capture = c.members[k].capture
    BY <1>1, <1>2, RetypedType
<1> HIDE DEF d
<1>5. DOMAIN d.members = 1..Len(c.members)
    BY <1>4 DEF Contract
<1>6. PICK k \in 1..Len(c.members) : HandsOn(d, k) /\ Forwards(tys[k]) /\ tys[k].to = x
    BY <1>3, <1>4, <1>5 DEF Steps
<1>7. HandsOn(c, k)
    BY <1>4, <1>6 DEF HandsOn
<1>8. Steps(c, c.members[k].ty.to)
    BY <1>1, <1>2, <1>6, <1>7 DEF Steps
<1> QED
    BY <1>2, <1>6, <1>8

(* The read form of a struct hands on nothing that the struct does not: a   *)
(* member that is opened or added is no part of a flattened union.          *)
LEMMA LoosenSteps ==
    ASSUME NEW c, NEW n, Fits(c, n), NEW x, Steps(Loosen(c), x)
    PROVE  Steps(c, x)
<1> DEFINE len == Len(c.members)
           opened == [k \in 1..len |-> Opened(c.members[k])]
           more == Append(opened, CaptureMember)
<1>1. c \in Contract /\ c.members \in Seq(Member) /\ DOMAIN c.members = 1..len /\ len \in Nat
      /\ \A k \in 1..len : c.members[k] \in Member
    BY FitsTypes DEF Fits
<1>2. CASE c.kind # "Struct"
    BY <1>2 DEF Loosen
<1>3. ASSUME c.kind = "Struct", NEW ms, DOMAIN ms \subseteq 1..(len + 1),
             \A k \in DOMAIN ms : IF k \in 1..len THEN ms[k] = Opened(c.members[k])
                                  ELSE ms[k] = CaptureMember,
             Steps([c EXCEPT !.members = ms], x)
      PROVE  Steps(c, x)
    <2> DEFINE d == [c EXCEPT !.members = ms]
    <2>1. d.members = ms /\ d.kind = "Struct"
        BY <1>1, <1>3 DEF Contract
    <2> HIDE DEF d
    <2>2. PICK k \in DOMAIN ms : ms[k].capture = "Union" /\ Forwards(ms[k].ty) /\ ms[k].ty.to = x
        BY <1>3, <2>1 DEF Steps, HandsOn, d
    <2>3. k \in 1..len /\ ms[k] = Opened(c.members[k])
        BY <1>3, <2>2 DEF CaptureMember
    <2>4. c.members[k].capture = "Union" /\ ms[k] = c.members[k]
        BY <1>1, <2>2, <2>3 DEF Opened, Member
    <2> QED
        BY <1>1, <1>3, <2>2, <2>3, <2>4 DEF Steps, HandsOn
<1>4. CASE c.kind = "Struct"
    <2>1. /\ DOMAIN opened = 1..len /\ Len(opened) = len
          /\ \A k \in 1..len : opened[k] = Opened(c.members[k])
        BY <1>1
    <2>2. /\ DOMAIN more = 1..(len + 1)
          /\ \A k \in 1..(len + 1) : IF k \in 1..len THEN more[k] = Opened(c.members[k])
                                     ELSE more[k] = CaptureMember
        <3> DEFINE S == {opened[k] : k \in 1..len} \cup {CaptureMember}
        <3>1. opened \in [1..len -> S] /\ CaptureMember \in S
            BY <2>1
        <3> HIDE DEF S, opened, len
        <3>2. opened \in Seq(S) /\ Len(opened) = len
            BY <1>1, <2>1, <3>1
        <3>3. DOMAIN more = 1..(len + 1)
              /\ \A k \in 1..(len + 1) : more[k] = IF k <= len THEN opened[k] ELSE CaptureMember
            BY <1>1, <3>1, <3>2
        <3> QED
            BY <1>1, <2>1, <3>3
    <2>3. \/ Loosen(c) = [c EXCEPT !.members = opened]
          \/ Loosen(c) = [c EXCEPT !.members = more]
        BY <1>4 DEF Loosen
    <2> HIDE DEF opened, more
    <2>4. CASE Loosen(c) = [c EXCEPT !.members = opened]
        BY <1>1, <1>3, <1>4, <2>1, <2>4
    <2>5. CASE Loosen(c) = [c EXCEPT !.members = more]
        BY <1>1, <1>3, <1>4, <2>2, <2>5
    <2> QED
        BY <2>3, <2>4, <2>5
<1> QED
    BY <1>2, <1>4

\* What an entry of the formed table was made of: the type at its own position,
\* or the strict half of the twin it is.
MadeOf(k, h) ==
    /\ types'[k].origin = types[h].origin
    /\ IF k <= Len(types) THEN h = k /\ types'[k].form = FormOf(k, twins')
       ELSE /\ h \in Twinned /\ k = twins'[h]
            /\ types'[k].form = [mode |-> "Lenient", half |-> h]
    /\ \A x : Steps(types'[k], x) => \E y : Steps(types[h], y)
          /\ x = IF IsLenient(types'[k]) /\ y \in Twinned THEN twins'[y] ELSE y
    /\ ~IsLenient(types'[k]) => \A x : Steps(types[h], x) => Steps(types'[k], x)

(* Every entry of the formed table was made of one of the table before.     *)
LEMMA TwinRunMakes ==
    ASSUME Sound, TwinRun, NEW k \in DOMAIN types'
    PROVE  \E h \in DOMAIN types : MadeOf(k, h)
<1> DEFINE n == Len(types)
           c == Cardinality(Twinned)
           twinOf == [i \in Twinned |-> n + Rank(Twinned, i)]
           Half(m) == CHOOSE i \in Twinned : Rank(Twinned, i) = m
           Entry(m) ==
              IF m <= n THEN [types[m] EXCEPT !.form = FormOf(m, twinOf)]
              ELSE [types[Half(m - n)] EXCEPT
                      !.form = [mode |-> "Lenient", half |-> Half(m - n)]]
<1>1. /\ n \in Nat /\ DOMAIN types = 1..n /\ differing \subseteq 1..n
      /\ \A i \in 1..n : Fits(types[i], n) /\ types[i] \in Contract
    BY DEF Sound, Table, Holders, Fits
<1>2. Twinned \in SUBSET (1..n)
    BY <1>1 DEF Twinned
<1>3. c \in Nat
    BY <1>1, <1>2, FiniteKept
<1>4. DOMAIN twinOf = Twinned /\ \A i \in Twinned : twinOf[i] \in 1..(n + c)
    <2> SUFFICES ASSUME NEW i \in Twinned PROVE twinOf[i] \in 1..(n + c)
        OBVIOUS
    <2>1. Rank(Twinned, i) \in 1..c
        BY <1>1, <1>2, RankInRange
    <2> QED
        BY <1>1, <1>3, <2>1
<1>5. /\ types' = [m \in 1..(n + c) |-> ReadForm(Entry(m), twinOf)]
      /\ twins' = twinOf
    BY DEF TwinRun
<1>6. k \in 1..(n + c)
    BY <1>5
<1>7. \A i \in Twinned : twinOf[i] = n + Rank(Twinned, i)
    OBVIOUS
<1> HIDE DEF twinOf
<1>8. PICK h \in 1..n :
          \E form : /\ Entry(k) = [types[h] EXCEPT !.form = form]
                    /\ form \in Form /\ form.half \in 0..(n + c)
                    /\ IF k <= n THEN h = k /\ form = FormOf(k, twinOf)
                       ELSE /\ h \in Twinned /\ k = twinOf[h]
                            /\ form = [mode |-> "Lenient", half |-> h]
    <2>1. CASE k <= n
        <3>1. k \in 1..n /\ Entry(k) = [types[k] EXCEPT !.form = FormOf(k, twinOf)]
            BY <1>1, <1>6, <2>1
        <3>2. FormOf(k, twinOf) \in Form /\ FormOf(k, twinOf).half \in 0..(n + c)
            BY <1>1, <1>3, <1>4 DEF FormOf, Form
        <3> HIDE DEF Entry
        <3> QED
            BY <2>1, <3>1, <3>2
    <2>2. CASE ~(k <= n)
        <3>1. k - n \in 1..c
            BY <1>1, <1>3, <1>6, <2>2
        <3>2. \E i \in Twinned : Rank(Twinned, i) = k - n
            BY <1>1, <1>2, <3>1, RankOnto
        <3> DEFINE h == Half(k - n)
                   form == [mode |-> "Lenient", half |-> h]
        <3>3. h \in Twinned /\ Rank(Twinned, h) = k - n
            BY <3>2
        <3>4. h \in 1..n
            BY <1>2, <3>3
        <3>5. Entry(k) = [types[h] EXCEPT !.form = form]
            BY <2>2
        <3>6. k = twinOf[h]
            BY <1>1, <1>3, <1>6, <1>7, <3>3
        <3> HIDE DEF Entry, h
        <3>7. form \in Form /\ form.half \in 0..(n + c)
            BY <1>1, <1>3, <3>4 DEF Form
        <3> QED
            BY <2>2, <3>3, <3>4, <3>5, <3>6, <3>7
    <2> QED
        BY <2>1, <2>2
<1>9. PICK form : /\ Entry(k) = [types[h] EXCEPT !.form = form]
                  /\ form \in Form /\ form.half \in 0..(n + c)
                  /\ IF k <= n THEN h = k /\ form = FormOf(k, twinOf)
                     ELSE /\ h \in Twinned /\ k = twinOf[h]
                          /\ form = [mode |-> "Lenient", half |-> h]
    BY <1>8
<1> DEFINE t == types[h]
           f == Entry(k)
           r == RemapContract(f, twinOf)
<1>10. types'[k] = IF IsLenient(f) THEN Loosen(r) ELSE f
    BY <1>5, <1>6 DEF ReadForm
<1>11. Fits(t, n) /\ t \in Contract /\ f = [t EXCEPT !.form = form]
    BY <1>1, <1>9
<1> HIDE DEF Entry, t, f
<1>12. /\ f.form = form /\ f.origin = t.origin /\ f.members = t.members /\ f.kind = t.kind
    BY <1>11 DEF Contract
<1>13. Fits(f, n + c)
    <2>1. n <= n + c /\ n + c \in Nat
        BY <1>1, <1>3
    <2> QED
        BY <1>1, <1>9, <1>11, <2>1, FormFits
<1>14. \A x : Steps(f, x) <=> Steps(t, x)
    BY <1>12 DEF Steps, HandsOn
<1>15. ~IsLenient(f) => types'[k] = f
    BY <1>10
<1>16. ASSUME IsLenient(f)
       PROVE  /\ types'[k].form = form /\ types'[k].origin = t.origin
              /\ \A x : Steps(types'[k], x) => \E y : Steps(t, y)
                    /\ x = IF y \in Twinned THEN twinOf[y] ELSE y
    <2>1. f \in Contract
        BY <1>13 DEF Fits
    <2>2. r.origin = f.origin /\ r.form = f.form /\ r.kind = f.kind
        BY <2>1, RemapKeeps
    <2>3. Fits(r, n + c)
        <3> DEFINE m == n + c
        <3>1. m \in Nat /\ Fits(f, m) /\ f.form.half \in 0..m
            BY <1>1, <1>3, <1>9, <1>12, <1>13
        <3>2. \A i \in DOMAIN twinOf : twinOf[i] \in 1..m
            BY <1>4
        <3> HIDE DEF m
        <3>3. \A j \in 1..Len(f.members) : f.members[j].ty.leaf = "Named" =>
                f.members[j].ty.to \in (DOMAIN twinOf) \cup (1..m)
            BY <3>1 DEF Fits, InTable
        <3>4. Fits(r, m)
            BY <3>1, <3>2, <3>3, RemapFits
        <3> QED
            BY <3>4 DEF m
    <2>4. types'[k] = Loosen(r)
        BY <1>10, <1>16
    <2>5. ASSUME NEW x, Steps(r, x)
          PROVE  \E y : Steps(f, y) /\ x = IF y \in DOMAIN twinOf THEN twinOf[y] ELSE y
        <3>1. \A i \in DOMAIN twinOf : twinOf[i] \in Nat
            BY <1>1, <1>3, <1>4
        <3> QED
            BY <1>13, <2>5, <3>1, RemapSteps
    <2>6. ASSUME NEW x, Steps(types'[k], x)
          PROVE  \E y : Steps(t, y) /\ x = IF y \in Twinned THEN twinOf[y] ELSE y
        <3> HIDE DEF r
        <3>1. Steps(r, x)
            BY <2>3, <2>4, <2>6, LoosenSteps
        <3>2. PICK y : Steps(f, y) /\ x = IF y \in DOMAIN twinOf THEN twinOf[y] ELSE y
            BY <2>5, <3>1
        <3> QED
            BY <1>4, <1>14, <3>2
    <2> HIDE DEF r
    <2>7. Loosen(r).origin = r.origin /\ Loosen(r).form = r.form
        <3>1. r \in Contract
            BY <2>3 DEF Fits
        <3> QED
            BY <3>1 DEF Loosen, Contract
    <2> QED
        BY <1>12, <2>2, <2>4, <2>6, <2>7
<1>17. types'[k].form = form /\ types'[k].origin = t.origin
    BY <1>12, <1>15, <1>16
<1>18. IsLenient(types'[k]) <=> IsLenient(f)
    BY <1>12, <1>17 DEF IsLenient
<1>19. \A x : Steps(types'[k], x) => \E y : Steps(t, y)
          /\ x = IF IsLenient(types'[k]) /\ y \in Twinned THEN twinOf[y] ELSE y
    BY <1>14, <1>15, <1>16, <1>18
<1>20. ~IsLenient(types'[k]) => \A x : Steps(t, x) => Steps(types'[k], x)
    BY <1>14, <1>15, <1>18
<1>21. MadeOf(k, h)
    BY <1>5, <1>9, <1>17, <1>19, <1>20 DEF MadeOf, t
<1> QED
    BY <1>1, <1>21

\* No type has its form yet, and no two are one type's.
Untwinned(ts) ==
    /\ \A i \in DOMAIN ts : ts[i].form = [mode |-> "Strict", half |-> 0]
    /\ \A i, j \in DOMAIN ts : ts[i].origin = ts[j].origin => i = j

\* A twin is beside its strict half only, hands values on where its half does
\* and to the twins of whom its half does, or to what both forms share.
Mirrored(ts) ==
    /\ \A i, j \in DOMAIN ts : ts[i].origin = ts[j].origin =>
          \/ i = j
          \/ IsTwin(ts[i]) /\ ts[i].form.half = j
          \/ IsTwin(ts[j]) /\ ts[j].form.half = i
    /\ \A i \in DOMAIN ts : IsTwin(ts[i]) =>
          LET h == ts[i].form.half
          IN  /\ h \in DOMAIN ts /\ ~IsTwin(ts[h]) /\ ts[h].origin = ts[i].origin
              /\ \A j \in DOMAIN ts : <<i, j>> \in ForwardEdges(ts) =>
                    \/ ts[j].form.mode = "Shared"
                    \/ IsTwin(ts[j]) /\ <<h, ts[j].form.half>> \in ForwardEdges(ts)
    /\ \A i, j \in DOMAIN ts :
          ts[i].form.mode = "Shared" /\ <<i, j>> \in ForwardEdges(ts) =>
              ts[j].form.mode = "Shared"

\* What is known of the forms until the cycles are looked for.
Mirroring ==
    /\ phase \in {"dedup", "reach", "unit", "twin"} => Untwinned(types)
    /\ phase = "twin" => input.lenient
    /\ phase = "normalize" => Mirrored(types)

(* Without forms there is nothing to mirror.                                *)
LEMMA UntwinnedMirrors ==
    ASSUME NEW ts, Untwinned(ts) PROVE Mirrored(ts)
<1>1. \A i \in DOMAIN ts : ~IsTwin(ts[i]) /\ ts[i].form.mode = "Strict"
    BY DEF Untwinned, IsTwin, IsLenient
<1> QED
    BY <1>1 DEF Untwinned, Mirrored

(* A smaller table of the same types has no forms either.                   *)
LEMMA KeptUntwinned ==
    ASSUME NEW n, NEW kept, PartOf(kept, n), NEW ts, NEW us, DOMAIN ts = 1..n, Untwinned(ts),
           \A i \in 1..n : us[i].form = ts[i].form /\ us[i].origin = ts[i].origin
    PROVE  Untwinned(Keep(us, kept))
<1> DEFINE c == Cardinality(kept)
           vs == Keep(us, kept)
<1>1. DOMAIN vs = 1..c
    BY KeepSeq
<1>2. \A k \in 1..c : \E i \in kept : Rank(kept, i) = k /\ vs[k] = us[i]
    BY KeepRank
<1>3. \A i \in kept : i \in DOMAIN ts /\ us[i].form = ts[i].form /\ us[i].origin = ts[i].origin
    BY DEF PartOf
<1> HIDE DEF vs, c
<1>4. ASSUME NEW k \in DOMAIN vs PROVE vs[k].form = [mode |-> "Strict", half |-> 0]
    BY <1>1, <1>2, <1>3 DEF Untwinned
<1>5. ASSUME NEW k \in DOMAIN vs, NEW l \in DOMAIN vs, vs[k].origin = vs[l].origin
      PROVE  k = l
    <2>1. PICK i \in kept : Rank(kept, i) = k /\ vs[k] = us[i]
        BY <1>1, <1>2
    <2>2. PICK j \in kept : Rank(kept, j) = l /\ vs[l] = us[j]
        BY <1>1, <1>2
    <2>3. ts[i].origin = ts[j].origin
        BY <1>3, <1>5, <2>1, <2>2
    <2>4. i = j
        BY <1>3, <2>3 DEF Untwinned
    <2> QED
        BY <2>1, <2>2, <2>4
<1>6. Untwinned(vs)
    BY <1>4, <1>5 DEF Untwinned
<1> QED
    BY <1>6 DEF vs

(* A merge keeps types apart.                                               *)
LEMMA DedupRoundUntwinned ==
    ASSUME Sound, Untwinned(types), DedupRound PROVE Untwinned(types')
<1> DEFINE n == Len(types)
           kept == (DOMAIN types) \ Plan(types)
           moved == [i \in 1..Len(types) |-> Rank(kept, Target(types, i))]
           us == [i \in 1..n |-> RemapContract(types[i], moved)]
<1>1. n \in Nat /\ DOMAIN types = 1..n /\ \A i \in 1..n : types[i] \in Contract
    BY DEF Sound, Table
<1>2. PartOf(kept, n)
    BY <1>1 DEF PartOf
<1>3. types' = Keep(us, kept)
    BY DEF DedupRound, Renumber
<1> HIDE DEF moved
<1>4. \A i \in 1..n : us[i].form = types[i].form /\ us[i].origin = types[i].origin
    <2> SUFFICES ASSUME NEW i \in 1..n
                 PROVE  us[i].form = types[i].form /\ us[i].origin = types[i].origin
        OBVIOUS
    <2>1. us[i] = RemapContract(types[i], moved)
        OBVIOUS
    <2> QED
        BY <1>1, <2>1, RemapKeeps
<1> HIDE DEF us, kept
<1> QED
    BY <1>1, <1>2, <1>3, <1>4, KeptUntwinned

(* So does dropping the units.                                              *)
LEMMA UnitRunUntwinned ==
    ASSUME Sound, Untwinned(types), UnitRun PROVE Untwinned(types')
<1> DEFINE n == Len(types)
           kept == (DOMAIN types) \ Units
           moved == [i \in kept |-> Rank(kept, i)]
           v(i) == UnitVariants(types[i], Units)
           us == [i \in 1..n |-> RemapContract(v(i), moved)]
<1>1. /\ n \in Nat /\ DOMAIN types = 1..n /\ Table(types)
      /\ \A i \in 1..n : types[i] \in Contract /\ types[i].form.half = 0
    BY DEF Sound, Table, Staged, UnitRun
<1>2. PartOf(kept, n)
    BY <1>1 DEF PartOf
<1>3. types' = Keep(us, kept)
    BY DEF UnitRun
<1> HIDE DEF moved
<1>4. ASSUME NEW i \in 1..n
      PROVE  us[i].form = types[i].form /\ us[i].origin = types[i].origin
    <2>1. us[i] = RemapContract(v(i), moved)
        OBVIOUS
    <2>2. v(i) \in Contract
        BY <1>1, UnitVariantsFit DEF Fits
    <2>3. v(i).form = types[i].form /\ v(i).origin = types[i].origin
        BY <1>1 DEF UnitVariants, Retyped, Contract
    <2> HIDE DEF v, us
    <2>4. us[i].form = v(i).form /\ us[i].origin = v(i).origin
        BY <2>1, <2>2, RemapKeeps
    <2> QED
        BY <2>3, <2>4
<1> HIDE DEF us, kept
<1> QED
    BY <1>1, <1>2, <1>3, <1>4, KeptUntwinned

(* The forms mirror one another: what a twin holds travels both ways, and   *)
(* has a twin of its own if it differs at all.                              *)
LEMMA TwinRunMirrors ==
    ASSUME Sound, Tracing, Mirroring, TwinRun PROVE Mirrored(types')
<1> DEFINE n == Len(types)
           c == Cardinality(Twinned)
<1>1. /\ phase = "twin" /\ DiffersThrough = {}
    BY DEF TwinRun
<1>2. /\ n \in Nat /\ c \in Nat /\ DOMAIN types = 1..n /\ DOMAIN types' = 1..(n + c)
      /\ DOMAIN twins' = Twinned /\ Twinned \subseteq 1..n
      /\ \A i \in Twinned : twins'[i] \in (n + 1)..(n + c)
      /\ \A i \in 1..n : types'[i].form = FormOf(i, twins')
      /\ \A i \in (n + 1)..(n + c) : types'[i].form.mode = "Lenient"
    BY TwinRunForms
<1>3. \A i, j \in Twinned : twins'[i] = twins'[j] => i = j
    <2> SUFFICES ASSUME NEW i \in Twinned, NEW j \in Twinned, twins'[i] = twins'[j]
                 PROVE  i = j
        OBVIOUS
    <2>1. twins'[i] = n + Rank(Twinned, i) /\ twins'[j] = n + Rank(Twinned, j)
        BY DEF TwinRun
    <2>2. n \in Nat /\ Twinned \in SUBSET (1..n) /\ i \in Nat /\ j \in Nat
        BY <1>2
    <2>3. PartOf(Twinned, n)
        BY <2>2 DEF PartOf
    <2>4. Rank(Twinned, i) \in Nat /\ Rank(Twinned, j) \in Nat
        BY <2>2, RankNatural
    <2>5. Rank(Twinned, i) = Rank(Twinned, j)
        <3> HIDE DEF n
        <3> DEFINE a == Rank(Twinned, i)
                   b == Rank(Twinned, j)
        <3>1. n \in Nat /\ a \in Nat /\ b \in Nat /\ n + a = n + b
            BY <2>1, <2>2, <2>4
        <3> HIDE DEF a, b
        <3>2. a = b
            BY <3>1
        <3> QED
            BY <3>2 DEF a, b
    <2> QED
        BY <2>3, <2>5, RankInjective
<1>4. \A k \in DOMAIN types' : \E h \in DOMAIN types : MadeOf(k, h)
    BY TwinRunMakes
<1>5. \A i \in 1..n : Fits(types[i], n)
    BY DEF Sound, Table
<1> HIDE DEF n, c
<1>6. ASSUME NEW k \in DOMAIN types'
      PROVE  /\ IsTwin(types'[k]) <=> ~(k \in 1..n)
             /\ k \notin 1..n => types'[k].form.half \in Twinned
                                 /\ twins'[types'[k].form.half] = k
             /\ MadeOf(k, IF k \in 1..n THEN k ELSE types'[k].form.half)
    <2>1. PICK h \in DOMAIN types : MadeOf(k, h)
        BY <1>4
    <2>2. k \in 1..n <=> k <= n
        BY <1>2
    <2>3. CASE k \in 1..n
        <3>1. h = k /\ types'[k].form = FormOf(k, twins')
            BY <2>1, <2>2, <2>3 DEF MadeOf, n
        <3>2. ~IsTwin(types'[k])
            BY <3>1 DEF IsTwin, IsLenient, FormOf
        <3> QED
            BY <2>1, <2>3, <3>1, <3>2
    <2>4. CASE k \notin 1..n
        <3>1. /\ h \in Twinned /\ k = twins'[h]
              /\ types'[k].form = [mode |-> "Lenient", half |-> h]
            BY <2>1, <2>2, <2>4 DEF MadeOf, n
        <3>2. types'[k].form.half = h /\ h # 0
            BY <1>2, <3>1
        <3>3. IsTwin(types'[k])
            BY <3>1, <3>2 DEF IsTwin, IsLenient
        <3> QED
            BY <2>1, <2>4, <3>1, <3>2, <3>3
    <2> QED
        BY <2>3, <2>4
<1>7. 1..n \subseteq DOMAIN types'
    BY <1>2
\* What is shared travels both ways and does not differ, nor does what it holds.
<1>8. ASSUME NEW i \in 1..n, i \in reach["request"], i \in reach["response"],
             NEW y, Steps(types[i], y)
      PROVE  /\ y \in 1..n /\ y \in reach["request"] /\ y \in reach["response"]
             /\ y \notin Twinned => types'[y].form.mode = "Shared"
             /\ i \notin Twinned => y \notin Twinned
    <2>1. input.lenient
        BY <1>1 DEF Mirroring
    <2>2. \A d \in Direction : Traced(d) /\ queue[d] = {}
        BY <1>1, <2>1 DEF Tracing, Sound, Staged
    <2>3. Holds(types[i]) \subseteq reach["request"] /\ Holds(types[i]) \subseteq reach["response"]
        BY <1>8, <2>2 DEF Traced, Direction
    <2>4. y \in Holds(types[i]) /\ Holds(types[i]) \subseteq 1..n
        BY <1>5, <1>8, StepsHold, FitsHolds
    <2>5. y \notin Twinned => types'[y].form.mode = "Shared"
        <3>1. /\ y \in 1..n /\ y \in reach["request"] /\ y \in reach["response"]
              /\ types'[y].form = FormOf(y, twins')
            BY <1>2, <2>3, <2>4
        <3> QED
            BY <1>2, <3>1 DEF FormOf
    <2>6. i \notin Twinned => y \notin Twinned
        <3>1. i \notin Twinned => i \notin differing
            BY <1>8 DEF Twinned
        <3>2. i \notin differing => Holds(types[i]) \cap differing = {}
            BY <1>1, <1>2 DEF DiffersThrough
        <3> QED
            BY <2>4, <3>1, <3>2 DEF Twinned
    <2> QED
        BY <2>3, <2>4, <2>5, <2>6
<1>9. ASSUME NEW i \in DOMAIN types', NEW j \in DOMAIN types',
             types'[i].origin = types'[j].origin
      PROVE  \/ i = j
             \/ IsTwin(types'[i]) /\ types'[i].form.half = j
             \/ IsTwin(types'[j]) /\ types'[j].form.half = i
    <2> DEFINE a == IF i \in 1..n THEN i ELSE types'[i].form.half
               b == IF j \in 1..n THEN j ELSE types'[j].form.half
    <2>1. MadeOf(i, a) /\ MadeOf(j, b)
        BY <1>6
    <2>2. a \in 1..n /\ b \in 1..n
        BY <1>2, <1>6
    <2>3. types[a].origin = types[b].origin
        BY <1>9, <2>1 DEF MadeOf
    <2>4. a = b
        BY <1>1, <1>2, <2>2, <2>3 DEF Mirroring, Untwinned
    <2> QED
        BY <1>6, <2>4
<1>10. ASSUME NEW i \in DOMAIN types', IsTwin(types'[i])
       PROVE  LET h == types'[i].form.half
              IN  /\ h \in DOMAIN types' /\ ~IsTwin(types'[h])
                  /\ types'[h].origin = types'[i].origin
                  /\ \A j \in DOMAIN types' : <<i, j>> \in ForwardEdges(types') =>
                        \/ types'[j].form.mode = "Shared"
                        \/ IsTwin(types'[j]) /\ <<h, types'[j].form.half>> \in ForwardEdges(types')
    <2> DEFINE h == types'[i].form.half
    <2>1. i \notin 1..n /\ h \in Twinned /\ twins'[h] = i /\ MadeOf(i, h)
        BY <1>6, <1>10
    <2> HIDE DEF h
    <2>2. h \in 1..n /\ h \in DOMAIN types' /\ MadeOf(h, h) /\ ~IsTwin(types'[h])
        BY <1>2, <1>6, <1>7, <2>1
    <2>3. types'[h].origin = types'[i].origin
        BY <2>1, <2>2 DEF MadeOf
    <2>4. h \in reach["request"] /\ h \in reach["response"]
        BY <2>1 DEF Twinned
    <2>5. ASSUME NEW j \in DOMAIN types', <<i, j>> \in ForwardEdges(types')
          PROVE  \/ types'[j].form.mode = "Shared"
                 \/ IsTwin(types'[j]) /\ <<h, types'[j].form.half>> \in ForwardEdges(types')
        <3>1. Steps(types'[i], j)
            BY <2>5, ForwardEdge DEF Steps
        <3>2. PICK y : /\ Steps(types[h], y)
                       /\ j = IF IsLenient(types'[i]) /\ y \in Twinned THEN twins'[y] ELSE y
            BY <2>1, <3>1 DEF MadeOf
        <3>3. /\ y \in 1..n /\ (y \notin Twinned => types'[y].form.mode = "Shared")
            BY <1>8, <2>2, <2>4, <3>2
        <3>4. CASE y \notin Twinned
            BY <3>2, <3>3, <3>4
        <3>5. CASE y \in Twinned
            <4>1. j = twins'[y]
                BY <1>10, <3>2, <3>5 DEF IsTwin
            <4>2. j \notin 1..n
                BY <1>2, <3>5, <4>1
            <4>3. types'[j].form.half = y /\ IsTwin(types'[j])
                BY <1>3, <1>6, <3>5, <4>1, <4>2
            <4>4. ~IsLenient(types'[h])
                <5>1. types'[h].form = FormOf(h, twins')
                    BY <1>2, <2>2
                <5>2. FormOf(h, twins').mode = "Strict"
                    BY <1>2, <2>1, <2>4 DEF FormOf
                <5> QED
                    BY <5>1, <5>2 DEF IsLenient
            <4>5. Steps(types'[h], y)
                BY <2>2, <3>2, <4>4 DEF MadeOf
            <4>6. y \in DOMAIN types'
                BY <1>7, <3>3
            <4>7. <<h, y>> \in ForwardEdges(types')
                BY <2>2, <4>5, <4>6, ForwardEdge DEF Steps
            <4> QED
                BY <4>3, <4>7
        <3> QED
            BY <3>4, <3>5
    <2> QED
        BY <2>2, <2>3, <2>5 DEF h
<1>11. ASSUME NEW i \in DOMAIN types', NEW j \in DOMAIN types',
              types'[i].form.mode = "Shared", <<i, j>> \in ForwardEdges(types')
       PROVE  types'[j].form.mode = "Shared"
    <2>1. ~IsLenient(types'[i])
        BY <1>11 DEF IsLenient
    <2>2. i \in 1..n /\ MadeOf(i, i)
        <3>1. ~IsTwin(types'[i])
            BY <2>1 DEF IsTwin
        <3> QED
            BY <1>6, <3>1
    <2>3. i \in reach["request"] /\ i \in reach["response"] /\ i \notin Twinned
        <3>1. FormOf(i, twins').mode = "Shared"
            BY <1>2, <1>11, <2>2
        <3> QED
            BY <1>2, <3>1 DEF FormOf
    <2>4. Steps(types'[i], j)
        BY <1>11, ForwardEdge DEF Steps
    <2>5. Steps(types[i], j)
        BY <2>1, <2>2, <2>4 DEF MadeOf
    <2> QED
        BY <1>8, <2>2, <2>3, <2>5
<1> QED
    BY <1>9, <1>10, <1>11 DEF Mirrored

(* A path from a twin is one from its strict half, or ends in what is shared. *)
LEMMA ReadPaths ==
    ASSUME NEW ts, NEW n \in Nat, DOMAIN ts = 1..n, Mirrored(ts),
           NEW i, NEW j, <<i, j>> \in Paths(n, ForwardEdges(ts))
    PROVE  /\ i \in 1..n /\ j \in 1..n
           /\ IsTwin(ts[i]) =>
                \/ ts[j].form.mode = "Shared"
                \/ /\ IsTwin(ts[j])
                   /\ <<ts[i].form.half, ts[j].form.half>> \in Paths(n, ForwardEdges(ts))
           /\ ts[i].form.mode = "Shared" => ts[j].form.mode = "Shared"
<1> DEFINE E == ForwardEdges(ts)
           P == Paths(n, E)
           Shared(x) == ts[x].form.mode = "Shared"
           Mirrors(x, y) ==
              /\ IsTwin(ts[x]) =>
                    Shared(y) \/ (IsTwin(ts[y]) /\ <<ts[x].form.half, ts[y].form.half>> \in P)
              /\ Shared(x) => Shared(y)
           R == {p \in (1..n) \X (1..n) : Mirrors(p[1], p[2])}
<1>1. E \in SUBSET ((1..n) \X (1..n))
    BY EdgePairs
<1>2. E \subseteq P
    BY EdgesArePaths
<1>3. \A x, y, z : <<x, z>> \in P /\ <<z, y>> \in P => <<x, y>> \in P
    <2> HIDE DEF E
    <2> QED
        BY <1>1, PathsJoin
<1>4. ASSUME NEW x \in 1..n, NEW y \in 1..n, <<x, y>> \in E PROVE Mirrors(x, y)
    <2>1. IsTwin(ts[x]) => Shared(y) \/ (IsTwin(ts[y]) /\ <<ts[x].form.half, ts[y].form.half>> \in E)
        BY <1>4 DEF Mirrored
    <2>2. Shared(x) => Shared(y)
        BY <1>4 DEF Mirrored
    <2> HIDE DEF E, P
    <2> QED
        BY <1>2, <2>1, <2>2
<1> HIDE DEF E, P
<1>5. ASSUME NEW x, NEW y, NEW z, Mirrors(x, z), Mirrors(z, y) PROVE Mirrors(x, y)
    BY <1>3, <1>5
<1> HIDE DEF Mirrors
<1>6. \A x, y : <<x, y>> \in R <=> x \in 1..n /\ y \in 1..n /\ Mirrors(x, y)
    OBVIOUS
<1> HIDE DEF R
<1>7. E \subseteq R
    <2>1. \A p \in E : p = <<p[1], p[2]>>
        BY <1>1
    <2>2. ASSUME NEW x, NEW y, <<x, y>> \in E PROVE <<x, y>> \in R
        BY <1>1, <1>4, <1>6, <2>2
    <2> QED
        BY <2>1, <2>2, PairsWithin
<1>8. \A x, y, z : <<x, z>> \in R /\ <<z, y>> \in R => <<x, y>> \in R
    BY <1>5, <1>6
<1>9. Paths(n, E) \subseteq R
    BY <1>7, <1>8, PathsLeast
<1>10. <<i, j>> \in R
    BY <1>9 DEF E
<1>11. i \in 1..n /\ j \in 1..n /\ Mirrors(i, j)
    BY <1>6, <1>10
<1> QED
    BY <1>11 DEF Mirrors, E, P

(* One report names each type on a cycle, by the strict halves.             *)
LEMMA NormalizeReports ==
    ASSUME Sound, Mirrored(types), Normalize,
           NEW i \in DOMAIN types, Recursive(Paths(Len(types), ForwardEdges(types)), i)
    PROVE  Cardinality({r \in reports' : \E j \in r.cycle :
                            types[j].origin = types[i].origin}) = 1
<1> DEFINE n == Len(types)
           E == ForwardEdges(types)
           P == Paths(n, E)
           Cycle(x) == {j \in DOMAIN types : Together(P, x, j)}
           Found(x) == [cycle |-> Cycle(x), kind |-> KindOfCycle(Cycle(x))]
           found == {r \in reports' : \E j \in r.cycle : types[j].origin = types[i].origin}
<1>1. n \in Nat /\ DOMAIN types = 1..n
    BY DEF Sound, Table
<1>2. E \in SUBSET ((1..n) \X (1..n))
    BY <1>1, EdgePairs
<1>3. \A x : x \in Replaying(types) <=> x \in DOMAIN types /\ <<x, x>> \in P
    BY DEF Replaying, Recursive
<1>4. \A r : r \in reports' <=> \E x \in Replaying(types) : Reported(Cycle(x)) /\ r = Found(x)
    BY DEF Normalize
<1>5. \A x, y, z : <<x, z>> \in P /\ <<z, y>> \in P => <<x, y>> \in P
    <2> HIDE DEF E, n
    <2> QED
        BY <1>1, <1>2, PathsJoin
<1>6. \A x, y : <<x, y>> \in P =>
          /\ x \in 1..n /\ y \in 1..n
          /\ IsTwin(types[x]) =>
                \/ types[y].form.mode = "Shared"
                \/ IsTwin(types[y]) /\ <<types[x].form.half, types[y].form.half>> \in P
          /\ types[x].form.mode = "Shared" => types[y].form.mode = "Shared"
    <2> HIDE DEF n
    <2> QED
        BY <1>1, ReadPaths
<1>7. \A x : IsTwin(types[x]) => types[x].form.mode # "Shared"
    BY DEF IsTwin, IsLenient
<1>8. <<i, i>> \in P
    BY DEF Recursive
<1> HIDE DEF P
<1>9. \A x, y : y \in Cycle(x) <=> y \in DOMAIN types /\ <<x, y>> \in P /\ <<y, x>> \in P
    BY DEF Together
<1>10. ASSUME NEW x, NEW y, y \in Cycle(x) PROVE Cycle(x) = Cycle(y)
    BY <1>5, <1>9, <1>10
<1> HIDE DEF Cycle
\* A cycle a twin is on is all twins.
<1>11. ASSUME NEW x, IsTwin(types[x]) PROVE ~Reported(Cycle(x))
    BY <1>6, <1>7, <1>9, <1>11 DEF Reported
<1> DEFINE s == IF IsTwin(types[i]) THEN types[i].form.half ELSE i
<1>12. /\ s \in DOMAIN types /\ ~IsTwin(types[s]) /\ types[s].origin = types[i].origin
       /\ <<s, s>> \in P
    <2>1. CASE IsTwin(types[i])
        <3>1. types[i].form.mode # "Shared" /\ <<s, s>> \in P
            BY <1>6, <1>7, <1>8, <2>1
        <3>2. s \in DOMAIN types /\ ~IsTwin(types[s]) /\ types[s].origin = types[i].origin
            BY <2>1 DEF Mirrored
        <3> QED
            BY <3>1, <3>2
    <2>2. CASE ~IsTwin(types[i])
        BY <1>8, <2>2
    <2> QED
        BY <2>1, <2>2
<1> HIDE DEF s
<1>13. s \in Cycle(s) /\ Reported(Cycle(s)) /\ s \in Replaying(types)
    BY <1>3, <1>9, <1>12 DEF Reported
<1>14. Found(s) \in found
    <2>1. Found(s) \in reports'
        BY <1>4, <1>13
    <2>2. Found(s).cycle = Cycle(s)
        OBVIOUS
    <2> HIDE DEF Found
    <2> QED
        BY <1>12, <1>13, <2>1, <2>2
<1>15. ASSUME NEW r \in found PROVE r = Found(s)
    <2>1. PICK x \in Replaying(types) : Reported(Cycle(x)) /\ r = Found(x)
        BY <1>4
    <2>2. r.cycle = Cycle(x)
        BY <2>1
    <2>3. PICK j \in Cycle(x) : types[j].origin = types[i].origin
        BY <2>2
    <2>4. Cycle(x) = Cycle(j) /\ j \in DOMAIN types
        BY <1>9, <1>10
    <2>5. ~IsTwin(types[j])
        BY <1>11, <2>1, <2>4
    <2>6. j = s
        BY <1>12, <2>3, <2>4, <2>5 DEF Mirrored
    <2> QED
        BY <2>1, <2>4, <2>6
<1> HIDE DEF found, Found
<1>16. found = {Found(s)}
    BY <1>14, <1>15
<1>17. Cardinality(found) = 1
    BY <1>16, FS_Singleton
<1> QED
    BY <1>17 DEF found

(* Every step keeps track of the forms.                                     *)
LEMMA NextMirrors ==
    ASSUME Sound, Directed, Mirroring, [Next]_vars PROVE Mirroring'
<1>1. CASE DedupRound
    BY <1>1, DedupRoundUntwinned DEF DedupRound, Mirroring
<1>2. CASE DedupEnd \/ ReachEnd \/ \E d \in Direction : ReachStep(d)
    BY <1>2 DEF DedupEnd, ReachEnd, ReachStep, Mirroring
<1>3. CASE UnitRun
    <2>1. Untwinned(types')
        BY <1>3, UnitRunUntwinned DEF UnitRun, Mirroring
    <2>2. Mirrored(types')
        BY <2>1, UntwinnedMirrors
    <2>3. (phase' = "twin" => input'.lenient) /\ phase' \in {"twin", "normalize"}
        BY <1>3 DEF UnitRun
    <2> QED
        BY <2>1, <2>2, <2>3 DEF Mirroring
<1>4. CASE DiffersRound
    BY <1>4 DEF DiffersRound, Mirroring
<1>5. CASE TwinRun
    <2>1. Mirrored(types')
        BY <1>5, TwinRunMirrors DEF Directed
    <2>2. phase' = "normalize"
        BY <1>5 DEF TwinRun
    <2> QED
        BY <2>1, <2>2 DEF Mirroring
<1>6. CASE Finalizing
    <2>1. phase' \notin {"dedup", "reach", "unit", "twin", "normalize"}
        BY <1>6 DEF Finalizing, Normalize, Promote, BoxRound, BoxEnd, Reopen, DeriveRound,
           Freeze
    <2> QED
        BY <2>1 DEF Mirroring
<1>7. CASE UNCHANGED vars
    BY <1>7 DEF vars, Mirroring
<1> QED
    BY <1>1, <1>2, <1>3, <1>4, <1>5, <1>6, <1>7 DEF Next, Tabling, Finished

(* The forms, always.                                                       *)
THEOREM AlwaysMirrored == Spec => []Mirroring
<1>1. Init => Mirroring
    <2> SUFFICES ASSUME Init PROVE Mirroring
        OBVIOUS
    <2>1. /\ phase = "dedup" /\ types = input.types /\ WellFormed(input)
        BY InputsAssumption DEF Init
    <2>2. DOMAIN input.types = 1..Len(input.types)
        BY <2>1 DEF WellFormed
    <2> QED
        BY <2>1, <2>2 DEF Mirroring, Untwinned, WellFormed
<1>2. Sound /\ Directed /\ Mirroring /\ [Next]_vars => Mirroring'
    BY NextMirrors
<1> QED
    BY <1>1, <1>2, AlwaysSound, AlwaysDirected, PTL DEF Spec

(* Every type a decoder could go round without consuming input is named by  *)
(* exactly one report, at its strict half when it has one: two reports      *)
(* never share a type, and a cycle of read forms is the cycle of their      *)
(* strict halves, reported once (cycle::normalize).                         *)
THEOREM CyclesNamedOnce == Spec => CyclesReportedOnce
<1> DEFINE Once == phase = "normalize" =>
        \A i \in DOMAIN types :
            Recursive(Paths(Len(types), ForwardEdges(types)), i) =>
                Cardinality({r \in reports' : \E j \in r.cycle :
                    types[j].origin = types[i].origin}) = 1
<1>1. Sound /\ Mirroring /\ [Next]_vars => [Once]_vars
    <2> SUFFICES ASSUME Sound, Mirroring, Next, phase = "normalize", NEW i \in DOMAIN types,
                        Recursive(Paths(Len(types), ForwardEdges(types)), i),
                        ~UNCHANGED vars
                 PROVE  Cardinality({r \in reports' : \E j \in r.cycle :
                            types[j].origin = types[i].origin}) = 1
        OBVIOUS
    <2>1. Normalize
        BY DEF Next, Tabling, Finalizing, Finished, DedupRound, DedupEnd, ReachStep, ReachEnd,
           UnitRun, DiffersRound, TwinRun, Promote, BoxRound, BoxEnd, Reopen, DeriveRound, Freeze
    <2>2. Mirrored(types)
        BY DEF Mirroring
    <2> QED
        BY <2>1, <2>2, NormalizeReports
<1> QED
    BY <1>1, AlwaysSound, AlwaysMirrored, PTL DEF Spec, CyclesReportedOnce

-----------------------------------------------------------------------------
(* The halves of a pair.                                                    *)

\* A member the read form opens.
Opens(c, k) ==
    /\ c.kind = "Struct"
    /\ c.members[k].presence = "Required" /\ c.members[k].capture = "None"

\* What a reference is in the read form.
ReadAs(open, ref, tw) ==
    IF open THEN Wrapped("Option", Remap(ref, tw)) ELSE Remap(ref, tw)

\* The member of a read form is the one of the strict form, read.
Alike(c, d, k, tw) == d.members[k].ty = ReadAs(Opens(c, k), c.members[k].ty, tw)

\* Two contracts with the same members, but for what the second captures besides.
Facing(c, d) ==
    /\ d.kind = c.kind
    /\ Len(d.members) \in Len(c.members)..(Len(c.members) + 1)
    /\ Len(d.members) = Len(c.members) + 1 => d.members[Len(c.members) + 1] = CaptureMember
    /\ \A k \in 1..Len(c.members) : /\ d.members[k].presence = c.members[k].presence
                                    /\ d.members[k].capture = c.members[k].capture

\* The pairs of a table.
Paired(ts, tw) ==
    \A i \in DOMAIN tw :
        /\ i \in DOMAIN ts /\ tw[i] \in DOMAIN ts /\ i < tw[i]
        /\ ts[i].form = [mode |-> "Strict", half |-> tw[i]]
        /\ ts[tw[i]].form = [mode |-> "Lenient", half |-> i]
        /\ ts[tw[i]].origin = ts[i].origin
        /\ Facing(ts[i], ts[tw[i]])

\* No two types have one name but the halves of a pair.
Apart(ts, tw) ==
    \A i, j \in DOMAIN ts : ts[i].origin = ts[j].origin =>
        i = j \/ (i \in DOMAIN tw /\ j = tw[i]) \/ (j \in DOMAIN tw /\ i = tw[j])

IsShared(ts, x) == x \in DOMAIN ts /\ ts[x].form.mode = "Shared"

\* A half holds halves of its own form, or what both forms share.
Company(ts, tw) ==
    /\ \A i \in DOMAIN tw : \A y \in Holds(ts[i]) : y \in DOMAIN tw \/ IsShared(ts, y)
    /\ \A i \in DOMAIN tw : \A y \in Holds(ts[tw[i]]) :
          (\E j \in DOMAIN tw : y = tw[j]) \/ IsShared(ts, y)
    /\ \A x \in DOMAIN ts : IsShared(ts, x) => \A y \in Holds(ts[x]) : IsShared(ts, y)

Halved(ts, tw) == Paired(ts, tw) /\ Apart(ts, tw) /\ Company(ts, tw)

\* Every member of a pair's twin is the strict half's, read.
Converted(ts, tw) ==
    \A i \in DOMAIN tw : \A k \in 1..Len(ts[i].members) : Alike(ts[i], ts[tw[i]], k, tw)

\* A reference with a Box right around the name.
Boxed(ref) == [ref EXCEPT !.wraps = Append(ref.wraps, "Box")]

(* What a reference is in the read form names the other half, as directly.  *)
LEMMA ReadAsNames ==
    ASSUME NEW ref \in TypeRef, NEW tw, \A i \in DOMAIN tw : tw[i] \in Nat, NEW open
    PROVE  LET r == ReadAs(open, ref, tw)
           IN  /\ r \in TypeRef /\ r.leaf = ref.leaf
               /\ r.to = IF ref.leaf = "Named" /\ ref.to \in DOMAIN tw
                         THEN tw[ref.to] ELSE ref.to
               /\ Direct(r) <=> Direct(ref)
               /\ Forwards(r) <=> Forwards(ref)
               /\ ~open => r.wraps = ref.wraps /\ r = Remap(ref, tw)
<1> DEFINE p == Remap(ref, tw)
           r == ReadAs(open, ref, tw)
<1>1. /\ p \in TypeRef /\ p.leaf = ref.leaf /\ p.wraps = ref.wraps
      /\ p.to = IF ref.leaf = "Named" /\ ref.to \in DOMAIN tw THEN tw[ref.to] ELSE ref.to
    BY DEF Remap, TypeRef
<1>2. (Direct(p) <=> Direct(ref)) /\ (Forwards(p) <=> Forwards(ref))
    BY <1>1 DEF Direct, Forwards
<1>3. r = IF open THEN Wrapped("Option", p) ELSE p
    BY DEF ReadAs
<1> HIDE DEF p, r
<1>4. CASE open
    <2>1. /\ Wrapped("Option", p) \in TypeRef
          /\ SameName(p, Wrapped("Option", p))
          /\ Direct(Wrapped("Option", p)) <=> Direct(p)
        BY <1>1, OptionSameName, OpenedRef
    <2> QED
        BY <1>1, <1>2, <1>3, <1>4, <2>1 DEF r, SameName
<1>5. CASE ~open
    BY <1>1, <1>2, <1>3, <1>5 DEF r, p
<1> QED
    BY <1>4, <1>5

(* Boxing commutes with reading.                                            *)
LEMMA ReadAsBoxed ==
    ASSUME NEW ref \in TypeRef, NEW tw, \A i \in DOMAIN tw : tw[i] \in Nat, NEW open
    PROVE  ReadAs(open, Boxed(ref), tw) = Boxed(ReadAs(open, ref, tw))
<1> DEFINE b == Boxed(ref)
           p == Remap(ref, tw)
           ws == Append(ref.wraps, "Box")
<1>1. /\ b \in TypeRef /\ b.wraps = ws /\ b.leaf = ref.leaf /\ b.to = ref.to
      /\ ref.wraps \in Seq(Wrap) /\ ws \in Seq(Wrap)
    BY BoxedSameName DEF SameName, Boxed, TypeRef
<1>2. p \in TypeRef /\ p.wraps = ref.wraps
    BY DEF Remap, TypeRef
<1>3. Remap(b, tw) = Boxed(p)
    BY <1>1 DEF Remap, Boxed, TypeRef
<1>4. Wrapped("Option", Boxed(p)) = Boxed(Wrapped("Option", p))
    <2> DEFINE vs == <<"Option">> \o ref.wraps
               us == <<"Option">> \o ws
    <2>1. us = Append(vs, "Box")
        BY <1>1
    <2>2. Wrapped("Option", Boxed(p)) = [p EXCEPT !.wraps = us]
        BY <1>2 DEF Wrapped, Boxed, TypeRef
    <2>3. Boxed(Wrapped("Option", p)) = [p EXCEPT !.wraps = Append(vs, "Box")]
        BY <1>2 DEF Wrapped, Boxed, TypeRef
    <2> QED
        BY <2>1, <2>2, <2>3
<1> HIDE DEF b
<1> QED
    BY <1>3, <1>4 DEF ReadAs, b

\* Every edge embeds into another set of edges, unless it leads to what is
\* shared.
Embeds(E, F, Own, Common, h) ==
    \A x, y : <<x, y>> \in E =>
        /\ x \in Own => y \in Common \/ (y \in Own /\ <<h[x], h[y]>> \in F)
        /\ x \in Common => y \in Common

(* Then so is every path.                                                   *)
LEMMA PathsEmbed ==
    ASSUME NEW n \in Nat, NEW E \in SUBSET ((1..n) \X (1..n)),
           NEW F \in SUBSET ((1..n) \X (1..n)), NEW Own, NEW Common, NEW h,
           Embeds(E, F, Own, Common, h),
           NEW i, NEW j, <<i, j>> \in Paths(n, E)
    PROVE  /\ i \in 1..n /\ j \in 1..n
           /\ i \in Own => j \in Common \/ (j \in Own /\ <<h[i], h[j]>> \in Paths(n, F))
           /\ i \in Common => j \in Common
<1> DEFINE P == Paths(n, F)
           Carried(x, y) ==
              /\ x \in Own => y \in Common \/ (y \in Own /\ <<h[x], h[y]>> \in P)
              /\ x \in Common => y \in Common
           R == {p \in (1..n) \X (1..n) : Carried(p[1], p[2])}
<1>1. F \subseteq P
    BY EdgesArePaths
<1>2. \A x, y, z : <<x, z>> \in P /\ <<z, y>> \in P => <<x, y>> \in P
    BY PathsJoin
<1> HIDE DEF P
<1>3. ASSUME NEW x, NEW y, NEW z, Carried(x, z), Carried(z, y) PROVE Carried(x, y)
    BY <1>2, <1>3
<1>4. \A x, y : <<x, y>> \in E => Carried(x, y)
    BY <1>1 DEF Embeds
<1> HIDE DEF Carried
<1>5. \A x, y : <<x, y>> \in R <=> x \in 1..n /\ y \in 1..n /\ Carried(x, y)
    OBVIOUS
<1> HIDE DEF R
<1>6. E \subseteq R
    <2>1. \A p \in E : p = <<p[1], p[2]>> /\ p[1] \in 1..n /\ p[2] \in 1..n
        OBVIOUS
    <2>2. \A x, y : <<x, y>> \in E => <<x, y>> \in R
        BY <1>4, <1>5
    <2> QED
        BY <2>1, <2>2, PairsWithin
<1>7. \A x, y, z : <<x, z>> \in R /\ <<z, y>> \in R => <<x, y>> \in R
    BY <1>3, <1>5
<1>8. <<i, j>> \in R
    BY <1>6, <1>7, PathsLeast
<1> QED
    BY <1>5, <1>8 DEF Carried, P

-----------------------------------------------------------------------------
(* The two halves' edges.                                                   *)

\* Edges of a strict half are its twin's, but for what both share.
Forth(ts, tw, E) ==
    /\ \A i \in DOMAIN tw : \A y : <<i, y>> \in E =>
          IsShared(ts, y) \/ (y \in DOMAIN tw /\ <<tw[i], tw[y]>> \in E)
    /\ \A x, y : IsShared(ts, x) /\ <<x, y>> \in E => IsShared(ts, y)

\* Edges of a twin are its strict half's.
Back(ts, tw, E) ==
    /\ \A i \in DOMAIN tw : \A z : <<tw[i], z>> \in E =>
          IsShared(ts, z) \/ \E y \in DOMAIN tw : z = tw[y] /\ <<i, y>> \in E
    /\ \A x, y : IsShared(ts, x) /\ <<x, y>> \in E => IsShared(ts, y)

(* The halves of pairs are apart from each other and from what is shared.   *)
LEMMA PairsApart ==
    ASSUME NEW ts, NEW tw, Paired(ts, tw)
    PROVE  /\ \A i, j \in DOMAIN tw : tw[i] = tw[j] => i = j
           /\ \A i, j \in DOMAIN tw : i # tw[j]
           /\ \A i \in DOMAIN tw : ~IsShared(ts, i) /\ ~IsShared(ts, tw[i])
<1>1. ASSUME NEW i \in DOMAIN tw
      PROVE  /\ ts[i].form.mode = "Strict"
             /\ ts[tw[i]].form.mode = "Lenient" /\ ts[tw[i]].form.half = i
    <2>1. /\ ts[i].form = [mode |-> "Strict", half |-> tw[i]]
          /\ ts[tw[i]].form = [mode |-> "Lenient", half |-> i]
        BY DEF Paired
    <2> QED
        BY <2>1
<1> QED
    BY <1>1 DEF IsShared

(* A path out of a strict half is its twin's.                               *)
LEMMA PathsForth ==
    ASSUME NEW ts, NEW n \in Nat, DOMAIN ts = 1..n, NEW tw, Paired(ts, tw),
           NEW E \in SUBSET ((1..n) \X (1..n)), Forth(ts, tw, E),
           NEW i, NEW j, <<i, j>> \in Paths(n, E)
    PROVE  /\ i \in DOMAIN tw =>
                 IsShared(ts, j) \/ (j \in DOMAIN tw /\ <<tw[i], tw[j]>> \in Paths(n, E))
           /\ IsShared(ts, i) => IsShared(ts, j)
<1> DEFINE Common == {x \in 1..n : IsShared(ts, x)}
<1>1. \A x : x \in Common <=> IsShared(ts, x)
    BY DEF IsShared
<1> HIDE DEF Common
<1>2. Embeds(E, E, DOMAIN tw, Common, tw)
    BY <1>1 DEF Forth, Embeds
<1>3. /\ i \in DOMAIN tw =>
            j \in Common \/ (j \in DOMAIN tw /\ <<tw[i], tw[j]>> \in Paths(n, E))
      /\ i \in Common => j \in Common
    BY <1>2, PathsEmbed
<1> QED
    BY <1>1, <1>3

(* A path out of a twin is its strict half's.                               *)
LEMMA PathsBack ==
    ASSUME NEW ts, NEW n \in Nat, DOMAIN ts = 1..n, NEW tw, Paired(ts, tw),
           NEW E \in SUBSET ((1..n) \X (1..n)), Back(ts, tw, E),
           NEW i \in DOMAIN tw, NEW z, NEW from, from = tw[i], <<from, z>> \in Paths(n, E)
    PROVE  IsShared(ts, z) \/ \E y \in DOMAIN tw : z = tw[y] /\ <<i, y>> \in Paths(n, E)
<1> DEFINE Common == {x \in 1..n : IsShared(ts, x)}
           Own == {tw[x] : x \in DOMAIN tw}
           h == [x \in 1..n |-> ts[x].form.half]
<1>1. \A x : x \in Common <=> IsShared(ts, x)
    BY DEF IsShared
<1>2. ASSUME NEW x \in DOMAIN tw PROVE tw[x] \in Own /\ h[tw[x]] = x
    <2>1. ts[tw[x]].form = [mode |-> "Lenient", half |-> x] /\ tw[x] \in 1..n
        BY DEF Paired
    <2> QED
        BY <2>1
<1>3. \A x \in Own : \E y \in DOMAIN tw : x = tw[y]
    OBVIOUS
<1> HIDE DEF Common, Own, h
<1>4. ASSUME NEW x, NEW y, <<x, y>> \in E
      PROVE  /\ x \in Own => y \in Common \/ (y \in Own /\ <<h[x], h[y]>> \in E)
             /\ x \in Common => y \in Common
    <2>1. x \in Common => y \in Common
        BY <1>1, <1>4 DEF Back
    <2>2. ASSUME x \in Own PROVE y \in Common \/ (y \in Own /\ <<h[x], h[y]>> \in E)
        <3>1. PICK v \in DOMAIN tw : x = tw[v]
            BY <1>3, <2>2
        <3>2. IsShared(ts, y) \/ \E w \in DOMAIN tw : y = tw[w] /\ <<v, w>> \in E
            BY <1>4, <3>1 DEF Back
        <3> QED
            BY <1>1, <1>2, <3>1, <3>2
    <2> QED
        BY <2>1, <2>2
<1>5. from \in Own => z \in Common \/ (z \in Own /\ <<h[from], h[z]>> \in Paths(n, E))
    <2>1. Embeds(E, E, Own, Common, h)
        BY <1>4 DEF Embeds
    <2> QED
        BY <2>1, PathsEmbed
<1>6. CASE z \in Common
    BY <1>1, <1>6
<1>7. CASE z \in Own /\ <<h[from], h[z]>> \in Paths(n, E)
    <2>1. PICK y \in DOMAIN tw : z = tw[y]
        BY <1>3, <1>7
    <2> QED
        BY <1>2, <1>7, <2>1
<1> QED
    BY <1>2, <1>5, <1>6, <1>7

(* Two strict halves are on one cycle where their twins are, and the cycle  *)
(* of the one half is that of the other.                                    *)
LEMMA PairsTogether ==
    ASSUME NEW ts, NEW n \in Nat, DOMAIN ts = 1..n, NEW tw, Paired(ts, tw),
           NEW E \in SUBSET ((1..n) \X (1..n)), Forth(ts, tw, E), Back(ts, tw, E),
           NEW i \in DOMAIN tw
    PROVE  LET P == Paths(n, E)
           IN  /\ \A y : Together(P, i, y) => y \in DOMAIN tw /\ Together(P, tw[i], tw[y])
               /\ \A z : Together(P, tw[i], z) =>
                     \E y \in DOMAIN tw : z = tw[y] /\ Together(P, i, y)
               /\ Recursive(P, i) <=> Recursive(P, tw[i])
<1> DEFINE P == Paths(n, E)
<1>1. /\ \A v, w \in DOMAIN tw : tw[v] = tw[w] => v = w
      /\ \A v \in DOMAIN tw : ~IsShared(ts, v) /\ ~IsShared(ts, tw[v])
    BY PairsApart
<1>2. ASSUME NEW x, NEW y, <<x, y>> \in P
      PROVE  /\ x \in DOMAIN tw =>
                   IsShared(ts, y) \/ (y \in DOMAIN tw /\ <<tw[x], tw[y]>> \in P)
             /\ IsShared(ts, x) => IsShared(ts, y)
    BY <1>2, PathsForth
<1>3. ASSUME NEW x \in DOMAIN tw, NEW z, <<tw[x], z>> \in P
      PROVE  IsShared(ts, z) \/ \E y \in DOMAIN tw : z = tw[y] /\ <<x, y>> \in P
    <2>1. PICK from : from = tw[x]
        OBVIOUS
    <2>2. <<from, z>> \in Paths(n, E)
        BY <1>3, <2>1
    <2>3. IsShared(ts, z) \/ \E y \in DOMAIN tw : z = tw[y] /\ <<x, y>> \in Paths(n, E)
        BY <2>1, <2>2, PathsBack
    <2> QED
        BY <2>3
<1> HIDE DEF P
<1>4. ASSUME NEW y, Together(P, i, y)
      PROVE  y \in DOMAIN tw /\ Together(P, tw[i], tw[y])
    BY <1>1, <1>2, <1>4 DEF Together
<1>5. ASSUME NEW z, Together(P, tw[i], z)
      PROVE  \E y \in DOMAIN tw : z = tw[y] /\ Together(P, i, y)
    <2>1. <<tw[i], z>> \in P /\ <<z, tw[i]>> \in P
        BY <1>5 DEF Together
    <2>2. ~IsShared(ts, z)
        BY <1>1, <1>2, <2>1
    <2>3. PICK y \in DOMAIN tw : z = tw[y] /\ <<i, y>> \in P
        BY <1>3, <2>1, <2>2
    <2>4. <<y, i>> \in P
        BY <1>1, <1>3, <2>1, <2>3
    <2> QED
        BY <2>3, <2>4 DEF Together
<1>6. Recursive(P, i) <=> Recursive(P, tw[i])
    <2>1. Recursive(P, i) => Together(P, tw[i], tw[i])
        BY <1>4 DEF Recursive, Together
    <2>2. ASSUME Recursive(P, tw[i]) PROVE Recursive(P, i)
        <3>1. PICK y \in DOMAIN tw : tw[i] = tw[y] /\ Together(P, i, y)
            BY <1>5, <2>2 DEF Recursive, Together
        <3> QED
            BY <1>1, <3>1 DEF Recursive, Together
    <2> QED
        BY <2>1, <2>2 DEF Recursive, Together
<1> QED
    BY <1>4, <1>5, <1>6 DEF P

-----------------------------------------------------------------------------
(* The edges of a table whose pairs convert.                                *)

(* What a table says of the entries of a pair.                              *)
LEMMA PairAt ==
    ASSUME NEW ts, Table(ts), NEW tw, Halved(ts, tw)
    PROVE  /\ Len(ts) \in Nat /\ DOMAIN ts = 1..Len(ts)
           /\ \A x \in DOMAIN ts : /\ Fits(ts[x], Len(ts)) /\ ts[x] \in Contract
                                   /\ DOMAIN ts[x].members = 1..Len(ts[x].members)
                                   /\ Len(ts[x].members) \in Nat
                                   /\ \A k \in 1..Len(ts[x].members) :
                                         ts[x].members[k].ty \in TypeRef
           /\ \A i \in DOMAIN tw : /\ i \in DOMAIN ts /\ tw[i] \in DOMAIN ts /\ i < tw[i]
                                   /\ i \in Nat /\ tw[i] \in Nat
                                   /\ Facing(ts[i], ts[tw[i]])
<1>1. /\ Len(ts) \in Nat /\ DOMAIN ts = 1..Len(ts)
      /\ \A x \in 1..Len(ts) : Fits(ts[x], Len(ts))
    BY DEF Table
<1>2. ASSUME NEW x \in 1..Len(ts)
      PROVE  /\ ts[x] \in Contract
             /\ DOMAIN ts[x].members = 1..Len(ts[x].members)
             /\ Len(ts[x].members) \in Nat
             /\ \A k \in 1..Len(ts[x].members) : ts[x].members[k].ty \in TypeRef
    <2>1. Fits(ts[x], Len(ts))
        BY <1>1
    <2>2. /\ ts[x].members \in Seq(Member) /\ ts[x] \in Contract
          /\ \A k \in 1..Len(ts[x].members) : ts[x].members[k].ty \in TypeRef
        BY <2>1, FitsTypes DEF Fits
    <2> QED
        BY <2>2
<1>3. \A i \in DOMAIN tw : /\ i \in DOMAIN ts /\ tw[i] \in DOMAIN ts /\ i < tw[i]
                           /\ Facing(ts[i], ts[tw[i]])
    BY DEF Halved, Paired
<1> QED
    BY <1>1, <1>2, <1>3

(* A named member is held.                                                  *)
LEMMA MemberHeld ==
    ASSUME NEW ts, Table(ts), NEW x \in DOMAIN ts, NEW k \in DOMAIN ts[x].members,
           ts[x].members[k].ty.leaf = "Named"
    PROVE  ts[x].members[k].ty.to \in Holds(ts[x])
<1>1. Fits(ts[x], Len(ts))
    BY DEF Table
<1>2. DOMAIN ts[x].members = 1..Len(ts[x].members)
    BY <1>1, FitsTypes
<1> QED
    BY <1>2, HeldBy

(* What both forms share names nothing else.                                *)
LEMMA SharedMember ==
    ASSUME NEW ts, Table(ts), NEW tw, Halved(ts, tw),
           NEW x, IsShared(ts, x), NEW k \in DOMAIN ts[x].members,
           ts[x].members[k].ty.leaf = "Named"
    PROVE  IsShared(ts, ts[x].members[k].ty.to)
<1>1. x \in DOMAIN ts
    BY DEF IsShared
<1> QED
    BY <1>1, MemberHeld DEF Halved, Company

(* What a twin captures besides names nothing.                              *)
LEMMA TwinMember ==
    ASSUME NEW ts, Table(ts), NEW tw, Halved(ts, tw), NEW i \in DOMAIN tw,
           NEW k \in DOMAIN ts[tw[i]].members
    PROVE  \/ k \in 1..Len(ts[i].members)
           \/ ts[tw[i]].members[k].ty.leaf = "Value" /\ ts[tw[i]].members[k] = CaptureMember
<1> DEFINE c == ts[i]
           d == ts[tw[i]]
<1>1. /\ Facing(c, d) /\ Len(c.members) \in Nat
      /\ DOMAIN d.members = 1..Len(d.members) /\ Len(d.members) \in Nat
    BY PairAt
<1>2. CaptureMember.ty.leaf = "Value"
    BY DEF CaptureMember, Wrapped, LeafRef
<1> HIDE DEF c, d
<1>3. \/ k \in 1..Len(c.members)
      \/ k = Len(c.members) + 1 /\ Len(d.members) = Len(c.members) + 1
    <2>1. k \in 1..Len(d.members)
        BY <1>1 DEF d
    <2> QED
        BY <1>1, <2>1 DEF Facing
<1>4. k \in 1..Len(c.members) \/ d.members[k] = CaptureMember
    BY <1>1, <1>3 DEF Facing
<1> QED
    BY <1>2, <1>4 DEF c, d

(* A member and the one it is read as.                                      *)
LEMMA MembersFace ==
    ASSUME NEW ts, Table(ts), NEW tw, Halved(ts, tw), NEW i \in DOMAIN tw,
           NEW k \in 1..Len(ts[i].members), Alike(ts[i], ts[tw[i]], k, tw)
    PROVE  LET a == ts[i].members[k].ty
               b == ts[tw[i]].members[k].ty
           IN  /\ k \in DOMAIN ts[i].members /\ k \in DOMAIN ts[tw[i]].members
               /\ b.leaf = a.leaf
               /\ Direct(b) <=> Direct(a)
               /\ Forwards(b) <=> Forwards(a)
               /\ HandsOn(ts[tw[i]], k) <=> HandsOn(ts[i], k)
               /\ a.leaf = "Named" => \/ a.to \in DOMAIN tw /\ b.to = tw[a.to]
                                      \/ IsShared(ts, a.to) /\ b.to = a.to
<1> DEFINE c == ts[i]
           d == ts[tw[i]]
           a == c.members[k].ty
           b == d.members[k].ty
<1>1. /\ Facing(c, d) /\ Len(c.members) \in Nat /\ Len(d.members) \in Nat
      /\ DOMAIN c.members = 1..Len(c.members)
      /\ DOMAIN d.members = 1..Len(d.members)
      /\ a \in TypeRef
      /\ \A v \in DOMAIN tw : tw[v] \in Nat
    BY PairAt
<1>2. i \in DOMAIN ts
    BY PairAt
<1>3. b = ReadAs(Opens(c, k), a, tw)
    BY DEF Alike
<1>4. a.leaf = "Named" => a.to \in DOMAIN tw \/ (IsShared(ts, a.to) /\ a.to \notin DOMAIN tw)
    <2> SUFFICES ASSUME a.leaf = "Named"
                 PROVE  a.to \in DOMAIN tw \/ (IsShared(ts, a.to) /\ a.to \notin DOMAIN tw)
        OBVIOUS
    <2>1. a.to \in Holds(c)
        BY <1>1, <1>2, MemberHeld
    <2>2. a.to \in DOMAIN tw \/ IsShared(ts, a.to)
        BY <2>1 DEF Halved, Company
    <2> QED
        BY <2>2
<1>5. k \in DOMAIN c.members /\ k \in DOMAIN d.members
    BY <1>1 DEF Facing
<1>6. HandsOn(d, k) <=> HandsOn(c, k)
    BY <1>1 DEF Facing, HandsOn
<1> DEFINE open == Opens(c, k)
           r == ReadAs(open, a, tw)
<1> HIDE DEF c, d, a, b, open
<1>7. /\ r.leaf = a.leaf
      /\ r.to = IF a.leaf = "Named" /\ a.to \in DOMAIN tw THEN tw[a.to] ELSE a.to
      /\ Direct(r) <=> Direct(a)
      /\ Forwards(r) <=> Forwards(a)
    BY <1>1, ReadAsNames
<1>8. b = r
    BY <1>3 DEF open
<1>9. a.leaf = "Named" => \/ a.to \in DOMAIN tw /\ b.to = tw[a.to]
                          \/ IsShared(ts, a.to) /\ b.to = a.to
    BY <1>4, <1>7, <1>8
<1> QED
    BY <1>5, <1>6, <1>7, <1>8, <1>9 DEF c, d, a, b

(* What a member names, the one it is read as names in its own form.        *)
LEMMA NamedFaces ==
    ASSUME NEW ts, Table(ts), NEW tw, Halved(ts, tw), NEW i \in DOMAIN tw,
           NEW k \in 1..Len(ts[i].members), Alike(ts[i], ts[tw[i]], k, tw),
           NEW y, Names(ts[i].members[k].ty, y)
    PROVE  /\ k \in DOMAIN ts[tw[i]].members
           /\ Direct(ts[i].members[k].ty) => Direct(ts[tw[i]].members[k].ty)
           /\ \/ y \in DOMAIN tw /\ Names(ts[tw[i]].members[k].ty, tw[y])
              \/ IsShared(ts, y) /\ Names(ts[tw[i]].members[k].ty, y)
<1>1. ts[i].members[k].ty.leaf = "Named" /\ ts[i].members[k].ty.to = y
    BY DEF Names
<1>2. k \in DOMAIN ts[tw[i]].members
    BY MembersFace
<1>3. ts[tw[i]].members[k].ty.leaf = ts[i].members[k].ty.leaf
    BY MembersFace
<1>4. Direct(ts[i].members[k].ty) => Direct(ts[tw[i]].members[k].ty)
    BY MembersFace
<1>5. ts[i].members[k].ty.leaf = "Named" =>
         \/ /\ ts[i].members[k].ty.to \in DOMAIN tw
            /\ ts[tw[i]].members[k].ty.to = tw[ts[i].members[k].ty.to]
         \/ /\ IsShared(ts, ts[i].members[k].ty.to)
            /\ ts[tw[i]].members[k].ty.to = ts[i].members[k].ty.to
    BY MembersFace
<1>6. \/ y \in DOMAIN tw /\ ts[tw[i]].members[k].ty.to = tw[y]
      \/ IsShared(ts, y) /\ ts[tw[i]].members[k].ty.to = y
    BY <1>1, <1>5
<1>7. ts[tw[i]].members[k].ty.leaf = "Named"
    BY <1>1, <1>3
<1> QED
    BY <1>2, <1>4, <1>6, <1>7 DEF Names

(* A decoder of a twin steps where one of the strict half does.             *)
LEMMA ForwardsMirror ==
    ASSUME NEW ts, Table(ts), NEW tw, Halved(ts, tw), Converted(ts, tw)
    PROVE  Forth(ts, tw, ForwardEdges(ts)) /\ Back(ts, tw, ForwardEdges(ts))
<1>1. ASSUME NEW x, NEW y
      PROVE  <<x, y>> \in ForwardEdges(ts) <=>
                /\ x \in DOMAIN ts /\ y \in DOMAIN ts
                /\ \E k \in DOMAIN ts[x].members :
                      /\ HandsOn(ts[x], k)
                      /\ Forwards(ts[x].members[k].ty)
                      /\ ts[x].members[k].ty.to = y
    BY ForwardEdge
<1>2. \A ref : Forwards(ref) => ref.leaf = "Named"
    BY DEF Forwards
<1>3. ASSUME NEW x, NEW y, IsShared(ts, x), <<x, y>> \in ForwardEdges(ts) PROVE IsShared(ts, y)
    BY <1>1, <1>2, <1>3, SharedMember
<1>4. ASSUME NEW i \in DOMAIN tw, NEW y, <<i, y>> \in ForwardEdges(ts)
      PROVE  IsShared(ts, y) \/ (y \in DOMAIN tw /\ <<tw[i], tw[y]>> \in ForwardEdges(ts))
    <2>1. PICK k \in DOMAIN ts[i].members :
                /\ HandsOn(ts[i], k) /\ Forwards(ts[i].members[k].ty)
                /\ ts[i].members[k].ty.to = y
        BY <1>1, <1>4
    <2>2. k \in 1..Len(ts[i].members) /\ \A v \in DOMAIN tw : tw[v] \in DOMAIN ts
        BY PairAt
    <2>3. Alike(ts[i], ts[tw[i]], k, tw)
        BY <2>2 DEF Converted
    <2>4. /\ k \in DOMAIN ts[tw[i]].members
          /\ HandsOn(ts[tw[i]], k) /\ Forwards(ts[tw[i]].members[k].ty)
          /\ \/ y \in DOMAIN tw /\ ts[tw[i]].members[k].ty.to = tw[y]
             \/ IsShared(ts, y)
        BY <1>2, <2>1, <2>2, <2>3, MembersFace
    <2> QED
        BY <1>1, <2>2, <2>4
<1>5. ASSUME NEW i \in DOMAIN tw, NEW z, <<tw[i], z>> \in ForwardEdges(ts)
      PROVE  IsShared(ts, z) \/ \E y \in DOMAIN tw : z = tw[y] /\ <<i, y>> \in ForwardEdges(ts)
    <2>1. PICK k \in DOMAIN ts[tw[i]].members :
                /\ HandsOn(ts[tw[i]], k) /\ Forwards(ts[tw[i]].members[k].ty)
                /\ ts[tw[i]].members[k].ty.to = z
        BY <1>1, <1>5
    <2>2. k \in 1..Len(ts[i].members)
        BY <1>2, <2>1, TwinMember
    <2>3. Alike(ts[i], ts[tw[i]], k, tw)
        BY <2>2 DEF Converted
    <2> DEFINE y == ts[i].members[k].ty.to
    <2>4. /\ k \in DOMAIN ts[i].members
          /\ HandsOn(ts[i], k) /\ Forwards(ts[i].members[k].ty)
          /\ (y \in DOMAIN tw /\ z = tw[y]) \/ IsShared(ts, z)
        BY <1>2, <2>1, <2>2, <2>3, MembersFace
    <2>5. \A v \in DOMAIN tw : v \in DOMAIN ts
        BY PairAt
    <2> HIDE DEF y
    <2>6. y \in DOMAIN tw => <<i, y>> \in ForwardEdges(ts)
        BY <1>1, <2>4, <2>5 DEF y
    <2> QED
        BY <2>4, <2>6
<1> QED
    BY <1>3, <1>4, <1>5 DEF Forth, Back

(* So do the aliases.                                                       *)
LEMMA AliasesMirror ==
    ASSUME NEW ts, Table(ts), NEW tw, Halved(ts, tw), Converted(ts, tw)
    PROVE  Forth(ts, tw, AliasEdges(ts)) /\ Back(ts, tw, AliasEdges(ts))
<1>1. ASSUME NEW x, NEW y
      PROVE  <<x, y>> \in AliasEdges(ts) <=>
                /\ x \in DOMAIN ts /\ y \in DOMAIN ts
                /\ ts[x].kind = "Alias" /\ ts[y].kind = "Alias"
                /\ \E k \in DOMAIN ts[x].members :
                      ts[x].members[k].ty.leaf = "Named" /\ ts[x].members[k].ty.to = y
    BY AliasEdge
<1>2. \A v \in DOMAIN tw : /\ v \in DOMAIN ts /\ tw[v] \in DOMAIN ts
                           /\ ts[tw[v]].kind = ts[v].kind
                           /\ DOMAIN ts[v].members = 1..Len(ts[v].members)
    BY PairAt DEF Facing
<1>3. ASSUME NEW x, NEW y, IsShared(ts, x), <<x, y>> \in AliasEdges(ts) PROVE IsShared(ts, y)
    BY <1>1, <1>3, SharedMember
<1>4. ASSUME NEW i \in DOMAIN tw, NEW y, <<i, y>> \in AliasEdges(ts)
      PROVE  IsShared(ts, y) \/ (y \in DOMAIN tw /\ <<tw[i], tw[y]>> \in AliasEdges(ts))
    <2>1. PICK k \in DOMAIN ts[i].members :
                ts[i].members[k].ty.leaf = "Named" /\ ts[i].members[k].ty.to = y
        BY <1>1, <1>4
    <2>2. k \in 1..Len(ts[i].members) /\ Alike(ts[i], ts[tw[i]], k, tw)
        BY <1>2 DEF Converted
    <2>3. Names(ts[i].members[k].ty, y)
        BY <2>1 DEF Names
    <2>4. /\ k \in DOMAIN ts[tw[i]].members
          /\ \/ y \in DOMAIN tw /\ Names(ts[tw[i]].members[k].ty, tw[y])
             \/ IsShared(ts, y)
        BY <2>2, <2>3, NamedFaces
    <2>5. ts[i].kind = "Alias" /\ ts[y].kind = "Alias"
        BY <1>1, <1>4
    <2> QED
        BY <1>1, <1>2, <2>4, <2>5 DEF Names
<1>5. ASSUME NEW i \in DOMAIN tw, NEW z, <<tw[i], z>> \in AliasEdges(ts)
      PROVE  IsShared(ts, z) \/ \E y \in DOMAIN tw : z = tw[y] /\ <<i, y>> \in AliasEdges(ts)
    <2>1. PICK k \in DOMAIN ts[tw[i]].members :
                ts[tw[i]].members[k].ty.leaf = "Named" /\ ts[tw[i]].members[k].ty.to = z
        BY <1>1, <1>5
    <2>2. k \in 1..Len(ts[i].members)
        BY <2>1, TwinMember
    <2>3. Alike(ts[i], ts[tw[i]], k, tw)
        BY <2>2 DEF Converted
    <2> DEFINE y == ts[i].members[k].ty.to
    <2>4. /\ k \in DOMAIN ts[i].members
          /\ ts[i].members[k].ty.leaf = "Named"
          /\ (y \in DOMAIN tw /\ z = tw[y]) \/ IsShared(ts, z)
        BY <2>1, <2>2, <2>3, MembersFace
    <2>5. ts[tw[i]].kind = "Alias" /\ ts[z].kind = "Alias"
        BY <1>1, <1>5
    <2> HIDE DEF y
    <2>6. y \in DOMAIN tw /\ z = tw[y] => <<i, y>> \in AliasEdges(ts)
        BY <1>1, <1>2, <2>4, <2>5 DEF y
    <2> QED
        BY <2>4, <2>6
<1> QED
    BY <1>3, <1>4, <1>5 DEF Forth, Back

(* What a strict half holds directly, its twin does, as far as its members  *)
(* are read that are not boxed.                                             *)
LEMMA DirectsForth ==
    ASSUME NEW ts, Table(ts), NEW tw, Halved(ts, tw),
           \A i \in DOMAIN tw : \A k \in 1..Len(ts[i].members) :
              Alike(ts[i], ts[tw[i]], k, tw) \/ ~Direct(ts[i].members[k].ty)
    PROVE  Forth(ts, tw, DirectEdges(ts))
<1> DEFINE E == DirectEdges(ts)
           Holding(x, y) == \E k \in DOMAIN ts[x].members :
                              Names(ts[x].members[k].ty, y) /\ Direct(ts[x].members[k].ty)
<1>1. \A x, y : <<x, y>> \in E <=> x \in DOMAIN ts /\ y \in DOMAIN ts /\ Holding(x, y)
    BY DirectEdge
<1> HIDE DEF E
<1>2. \A v \in DOMAIN tw : /\ v \in DOMAIN ts /\ tw[v] \in DOMAIN ts
                           /\ DOMAIN ts[v].members = 1..Len(ts[v].members)
    BY PairAt
<1>3. ASSUME NEW x, NEW y, IsShared(ts, x), <<x, y>> \in E PROVE IsShared(ts, y)
    BY <1>1, <1>3, SharedMember DEF Names
<1>4. ASSUME NEW i \in DOMAIN tw, NEW y, <<i, y>> \in E
      PROVE  IsShared(ts, y) \/ (y \in DOMAIN tw /\ <<tw[i], tw[y]>> \in E)
    <2>1. PICK k \in DOMAIN ts[i].members :
                Names(ts[i].members[k].ty, y) /\ Direct(ts[i].members[k].ty)
        BY <1>1, <1>4
    <2>2. k \in 1..Len(ts[i].members) /\ Alike(ts[i], ts[tw[i]], k, tw)
        BY <1>2, <2>1
    <2>3. /\ k \in DOMAIN ts[tw[i]].members
          /\ Direct(ts[tw[i]].members[k].ty)
          /\ \/ y \in DOMAIN tw /\ Names(ts[tw[i]].members[k].ty, tw[y])
             \/ IsShared(ts, y)
        BY <2>1, <2>2, NamedFaces
    <2> QED
        BY <1>1, <1>2, <2>3
<1> QED
    BY <1>3, <1>4 DEF Forth, E

(* And the other way.                                                       *)
LEMMA DirectsBack ==
    ASSUME NEW ts, Table(ts), NEW tw, Halved(ts, tw), Converted(ts, tw)
    PROVE  Back(ts, tw, DirectEdges(ts))
<1> DEFINE E == DirectEdges(ts)
           Holding(x, y) == \E k \in DOMAIN ts[x].members :
                              Names(ts[x].members[k].ty, y) /\ Direct(ts[x].members[k].ty)
<1>1. \A x, y : <<x, y>> \in E <=> x \in DOMAIN ts /\ y \in DOMAIN ts /\ Holding(x, y)
    BY DirectEdge
<1> HIDE DEF E
<1>2. \A v \in DOMAIN tw : v \in DOMAIN ts /\ tw[v] \in DOMAIN ts
    BY PairAt
<1>3. ASSUME NEW x, NEW y, IsShared(ts, x), <<x, y>> \in E PROVE IsShared(ts, y)
    BY <1>1, <1>3, SharedMember DEF Names
<1>5. ASSUME NEW i \in DOMAIN tw, NEW z, <<tw[i], z>> \in E
      PROVE  IsShared(ts, z) \/ \E y \in DOMAIN tw : z = tw[y] /\ <<i, y>> \in E
    <2>1. PICK k \in DOMAIN ts[tw[i]].members :
                /\ ts[tw[i]].members[k].ty.leaf = "Named" /\ ts[tw[i]].members[k].ty.to = z
                /\ Direct(ts[tw[i]].members[k].ty)
        BY <1>1, <1>5 DEF Names
    <2>2. k \in 1..Len(ts[i].members)
        BY <2>1, TwinMember
    <2>3. Alike(ts[i], ts[tw[i]], k, tw)
        BY <2>2 DEF Converted
    <2>4. /\ k \in DOMAIN ts[i].members
          /\ ts[tw[i]].members[k].ty.leaf = ts[i].members[k].ty.leaf
        BY <2>2, <2>3, MembersFace
    <2>5. Direct(ts[i].members[k].ty)
        BY <2>1, <2>2, <2>3, MembersFace
    <2>6. ts[i].members[k].ty.leaf = "Named" =>
             \/ /\ ts[i].members[k].ty.to \in DOMAIN tw
                /\ ts[tw[i]].members[k].ty.to = tw[ts[i].members[k].ty.to]
             \/ /\ IsShared(ts, ts[i].members[k].ty.to)
                /\ ts[tw[i]].members[k].ty.to = ts[i].members[k].ty.to
        BY <2>2, <2>3, MembersFace
    <2>7. PICK y : y = ts[i].members[k].ty.to
        OBVIOUS
    <2>8. y \in DOMAIN tw => <<i, y>> \in E
        BY <1>1, <1>2, <2>1, <2>4, <2>5, <2>7 DEF Names
    <2> QED
        BY <2>1, <2>4, <2>6, <2>7, <2>8
<1> QED
    BY <1>3, <1>5 DEF Back, E

-----------------------------------------------------------------------------
(* Retyping and promoting both halves.                                      *)

(* A table rewritten in place keeps its pairs, where it holds nothing else  *)
(* and the halves still face each other.                                    *)
LEMMA HalvedStays ==
    ASSUME NEW ts, NEW tw, Halved(ts, tw), NEW us, DOMAIN us = DOMAIN ts,
           \A x \in DOMAIN ts : /\ us[x].form = ts[x].form /\ us[x].origin = ts[x].origin
                                /\ Holds(us[x]) \subseteq Holds(ts[x]),
           \A i \in DOMAIN tw : Facing(us[i], us[tw[i]])
    PROVE  Halved(us, tw)
<1>1. \A i \in DOMAIN tw : i \in DOMAIN ts /\ tw[i] \in DOMAIN ts
    BY DEF Halved, Paired
<1>2. Paired(us, tw)
    BY <1>1 DEF Halved, Paired
<1>3. Apart(us, tw)
    BY DEF Halved, Apart
<1>4. \A x : IsShared(us, x) <=> IsShared(ts, x)
    BY DEF IsShared
<1>5. Company(us, tw)
    <2>1. \A i \in DOMAIN tw : \A y \in Holds(us[i]) : y \in DOMAIN tw \/ IsShared(us, y)
        BY <1>1, <1>4 DEF Halved, Company
    <2>2. \A i \in DOMAIN tw : \A y \in Holds(us[tw[i]]) :
              (\E j \in DOMAIN tw : y = tw[j]) \/ IsShared(us, y)
        BY <1>1, <1>4 DEF Halved, Company
    <2>3. \A x \in DOMAIN us : IsShared(us, x) => \A y \in Holds(us[x]) : IsShared(us, y)
        BY <1>4 DEF Halved, Company
    <2> QED
        BY <2>1, <2>2, <2>3 DEF Company
<1> QED
    BY <1>2, <1>3, <1>5 DEF Halved

(* A wrapper reads null where its twin does.                                *)
LEMMA NullFaces ==
    ASSUME NEW ts, Table(ts), NEW tw, Halved(ts, tw), Converted(ts, tw),
           NEW i \in DOMAIN tw, ts[i].kind \in {"Alias", "Newtype"}
    PROVE  (\E ref \in References(ts[i]) : ThroughNull(ref))
              <=> (\E ref \in References(ts[tw[i]]) : ThroughNull(ref))
<1> DEFINE c == ts[i]
           d == ts[tw[i]]
           a == c.members[1].ty
           b == d.members[1].ty
<1>1. /\ Fits(c, Len(ts)) /\ Fits(d, Len(ts)) /\ Facing(c, d)
      /\ DOMAIN c.members = 1..Len(c.members) /\ DOMAIN d.members = 1..Len(d.members)
    BY PairAt
<1>2. d.kind = c.kind /\ Len(c.members) = 1 /\ Len(d.members) = 1
    BY <1>1 DEF Fits, Shaped, Facing
<1>3. References(c) = {a} /\ References(d) = {b}
    BY <1>1, <1>2 DEF References
<1>4. Alike(c, d, 1, tw) /\ 1 \in 1..Len(c.members)
    BY <1>2 DEF Converted
<1>5. ~Opens(c, 1)
    BY DEF Opens
<1>6. a \in TypeRef /\ \A v \in DOMAIN tw : tw[v] \in Nat
    BY <1>4, PairAt
<1>7. b = ReadAs(Opens(c, 1), a, tw)
    BY <1>4 DEF Alike
<1> HIDE DEF a, b
<1>8. b.wraps = a.wraps /\ (Forwards(b) <=> Forwards(a))
    <2> DEFINE open == Opens(c, 1)
    <2> HIDE DEF open
    <2>1. ~open => ReadAs(open, a, tw).wraps = a.wraps
        BY <1>6, ReadAsNames
    <2>2. Forwards(ReadAs(open, a, tw)) <=> Forwards(a)
        BY <1>6, ReadAsNames
    <2>3. b = ReadAs(open, a, tw) /\ ~open
        BY <1>5, <1>7 DEF open
    <2> QED
        BY <2>1, <2>2, <2>3
<1>9. ThroughNull(b) <=> ThroughNull(a)
    BY <1>8 DEF ThroughNull
<1> QED
    BY <1>3, <1>9

(* Two types retyped alike convert.                                         *)
LEMMA AliasesFace ==
    ASSUME NEW c \in Contract, NEW d \in Contract, NEW leaf \in {"Unit", "Value"}, NEW tw
    PROVE  LET a == AliasOf(c, leaf)
               b == AliasOf(d, leaf)
           IN  /\ Facing(a, b) /\ Len(a.members) = 1 /\ Alike(a, b, 1, tw)
               /\ a.form = c.form /\ a.origin = c.origin /\ Holds(a) = {}
<1> DEFINE item == [ty |-> LeafRef(leaf), presence |-> "Required", capture |-> "None"]
           a == AliasOf(c, leaf)
           b == AliasOf(d, leaf)
<1>1. /\ a.kind = "Alias" /\ a.members = <<item>>
      /\ a.form = c.form /\ a.origin = c.origin
    BY DEF AliasOf, Contract
<1>2. b.kind = "Alias" /\ b.members = <<item>>
    BY DEF AliasOf, Contract
<1>3. item.ty = LeafRef(leaf) /\ LeafRef(leaf).leaf = leaf
    BY DEF LeafRef
<1> HIDE DEF a, b, item
<1>4. /\ Len(a.members) = 1 /\ Len(b.members) = 1 /\ DOMAIN a.members = 1..1
      /\ a.members[1] = item /\ b.members[1] = item
    BY <1>1, <1>2
<1>5. Facing(a, b)
    BY <1>1, <1>2, <1>4 DEF Facing
<1>6. Alike(a, b, 1, tw)
    <2>1. ~Opens(a, 1)
        BY <1>1 DEF Opens
    <2>2. Remap(LeafRef(leaf), tw) = LeafRef(leaf)
        BY <1>3 DEF Remap
    <2> QED
        BY <1>3, <1>4, <2>1, <2>2 DEF Alike, ReadAs
<1>7. Holds(a) = {}
    <2>1. \A ref \in References(a) : ref.leaf # "Named"
        BY <1>3, <1>4 DEF References
    <2> QED
        BY <2>1 DEF Holds
<1> QED
    BY <1>1, <1>4, <1>5, <1>6, <1>7 DEF a, b

(* Retyping cycles leaves pairs that convert.                               *)
LEMMA NormalizeConverts ==
    ASSUME Sound, Halved(types, twins), Converted(types, twins), Normalize
    PROVE  Halved(types', twins) /\ Converted(types', twins)
<1> DEFINE n == Len(types)
           E == ForwardEdges(types)
           P == Paths(n, E)
           Cycle(i) == {j \in DOMAIN types : Together(P, i, j)}
           LeafOf(i) == IF KindOfCycle(Cycle(i)) = "NullOnly" THEN "Unit" ELSE "Value"
           ts == types
           tw == twins
<1>1. Table(ts) /\ n \in Nat /\ DOMAIN ts = 1..n
    BY DEF Sound, Table
<1>2. /\ \A x \in DOMAIN ts : ts[x] \in Contract /\ Len(ts[x].members) \in Nat
      /\ \A i \in DOMAIN tw : i \in DOMAIN ts /\ tw[i] \in DOMAIN ts /\ Facing(ts[i], ts[tw[i]])
    BY <1>1, PairAt
<1>3. /\ DOMAIN types' = DOMAIN ts
      /\ \A x \in DOMAIN ts : types'[x] = IF x \notin Replaying(ts) THEN ts[x]
                                          ELSE AliasOf(ts[x], LeafOf(x))
    BY <1>1 DEF Normalize
<1>4. \A x : LeafOf(x) \in {"Unit", "Value"}
    OBVIOUS
<1>5. \A x \in DOMAIN ts : x \in Replaying(ts) <=> Recursive(P, x)
    BY DEF Replaying
<1>6. E \in SUBSET ((1..n) \X (1..n)) /\ Forth(ts, tw, E) /\ Back(ts, tw, E)
    BY <1>1, EdgePairs, ForwardsMirror
<1> HIDE DEF E
<1>7. ASSUME NEW i \in DOMAIN tw
      PROVE  /\ \A y : Together(P, i, y) => y \in DOMAIN tw /\ Together(P, tw[i], tw[y])
             /\ \A z : Together(P, tw[i], z) =>
                   \E y \in DOMAIN tw : z = tw[y] /\ Together(P, i, y)
             /\ Recursive(P, i) <=> Recursive(P, tw[i])
    BY <1>1, <1>6, PairsTogether DEF Halved
<1> HIDE DEF P
<1>8. ASSUME NEW i \in DOMAIN tw PROVE LeafOf(i) = LeafOf(tw[i])
    <2> DEFINE Other(S) == \E x \in S : ts[x].kind \notin {"Alias", "Newtype"}
               Null(x) == \E ref \in References(ts[x]) : ThroughNull(ref)
               AnyNull(S) == \E x \in S : Null(x)
               A == Cycle(i)
               B == Cycle(tw[i])
    <2>1. \A x \in A : x \in DOMAIN tw /\ tw[x] \in B
        BY <1>2, <1>7
    <2>2. \A z \in B : \E y \in A : z = tw[y]
        BY <1>2, <1>7
    <2>3. \A S : KindOfCycle(S) = "NullOnly" <=> ~Other(S) /\ AnyNull(S)
        BY DEF KindOfCycle
    <2> HIDE DEF A, B
    <2>4. Other(A) <=> Other(B)
        BY <1>2, <2>1, <2>2 DEF Facing
    <2>5. \A y \in DOMAIN tw : ts[y].kind \in {"Alias", "Newtype"} => (Null(y) <=> Null(tw[y]))
        BY <1>1, NullFaces
    <2> HIDE DEF Null
    <2>6. ~Other(A) => (AnyNull(A) <=> AnyNull(B))
        BY <2>1, <2>2, <2>5
    <2>7. KindOfCycle(A) = "NullOnly" <=> KindOfCycle(B) = "NullOnly"
        BY <2>3, <2>4, <2>6
    <2> QED
        BY <2>7 DEF A, B
<1>9. \A i \in DOMAIN tw : i \in Replaying(ts) <=> tw[i] \in Replaying(ts)
    BY <1>2, <1>5, <1>7
<1> HIDE DEF LeafOf
<1>10. ASSUME NEW i \in DOMAIN tw
       PROVE  /\ Facing(types'[i], types'[tw[i]])
              /\ \A k \in 1..Len(types'[i].members) : Alike(types'[i], types'[tw[i]], k, tw)
    <2>1. CASE i \notin Replaying(ts)
        <3>1. types'[i] = ts[i] /\ types'[tw[i]] = ts[tw[i]]
            BY <1>2, <1>3, <1>9, <2>1
        <3> QED
            BY <1>2, <3>1 DEF Converted
    <2>2. CASE i \in Replaying(ts)
        <3> DEFINE leaf == LeafOf(i)
        <3>1. types'[i] = AliasOf(ts[i], leaf) /\ types'[tw[i]] = AliasOf(ts[tw[i]], leaf)
            BY <1>2, <1>3, <1>8, <1>9, <2>2
        <3>2. leaf \in {"Unit", "Value"}
            BY <1>4
        <3> HIDE DEF leaf
        <3>3. /\ Facing(AliasOf(ts[i], leaf), AliasOf(ts[tw[i]], leaf))
              /\ Len(AliasOf(ts[i], leaf).members) = 1
              /\ Alike(AliasOf(ts[i], leaf), AliasOf(ts[tw[i]], leaf), 1, tw)
            BY <1>2, <3>2, AliasesFace
        <3> QED
            BY <3>1, <3>3
    <2> QED
        BY <2>1, <2>2
<1>11. ASSUME NEW x \in DOMAIN ts
       PROVE  /\ types'[x].form = ts[x].form /\ types'[x].origin = ts[x].origin
              /\ Holds(types'[x]) \subseteq Holds(ts[x])
    <2> DEFINE leaf == LeafOf(x)
    <2>1. leaf \in {"Unit", "Value"}
        BY <1>4
    <2>2. types'[x] = ts[x] \/ types'[x] = AliasOf(ts[x], leaf)
        BY <1>3
    <2> HIDE DEF leaf
    <2> QED
        BY <1>2, <2>1, <2>2, AliasesFace
<1>12. Halved(types', tw)
    BY <1>3, <1>10, <1>11, HalvedStays
<1>13. Converted(types', tw)
    BY <1>10 DEF Converted
<1> QED
    BY <1>12, <1>13

(* Promoting aliases does too.                                              *)
LEMMA PromoteConverts ==
    ASSUME Sound, Halved(types, twins), Converted(types, twins), Promote
    PROVE  Halved(types', twins) /\ Converted(types', twins)
<1> DEFINE n == Len(types)
           E == AliasEdges(types)
           P == Paths(n, E)
           R == RecursiveAliases(types)
           ts == types
           tw == twins
<1>1. Table(ts) /\ n \in Nat /\ DOMAIN ts = 1..n
    BY DEF Sound, Table
<1>2. /\ \A x \in DOMAIN ts : ts[x] \in Contract /\ Len(ts[x].members) \in Nat
      /\ \A i \in DOMAIN tw : i \in DOMAIN ts /\ tw[i] \in DOMAIN ts /\ Facing(ts[i], ts[tw[i]])
    BY <1>1, PairAt
<1>3. /\ DOMAIN types' = DOMAIN ts
      /\ \A x \in DOMAIN ts : types'[x] = IF x \in R THEN [ts[x] EXCEPT !.kind = "Newtype"]
                                          ELSE ts[x]
    BY <1>1 DEF Promote
<1>4. \A x \in DOMAIN ts : x \in R <=> Recursive(P, x)
    BY DEF RecursiveAliases
<1>5. E \in SUBSET ((1..n) \X (1..n)) /\ Forth(ts, tw, E) /\ Back(ts, tw, E)
    BY <1>1, EdgePairs, AliasesMirror
<1>6. \A x \in R : ts[x].kind = "Alias"
    <2> SUFFICES ASSUME NEW x \in R PROVE ts[x].kind = "Alias"
        OBVIOUS
    <2>1. <<x, x>> \in P
        BY <1>4 DEF Recursive, RecursiveAliases
    <2>2. \E e \in E : e[1] = x
        BY <1>1, <2>1, PathStarts
    <2> QED
        BY <2>2 DEF AliasEdges
<1> HIDE DEF E
<1>7. \A i \in DOMAIN tw : Recursive(P, i) <=> Recursive(P, tw[i])
    BY <1>1, <1>5, PairsTogether DEF Halved
<1> HIDE DEF P
<1>8. \A i \in DOMAIN tw : i \in R <=> tw[i] \in R
    BY <1>2, <1>4, <1>7
<1> HIDE DEF R
<1>9. ASSUME NEW x \in DOMAIN ts
      PROVE  /\ types'[x].form = ts[x].form /\ types'[x].origin = ts[x].origin
             /\ types'[x].members = ts[x].members
             /\ types'[x].kind = IF x \in R THEN "Newtype" ELSE ts[x].kind
             /\ Holds(types'[x]) = Holds(ts[x])
    <2> DEFINE d == types'[x]
    <2>1. d = ts[x] \/ d = [ts[x] EXCEPT !.kind = "Newtype"]
        BY <1>3
    <2>2. /\ d.form = ts[x].form /\ d.origin = ts[x].origin /\ d.members = ts[x].members
        BY <1>2, <2>1 DEF Contract
    <2>3. d.kind = IF x \in R THEN "Newtype" ELSE ts[x].kind
        BY <1>2, <1>3 DEF Contract
    <2> HIDE DEF d
    <2>4. Holds(d) = Holds(ts[x])
        BY <2>2 DEF Holds, References
    <2> QED
        BY <2>2, <2>3, <2>4 DEF d
<1>10. ASSUME NEW i \in DOMAIN tw
       PROVE  /\ Facing(types'[i], types'[tw[i]])
              /\ \A k \in 1..Len(types'[i].members) : Alike(types'[i], types'[tw[i]], k, tw)
    <2>1. /\ types'[i].members = ts[i].members /\ types'[tw[i]].members = ts[tw[i]].members
          /\ types'[i].kind = types'[tw[i]].kind
        BY <1>2, <1>8, <1>9 DEF Facing
    <2>2. Facing(types'[i], types'[tw[i]])
        BY <1>2, <2>1 DEF Facing
    <2>3. \A k : Opens(types'[i], k) <=> Opens(ts[i], k)
        BY <1>2, <1>6, <1>9, <2>1 DEF Opens
    <2>4. ASSUME NEW k \in 1..Len(types'[i].members) PROVE Alike(types'[i], types'[tw[i]], k, tw)
        <3>1. Alike(ts[i], ts[tw[i]], k, tw)
            BY <2>1 DEF Converted
        <3> QED
            BY <2>1, <2>3, <3>1 DEF Alike, ReadAs
    <2> QED
        BY <2>2, <2>4
<1>11. Halved(types', tw)
    BY <1>3, <1>9, <1>10, HalvedStays
<1>12. Converted(types', tw)
    BY <1>10 DEF Converted
<1> QED
    BY <1>11, <1>12

-----------------------------------------------------------------------------
(* The order edges are chosen in.                                           *)

\* A member of the strict half has the box that the twin's has yet to get.
Behind(c, d, k, j, tw) ==
    \E ref \in TypeRef :
        /\ Names(ref, j) /\ Direct(ref)
        /\ c.members[k].ty = Boxed(ref)
        /\ d.members[k].ty = ReadAs(Opens(c, k), ref, tw)

\* The twins' edge is the one that is boxed next, or their strict halves' is.
Due(ts, tw, i, j) ==
    /\ <<tw[i], tw[j]>> \in ClosingEdges(ts)
    /\ <<i, j>> \in DirectEdges(ts) => <<i, j>> \in ClosingEdges(ts)
    /\ \A e \in ClosingEdges(ts) :
          \/ e = <<i, j>> \/ e = <<tw[i], tw[j]>>
          \/ Before(EdgeKey(ts, <<tw[i], tw[j]>>), EdgeKey(ts, e))

\* Every member converts but for boxes that are due.
Between(ts, tw, i, j) ==
    /\ Due(ts, tw, i, j)
    /\ \A p \in DOMAIN tw : \A k \in 1..Len(ts[p].members) :
          \/ Alike(ts[p], ts[tw[p]], k, tw)
          \/ p = i /\ Behind(ts[i], ts[tw[i]], k, j, tw)

Catching(ts, tw) ==
    Converted(ts, tw) \/ \E i, j \in DOMAIN tw : Between(ts, tw, i, j)

(* What an edge is ordered by.                                              *)
LEMMA KeyAt ==
    ASSUME NEW ts, NEW i, NEW j
    PROVE  LET a == EdgeKey(ts, <<i, j>>)
           IN  /\ a[1] = IF ts[i].kind = "Alias" THEN 1 ELSE 0
               /\ a[2] = ts[i].origin /\ a[3] = ts[j].origin
               /\ a[4] = i /\ a[5] = j
<1> QED
    BY DEF EdgeKey

(* Its parts are numbers.                                                   *)
LEMMA KeyNumbers ==
    ASSUME NEW ts, Table(ts), NEW i \in DOMAIN ts, NEW j \in DOMAIN ts
    PROVE  \A k \in 1..5 : EdgeKey(ts, <<i, j>>)[k] \in Nat
<1> DEFINE a == EdgeKey(ts, <<i, j>>)
<1>1. /\ ts[i] \in Contract /\ ts[j] \in Contract /\ i \in Nat /\ j \in Nat
    BY DEF Table
<1>2. ts[i].origin \in Nat /\ ts[j].origin \in Nat
    BY <1>1 DEF Contract
<1>3. /\ a[1] = IF ts[i].kind = "Alias" THEN 1 ELSE 0
      /\ a[2] = ts[i].origin /\ a[3] = ts[j].origin
      /\ a[4] = i /\ a[5] = j
    BY KeyAt
<1> HIDE DEF a
<1>4. a[1] \in Nat /\ a[2] \in Nat /\ a[3] \in Nat /\ a[4] \in Nat /\ a[5] \in Nat
    BY <1>1, <1>2, <1>3
<1>5. \A k \in 1..5 : k = 1 \/ k = 2 \/ k = 3 \/ k = 4 \/ k = 5
    OBVIOUS
<1>6. \A k \in 1..5 : a[k] \in Nat
    BY <1>4, <1>5
<1> QED
    BY <1>6 DEF a

(* No two come before each other.                                           *)
LEMMA BeforeOneWay ==
    ASSUME NEW a, NEW b, \A k \in 1..5 : a[k] \in Nat /\ b[k] \in Nat,
           Before(a, b), Before(b, a)
    PROVE  FALSE
<1>1. PICK k \in 1..5 : a[k] < b[k] /\ \A j \in 1..(k - 1) : a[j] = b[j]
    BY DEF Before
<1>2. PICK m \in 1..5 : b[m] < a[m] /\ \A j \in 1..(m - 1) : b[j] = a[j]
    BY DEF Before
<1>3. a[k] # b[k] /\ a[m] # b[m] /\ k # m
    BY <1>1, <1>2
<1>4. k \notin 1..(m - 1) /\ m \notin 1..(k - 1)
    BY <1>1, <1>2, <1>3
<1> QED
    BY <1>3, <1>4

(* A pair's strict edge comes before its twins'.                            *)
LEMMA StrictFirst ==
    ASSUME NEW ts, Table(ts), NEW tw, Halved(ts, tw), NEW i \in DOMAIN tw, NEW j \in DOMAIN tw
    PROVE  Before(EdgeKey(ts, <<i, j>>), EdgeKey(ts, <<tw[i], tw[j]>>))
<1> DEFINE a == EdgeKey(ts, <<i, j>>)
           b == EdgeKey(ts, <<tw[i], tw[j]>>)
<1>1. i < tw[i] /\ ts[tw[i]].kind = ts[i].kind
    BY PairAt DEF Facing
<1>2. ts[tw[i]].origin = ts[i].origin /\ ts[tw[j]].origin = ts[j].origin
    BY DEF Halved, Paired
<1>3. /\ a[1] = IF ts[i].kind = "Alias" THEN 1 ELSE 0
      /\ a[2] = ts[i].origin /\ a[3] = ts[j].origin /\ a[4] = i
    BY KeyAt
<1>4. /\ b[1] = IF ts[tw[i]].kind = "Alias" THEN 1 ELSE 0
      /\ b[2] = ts[tw[i]].origin /\ b[3] = ts[tw[j]].origin /\ b[4] = tw[i]
    BY KeyAt
<1> HIDE DEF a, b
<1>5. a[1] = b[1] /\ a[2] = b[2] /\ a[3] = b[3] /\ a[4] < b[4]
    BY <1>1, <1>2, <1>3, <1>4
<1>6. \A k \in 1..5 : k < 4 => k = 1 \/ k = 2 \/ k = 3
    OBVIOUS
<1>7. 4 \in 1..5 /\ \A k \in 1..5 : k < 4 => a[k] = b[k]
    BY <1>5, <1>6
<1>8. Before(a, b)
    BY <1>5, <1>7, FirstDifference
<1> QED
    BY <1>8 DEF a, b

(* An edge that closes a cycle, taken apart.                                *)
LEMMA ClosingAt ==
    ASSUME NEW ts, NEW x, NEW y
    PROVE  <<x, y>> \in ClosingEdges(ts) <=>
              <<x, y>> \in DirectEdges(ts) /\ Together(Paths(Len(ts), DirectEdges(ts)), x, y)
<1> QED
    BY DEF ClosingEdges

(* What a strict half holds, it does not hold as a twin, nor a twin as a    *)
(* strict half.                                                             *)
LEMMA OwnKind ==
    ASSUME NEW ts, Table(ts), NEW tw, Halved(ts, tw), NEW i \in DOMAIN tw, NEW j \in DOMAIN tw
    PROVE  <<i, tw[j]>> \notin DirectEdges(ts) /\ <<tw[i], j>> \notin DirectEdges(ts)
<1>1. /\ \A v, w \in DOMAIN tw : v # tw[w]
      /\ \A v \in DOMAIN tw : ~IsShared(ts, v) /\ ~IsShared(ts, tw[v])
    BY PairsApart DEF Halved
<1>2. \A v \in DOMAIN tw : v \in DOMAIN ts /\ tw[v] \in DOMAIN ts
    BY PairAt
<1>3. ASSUME NEW x, NEW y, <<x, y>> \in DirectEdges(ts) PROVE y \in Holds(ts[x])
    BY <1>3, DirectEdge, MemberHeld DEF Names
<1>4. <<i, tw[j]>> \notin DirectEdges(ts)
    BY <1>1, <1>3 DEF Halved, Company
<1>5. <<tw[i], j>> \notin DirectEdges(ts)
    BY <1>1, <1>3 DEF Halved, Company
<1> QED
    BY <1>4, <1>5

(* A strict half's edge that is smallest leaves its twins' the next.        *)
LEMMA SmallestIsDue ==
    ASSUME NEW ts, Table(ts), NEW tw, Halved(ts, tw), Converted(ts, tw),
           NEW i \in DOMAIN tw, NEW j, <<i, j>> \in ClosingEdges(ts),
           \A e \in ClosingEdges(ts) :
              e = <<i, j>> \/ Before(EdgeKey(ts, <<i, j>>), EdgeKey(ts, e))
    PROVE  j \in DOMAIN tw /\ Between(ts, tw, i, j)
<1> DEFINE n == Len(ts)
           D == DirectEdges(ts)
           P == Paths(n, D)
<1>1. n \in Nat /\ DOMAIN ts = 1..n
    BY DEF Table
<1>2. D \in SUBSET ((1..n) \X (1..n)) /\ Forth(ts, tw, D) /\ Back(ts, tw, D)
    BY <1>1, DirectPairs, DirectsForth, DirectsBack DEF Converted
<1>3. <<i, j>> \in D /\ Together(P, i, j)
    BY ClosingAt
<1>4. \A x, y : <<x, y>> \in ClosingEdges(ts) <=> <<x, y>> \in D /\ Together(P, x, y)
    BY ClosingAt
<1>5. ClosingEdges(ts) \subseteq D
    BY DEF ClosingEdges
<1> HIDE DEF D
<1>6. j \in DOMAIN tw /\ Together(P, tw[i], tw[j])
    BY <1>1, <1>2, <1>3, PairsTogether DEF Halved
<1> HIDE DEF P
<1>7. /\ \A v, w \in DOMAIN tw : v # tw[w]
      /\ \A v \in DOMAIN tw : ~IsShared(ts, v)
    BY PairsApart DEF Halved
<1>8. <<tw[i], tw[j]>> \in ClosingEdges(ts)
    BY <1>2, <1>3, <1>4, <1>6, <1>7 DEF Forth
<1> DEFINE a == EdgeKey(ts, <<i, j>>)
           b == EdgeKey(ts, <<tw[i], tw[j]>>)
<1>9. /\ a[1] = b[1] /\ a[2] = b[2] /\ a[3] = b[3]
      /\ a[2] = ts[i].origin /\ a[3] = ts[j].origin
    <2>1. /\ ts[tw[i]].kind = ts[i].kind
          /\ ts[tw[i]].origin = ts[i].origin /\ ts[tw[j]].origin = ts[j].origin
        BY <1>6, PairAt DEF Facing, Halved, Paired
    <2>2. /\ a[1] = IF ts[i].kind = "Alias" THEN 1 ELSE 0
          /\ a[2] = ts[i].origin /\ a[3] = ts[j].origin
        BY KeyAt
    <2>3. /\ b[1] = IF ts[tw[i]].kind = "Alias" THEN 1 ELSE 0
          /\ b[2] = ts[tw[i]].origin /\ b[3] = ts[tw[j]].origin
        BY KeyAt
    <2> HIDE DEF a, b
    <2> QED
        BY <2>1, <2>2, <2>3
<1>10. ASSUME NEW v, NEW w, <<v, w>> \in ClosingEdges(ts), <<v, w>> # <<i, j>>,
              <<v, w>> # <<tw[i], tw[j]>>
       PROVE  Before(b, EdgeKey(ts, <<v, w>>))
    <2> DEFINE c == EdgeKey(ts, <<v, w>>)
    <2>1. v \in DOMAIN ts /\ w \in DOMAIN ts /\ <<v, w>> \in D
        BY <1>1, <1>2, <1>5, <1>10
    <2>2. c[2] = ts[v].origin /\ c[3] = ts[w].origin
        BY KeyAt
    <2>3. Before(a, c)
        BY <1>10
    <2> HIDE DEF a, b, c
    <2>4. PICK m \in 1..5 : a[m] < c[m] /\ \A k \in 1..(m - 1) : a[k] = c[k]
        BY <2>3 DEF Before
    <2>5. CASE m <= 3
        <3>1. m = 1 \/ m = 2 \/ m = 3
            BY <2>5
        <3>2. b[m] < c[m] /\ m \in 1..5
            BY <1>9, <2>4, <3>1
        <3>3. \A k \in 1..5 : k < m => b[k] = c[k]
            <4>1. \A k \in 1..5 : k < m => k \in 1..(m - 1) /\ (k = 1 \/ k = 2)
                BY <2>5
            <4> QED
                BY <1>9, <2>4, <4>1
        <3>4. Before(b, c)
            BY <3>2, <3>3, FirstDifference
        <3> QED
            BY <3>4 DEF b, c
    <2>6. CASE ~(m <= 3)
        <3>1. 2 \in 1..(m - 1) /\ 3 \in 1..(m - 1)
            BY <2>6
        <3>2. ts[v].origin = ts[i].origin /\ ts[w].origin = ts[j].origin
            BY <1>9, <2>2, <2>4, <3>1
        <3>3. (v = i \/ v = tw[i]) /\ (w = j \/ w = tw[j])
            <4>1. i \in DOMAIN ts /\ j \in DOMAIN ts
                BY <1>6, PairAt
            <4> QED
                BY <1>6, <1>7, <2>1, <3>2, <4>1 DEF Halved, Apart
        <3>4. <<i, tw[j]>> \notin D /\ <<tw[i], j>> \notin D
            BY <1>6, OwnKind DEF D
        <3> QED
            BY <1>10, <2>1, <3>3, <3>4
    <2> QED
        BY <2>5, <2>6
<1>11. ASSUME NEW e \in ClosingEdges(ts)
       PROVE  e = <<i, j>> \/ e = <<tw[i], tw[j]>> \/ Before(b, EdgeKey(ts, e))
    <2>1. e = <<e[1], e[2]>>
        BY <1>2, <1>5
    <2> HIDE DEF b
    <2> QED
        BY <1>10, <2>1
<1>12. Due(ts, tw, i, j)
    BY <1>8, <1>11 DEF Due
<1> QED
    BY <1>6, <1>12 DEF Between, Converted

-----------------------------------------------------------------------------
(* One round of boxes.                                                      *)

\* One member of one entry, which named another directly, got its box.
BoxedAt(ts, us, x, y, b) ==
    /\ x \in DOMAIN ts /\ y \in DOMAIN ts /\ DOMAIN us = DOMAIN ts
    /\ \A v \in DOMAIN ts : v # x => us[v] = ts[v]
    /\ us[x].kind = ts[x].kind /\ us[x].form = ts[x].form /\ us[x].origin = ts[x].origin
    /\ Len(us[x].members) = Len(ts[x].members)
    /\ b \in 1..Len(ts[x].members)
    /\ Names(ts[x].members[b].ty, y) /\ Direct(ts[x].members[b].ty)
    /\ us[x].members[b] = [ts[x].members[b] EXCEPT !.ty = Boxed(ts[x].members[b].ty)]
    /\ \A k \in 1..Len(ts[x].members) : k # b => us[x].members[k] = ts[x].members[k]

(* Boxing a contract boxes the first of such members.                       *)
LEMMA BoxFirstMembers ==
    ASSUME NEW c, NEW n, Fits(c, n), NEW target,
           \E k \in DOMAIN c.members : Names(c.members[k].ty, target) /\ Direct(c.members[k].ty)
    PROVE  LET d == BoxFirst(c, target)
           IN  /\ d.kind = c.kind /\ d.form = c.form /\ d.origin = c.origin
               /\ Len(d.members) = Len(c.members)
               /\ \E b \in 1..Len(c.members) :
                     /\ Names(c.members[b].ty, target) /\ Direct(c.members[b].ty)
                     /\ d.members[b] = [c.members[b] EXCEPT !.ty = Boxed(c.members[b].ty)]
                     /\ \A k \in 1..Len(c.members) : k # b => d.members[k] = c.members[k]
<1> DEFINE d == BoxFirst(c, target)
           len == Len(c.members)
           direct == {k \in DOMAIN c.members :
                        Names(c.members[k].ty, target) /\ Direct(c.members[k].ty)}
           tys == [k \in 1..len |->
                     IF k \in direct /\ \A j \in direct : k <= j
                     THEN [c.members[k].ty EXCEPT !.wraps = Append(c.members[k].ty.wraps, "Box")]
                     ELSE c.members[k].ty]
<1>1. /\ c \in Contract /\ len \in Nat /\ DOMAIN c.members = 1..len
      /\ c.members \in Seq(Member)
    BY FitsTypes DEF Fits
<1>2. d = Retyped(c, tys)
    BY DEF BoxFirst
<1>3. \A k \in 1..len : tys[k] = IF k \in direct /\ \A j \in direct : k <= j
                                 THEN Boxed(c.members[k].ty) ELSE c.members[k].ty
    BY DEF Boxed
<1>4. direct \in SUBSET (1..len) /\ direct # {}
    BY <1>1
<1>5. \A k \in direct : Names(c.members[k].ty, target) /\ Direct(c.members[k].ty)
    OBVIOUS
<1> HIDE DEF tys, direct
<1>6. /\ d.kind = c.kind /\ d.form = c.form /\ d.origin = c.origin
      /\ d.members = [k \in 1..len |-> [c.members[k] EXCEPT !.ty = tys[k]]]
    BY <1>1, <1>2 DEF Retyped, Contract
<1> HIDE DEF d
<1>7. Len(d.members) = len /\ \A k \in 1..len : d.members[k] = [c.members[k] EXCEPT !.ty = tys[k]]
    BY <1>1, <1>6
<1>8. PICK b \in direct : \A j \in direct : b <= j
    BY <1>1, <1>4, LeastPosition
<1>9. b \in 1..len /\ tys[b] = Boxed(c.members[b].ty)
    BY <1>3, <1>4, <1>8
<1>10. \A k \in 1..len : k # b => tys[k] = c.members[k].ty
    BY <1>3, <1>4, <1>8, <1>9
<1>11. \A k \in 1..len : [c.members[k] EXCEPT !.ty = c.members[k].ty] = c.members[k]
    <2>1. \A m \in Member : [m EXCEPT !.ty = m.ty] = m
        BY DEF Member
    <2>2. \A k \in 1..len : c.members[k] \in Member
        BY <1>1
    <2> QED
        BY <2>1, <2>2
<1>12. d.members[b] = [c.members[b] EXCEPT !.ty = Boxed(c.members[b].ty)]
    BY <1>7, <1>9
<1>13. \A k \in 1..len : k # b => d.members[k] = c.members[k]
    BY <1>7, <1>10, <1>11
<1> QED
    BY <1>5, <1>6, <1>7, <1>8, <1>9, <1>12, <1>13 DEF d

(* A round boxes along the smallest edge that closes a cycle.               *)
LEMMA BoxRoundAt ==
    ASSUME Sound, BoxRound
    PROVE  \E x, y, b :
              /\ BoxedAt(types, types', x, y, b)
              /\ <<x, y>> \in ClosingEdges(types)
              /\ \A e \in ClosingEdges(types) :
                    e = <<x, y>> \/ Before(EdgeKey(types, <<x, y>>), EdgeKey(types, e))
<1> DEFINE e == SmallestClosingEdge(types)
           x == e[1]
           y == e[2]
           n == Len(types)
<1>1. /\ n \in Nat /\ DOMAIN types = 1..n
      /\ \A v \in 1..n : Fits(types[v], n) /\ types[v] \in Contract
    BY DEF Sound, Table, Fits
<1>2. ClosingEdges(types) # {}
    BY DEF BoxRound
<1>3. /\ e \in ClosingEdges(types)
      /\ \A f \in ClosingEdges(types) \ {e} : Before(EdgeKey(types, e), EdgeKey(types, f))
    BY <1>1, <1>2, SmallestCloses
<1>4. types' = [types EXCEPT ![x] = BoxFirst(types[x], y)]
    BY DEF BoxRound
<1>5. ClosingEdges(types) \subseteq (1..n) \X (1..n)
    BY <1>1, DirectPairs DEF ClosingEdges
<1> HIDE DEF e
<1>6. e = <<x, y>> /\ x \in 1..n /\ y \in 1..n
    BY <1>3, <1>5
<1>7. <<x, y>> \in DirectEdges(types)
    BY <1>3, <1>6 DEF ClosingEdges
<1> HIDE DEF x, y
<1>8. \E k \in DOMAIN types[x].members : Names(types[x].members[k].ty, y)
                                         /\ Direct(types[x].members[k].ty)
    BY <1>7, DirectEdge
<1> DEFINE d == BoxFirst(types[x], y)
<1>9. /\ d.kind = types[x].kind /\ d.form = types[x].form /\ d.origin = types[x].origin
      /\ Len(d.members) = Len(types[x].members)
      /\ \E b \in 1..Len(types[x].members) :
            /\ Names(types[x].members[b].ty, y) /\ Direct(types[x].members[b].ty)
            /\ d.members[b] = [types[x].members[b] EXCEPT !.ty = Boxed(types[x].members[b].ty)]
            /\ \A k \in 1..Len(types[x].members) : k # b => d.members[k] = types[x].members[k]
    BY <1>1, <1>6, <1>8, BoxFirstMembers
<1>10. /\ types'[x] = d /\ DOMAIN types' = DOMAIN types
       /\ \A v \in DOMAIN types : v # x => types'[v] = types[v]
    BY <1>1, <1>4, <1>6
<1> HIDE DEF d
<1>11. PICK b \in 1..Len(types[x].members) :
            /\ Names(types[x].members[b].ty, y) /\ Direct(types[x].members[b].ty)
            /\ d.members[b] = [types[x].members[b] EXCEPT !.ty = Boxed(types[x].members[b].ty)]
            /\ \A k \in 1..Len(types[x].members) : k # b => d.members[k] = types[x].members[k]
    BY <1>9
<1>12. BoxedAt(types, types', x, y, b)
    BY <1>1, <1>6, <1>9, <1>10, <1>11 DEF BoxedAt
<1>13. /\ <<x, y>> \in ClosingEdges(types)
       /\ \A f \in ClosingEdges(types) :
             f = <<x, y>> \/ Before(EdgeKey(types, <<x, y>>), EdgeKey(types, f))
    BY <1>3, <1>6
<1> QED
    BY <1>12, <1>13

(* What a box leaves as it was: every member's presence, capture and name.  *)
LEMMA BoxedMembers ==
    ASSUME NEW ts, Table(ts), NEW us, NEW x, NEW y, NEW b, BoxedAt(ts, us, x, y, b),
           NEW v \in DOMAIN ts
    PROVE  /\ us[v].kind = ts[v].kind /\ us[v].form = ts[v].form /\ us[v].origin = ts[v].origin
           /\ Len(us[v].members) = Len(ts[v].members)
           /\ \A k \in 1..Len(ts[v].members) :
                 /\ us[v].members[k].presence = ts[v].members[k].presence
                 /\ us[v].members[k].capture = ts[v].members[k].capture
                 /\ us[v].members[k].ty.leaf = ts[v].members[k].ty.leaf
                 /\ us[v].members[k].ty.to = ts[v].members[k].ty.to
                 /\ Direct(us[v].members[k].ty) => Direct(ts[v].members[k].ty)
                 /\ v = x /\ k = b => ~Direct(us[v].members[k].ty)
                 /\ v # x \/ k # b => us[v].members[k] = ts[v].members[k]
<1>1. CASE v # x
    BY <1>1 DEF BoxedAt
<1>2. CASE v = x
    <2> DEFINE c == ts[x]
               d == us[x]
    <2>1. Fits(c, Len(ts)) /\ c.members \in Seq(Member)
        <3>1. Fits(c, Len(ts))
            BY <1>2 DEF Table
        <3> QED
            BY <3>1, FitsTypes
    <2>2. /\ b \in 1..Len(c.members) /\ c.members[b] \in Member
          /\ d.members[b] = [c.members[b] EXCEPT !.ty = Boxed(c.members[b].ty)]
          /\ \A k \in 1..Len(c.members) : k # b => d.members[k] = c.members[k]
          /\ d.kind = c.kind /\ d.form = c.form /\ d.origin = c.origin
          /\ Len(d.members) = Len(c.members)
        BY <2>1 DEF BoxedAt
    <2> HIDE DEF c, d
    <2> DEFINE m == c.members[b]
    <2>3. m.ty \in TypeRef /\ d.members[b].ty = Boxed(m.ty)
          /\ d.members[b].presence = m.presence /\ d.members[b].capture = m.capture
        BY <2>2 DEF Member
    <2> HIDE DEF m
    <2>4. Boxed(m.ty).leaf = m.ty.leaf /\ Boxed(m.ty).to = m.ty.to /\ ~Direct(Boxed(m.ty))
        BY <2>3, BoxedSameName, BoxedRef DEF SameName, Boxed
    <2> QED
        BY <1>2, <2>2, <2>3, <2>4 DEF c, d, m
<1> QED
    BY <1>1, <1>2

(* A round leaves the pairs in place.                                       *)
LEMMA BoxedHalves ==
    ASSUME NEW ts, Table(ts), NEW us, Table(us), NEW tw, Halved(ts, tw),
           NEW x, NEW y, NEW b, BoxedAt(ts, us, x, y, b)
    PROVE  Halved(us, tw)
<1>1. DOMAIN us = DOMAIN ts
    BY DEF BoxedAt
<1>2. ASSUME NEW v \in DOMAIN ts
      PROVE  /\ us[v].kind = ts[v].kind /\ us[v].form = ts[v].form
             /\ us[v].origin = ts[v].origin /\ Len(us[v].members) = Len(ts[v].members)
             /\ \A k \in 1..Len(ts[v].members) :
                   /\ us[v].members[k].presence = ts[v].members[k].presence
                   /\ us[v].members[k].capture = ts[v].members[k].capture
                   /\ us[v].members[k].ty.leaf = ts[v].members[k].ty.leaf
                   /\ us[v].members[k].ty.to = ts[v].members[k].ty.to
                   /\ v # x \/ k # b => us[v].members[k] = ts[v].members[k]
    BY BoxedMembers
<1>3. ASSUME NEW v \in DOMAIN ts PROVE Holds(us[v]) \subseteq Holds(ts[v])
    <2>1. Fits(ts[v], Len(ts)) /\ Fits(us[v], Len(us))
        BY <1>1 DEF Table
    <2>2. DOMAIN ts[v].members = 1..Len(ts[v].members)
          /\ DOMAIN us[v].members = 1..Len(us[v].members)
        BY <2>1, FitsTypes
    <2>3. \A z : z \in Holds(us[v]) <=> \E k \in 1..Len(us[v].members) :
                    us[v].members[k].ty.leaf = "Named" /\ us[v].members[k].ty.to = z
        BY <2>2, HeldBy
    <2>4. \A z : z \in Holds(ts[v]) <=> \E k \in 1..Len(ts[v].members) :
                    ts[v].members[k].ty.leaf = "Named" /\ ts[v].members[k].ty.to = z
        BY <2>2, HeldBy
    <2>5. \A z \in Holds(us[v]) : z \in Holds(ts[v])
        BY <1>2, <2>3, <2>4
    <2> QED
        BY <2>5
<1>4. ASSUME NEW i \in DOMAIN tw PROVE Facing(us[i], us[tw[i]])
    <2> DEFINE c == ts[i]
               d == ts[tw[i]]
               n == Len(c.members)
    <2>1. /\ i \in DOMAIN ts /\ tw[i] \in DOMAIN ts /\ Facing(c, d) /\ n \in Nat
          /\ DOMAIN d.members = 1..Len(d.members)
        BY PairAt
    <2>2. Len(d.members) = n + 1 => us[tw[i]].members[n + 1] = d.members[n + 1]
        <3> SUFFICES ASSUME Len(d.members) = n + 1
                     PROVE  us[tw[i]].members[n + 1] = d.members[n + 1]
            OBVIOUS
        <3>1. n + 1 \in DOMAIN d.members /\ n + 1 \in 1..Len(d.members) /\ n + 1 \notin 1..n
            BY <2>1
        <3>2. d.members[n + 1].ty.leaf = "Value"
            BY <3>1, TwinMember
        <3>3. tw[i] # x \/ n + 1 # b
            BY <3>2 DEF BoxedAt, Names
        <3> QED
            BY <1>2, <2>1, <3>1, <3>3
    <2>3. \A k \in 1..n : k \in 1..Len(d.members)
        BY <2>1 DEF Facing
    <2>4. /\ us[tw[i]].kind = us[i].kind
          /\ Len(us[i].members) = n /\ Len(us[tw[i]].members) = Len(d.members)
        BY <1>2, <2>1 DEF Facing
    <2>5. \A k \in 1..n :
             /\ us[tw[i]].members[k].presence = us[i].members[k].presence
             /\ us[tw[i]].members[k].capture = us[i].members[k].capture
        BY <1>2, <2>1, <2>3 DEF Facing
    <2>6. Len(d.members) \in n..(n + 1)
          /\ (Len(d.members) = n + 1 => us[tw[i]].members[n + 1] = CaptureMember)
        BY <2>1, <2>2 DEF Facing
    <2> HIDE DEF c, d, n
    <2> QED
        BY <2>4, <2>5, <2>6 DEF Facing
<1> QED
    BY <1>1, <1>2, <1>3, <1>4, HalvedStays

(* It takes at most one edge, and changes the order of none.                *)
LEMMA BoxedEdges ==
    ASSUME NEW ts, Table(ts), NEW us, Table(us), NEW x, NEW y, NEW b, BoxedAt(ts, us, x, y, b)
    PROVE  /\ DirectEdges(us) \subseteq DirectEdges(ts)
           /\ \A v, w : <<v, w>> \in DirectEdges(ts) /\ <<v, w>> # <<x, y>>
                 => <<v, w>> \in DirectEdges(us)
           /\ \A k \in 1..Len(ts[x].members) :
                 k # b /\ Names(ts[x].members[k].ty, y) /\ Direct(ts[x].members[k].ty)
                    => <<x, y>> \in DirectEdges(us)
           /\ ClosingEdges(us) \subseteq ClosingEdges(ts)
           /\ DirectEdges(us) = DirectEdges(ts) => ClosingEdges(us) = ClosingEdges(ts)
           /\ \A v, w \in DOMAIN ts : EdgeKey(us, <<v, w>>) = EdgeKey(ts, <<v, w>>)
<1> DEFINE D == DirectEdges(ts)
           F == DirectEdges(us)
           n == Len(ts)
<1>1. /\ n \in Nat /\ DOMAIN ts = 1..n /\ DOMAIN us = 1..n /\ Len(us) = n
      /\ x \in DOMAIN ts /\ y \in DOMAIN ts
    BY DEF Table, BoxedAt
<1>2. ASSUME NEW v \in DOMAIN ts
      PROVE  /\ us[v].kind = ts[v].kind /\ us[v].origin = ts[v].origin
             /\ Len(us[v].members) = Len(ts[v].members)
             /\ \A k \in 1..Len(ts[v].members) :
                   /\ us[v].members[k].ty.leaf = ts[v].members[k].ty.leaf
                   /\ us[v].members[k].ty.to = ts[v].members[k].ty.to
                   /\ Direct(us[v].members[k].ty) => Direct(ts[v].members[k].ty)
                   /\ v # x \/ k # b => us[v].members[k] = ts[v].members[k]
    BY BoxedMembers
<1>3. ASSUME NEW v \in DOMAIN ts
      PROVE  /\ DOMAIN ts[v].members = 1..Len(ts[v].members)
             /\ DOMAIN us[v].members = 1..Len(ts[v].members)
    <2>1. Fits(ts[v], n) /\ Fits(us[v], n)
        BY <1>1 DEF Table
    <2> QED
        BY <1>2, <2>1, FitsTypes
<1>4. \A v, w : <<v, w>> \in D <=> /\ v \in DOMAIN ts /\ w \in DOMAIN ts
                                   /\ \E k \in DOMAIN ts[v].members :
                                         Names(ts[v].members[k].ty, w)
                                         /\ Direct(ts[v].members[k].ty)
    BY DirectEdge
<1>5. \A v, w : <<v, w>> \in F <=> /\ v \in DOMAIN us /\ w \in DOMAIN us
                                   /\ \E k \in DOMAIN us[v].members :
                                         Names(us[v].members[k].ty, w)
                                         /\ Direct(us[v].members[k].ty)
    BY DirectEdge
<1>6. F \subseteq (1..n) \X (1..n) /\ D \subseteq (1..n) \X (1..n)
    BY <1>1, DirectPairs
<1> HIDE DEF D, F
<1>7. ASSUME NEW v, NEW w, <<v, w>> \in F PROVE <<v, w>> \in D
    <2>1. v \in DOMAIN ts /\ w \in DOMAIN ts
        BY <1>1, <1>5, <1>7
    <2>2. PICK k \in DOMAIN us[v].members :
                Names(us[v].members[k].ty, w) /\ Direct(us[v].members[k].ty)
        BY <1>5, <1>7
    <2>3. k \in 1..Len(ts[v].members) /\ k \in DOMAIN ts[v].members
        BY <1>3, <2>1, <2>2
    <2>4. Names(ts[v].members[k].ty, w) /\ Direct(ts[v].members[k].ty)
        BY <1>2, <2>1, <2>2, <2>3 DEF Names
    <2> QED
        BY <1>4, <2>1, <2>3, <2>4
<1>8. F \subseteq D
    <2>1. \A p \in F : p = <<p[1], p[2]>>
        BY <1>6
    <2> QED
        BY <1>7, <2>1, PairsWithin
<1>9. ASSUME NEW v, NEW w, <<v, w>> \in D, <<v, w>> # <<x, y>> PROVE <<v, w>> \in F
    <2>1. PICK k \in DOMAIN ts[v].members :
                Names(ts[v].members[k].ty, w) /\ Direct(ts[v].members[k].ty)
        BY <1>4, <1>9
    <2>2. v \in DOMAIN ts /\ w \in DOMAIN ts
        BY <1>4, <1>9
    <2>3. v # x \/ k # b
        BY <1>9, <2>1 DEF BoxedAt, Names
    <2>4. us[v].members[k] = ts[v].members[k] /\ k \in DOMAIN us[v].members
        BY <1>2, <1>3, <2>1, <2>2, <2>3
    <2> QED
        BY <1>1, <1>5, <2>1, <2>2, <2>4
<1>10. ASSUME NEW k \in 1..Len(ts[x].members), k # b,
              Names(ts[x].members[k].ty, y), Direct(ts[x].members[k].ty)
       PROVE  <<x, y>> \in F
    <2>1. us[x].members[k] = ts[x].members[k] /\ k \in DOMAIN us[x].members
        BY <1>1, <1>2, <1>3, <1>10
    <2> QED
        BY <1>1, <1>5, <1>10, <2>1
<1>11. Paths(n, F) \subseteq Paths(n, D)
    BY <1>1, <1>8, PathsMonotone
<1>12. ClosingEdges(us) = {e \in F : Together(Paths(n, F), e[1], e[2])}
    BY <1>1 DEF ClosingEdges, F
<1>13. ClosingEdges(ts) = {e \in D : Together(Paths(n, D), e[1], e[2])}
    BY <1>1 DEF ClosingEdges, D
<1>14. ClosingEdges(us) \subseteq ClosingEdges(ts)
    BY <1>8, <1>11, <1>12, <1>13 DEF Together
<1>15. F = D => ClosingEdges(us) = ClosingEdges(ts)
    BY <1>12, <1>13
<1>16. \A v, w \in DOMAIN ts : EdgeKey(us, <<v, w>>) = EdgeKey(ts, <<v, w>>)
    BY <1>2 DEF EdgeKey
<1> QED
    BY <1>8, <1>9, <1>10, <1>14, <1>15, <1>16 DEF D, F

\* The member is not the one that got the box, in either half.
Elsewhere(tw, x, b, p, k) == (p # x /\ tw[p] # x) \/ k # b

(* Members that did not change convert as they did.                         *)
LEMMA BoxedAlike ==
    ASSUME NEW ts, Table(ts), NEW us, NEW tw, Halved(ts, tw),
           NEW x, NEW y, NEW b, BoxedAt(ts, us, x, y, b),
           NEW p \in DOMAIN tw, NEW k \in 1..Len(ts[p].members),
           Elsewhere(tw, x, b, p, k)
    PROVE  /\ Alike(us[p], us[tw[p]], k, tw) <=> Alike(ts[p], ts[tw[p]], k, tw)
           /\ \A j : Behind(us[p], us[tw[p]], k, j, tw) <=> Behind(ts[p], ts[tw[p]], k, j, tw)
<1>1. /\ p \in DOMAIN ts /\ tw[p] \in DOMAIN ts /\ Facing(ts[p], ts[tw[p]])
      /\ Len(ts[p].members) \in Nat /\ Len(ts[tw[p]].members) \in Nat
    BY PairAt
<1>2. k \in 1..Len(ts[tw[p]].members)
    BY <1>1 DEF Facing
<1>3. /\ us[p].kind = ts[p].kind
      /\ us[p].members[k] = ts[p].members[k]
      /\ us[tw[p]].members[k] = ts[tw[p]].members[k]
    BY <1>1, <1>2, BoxedMembers DEF Elsewhere
<1>4. Opens(us[p], k) <=> Opens(ts[p], k)
    BY <1>3 DEF Opens
<1>5. \A ref : ReadAs(Opens(us[p], k), ref, tw) = ReadAs(Opens(ts[p], k), ref, tw)
    BY <1>4 DEF ReadAs
<1> QED
    BY <1>3, <1>5 DEF Alike, Behind

-----------------------------------------------------------------------------
(* What a round does to the pairs.                                          *)

\* No twin, and nothing both forms share, loses an edge.
TwinsKeep(ts, tw, F) ==
    /\ F \in SUBSET ((DOMAIN ts) \X (DOMAIN ts))
    /\ \A v, w :
          /\ <<v, w>> \in DirectEdges(ts)
          /\ IsShared(ts, v) \/ \E p \in DOMAIN tw : v = tw[p]
          => <<v, w>> \in F

(* Twins on one cycle stay on it while none of them loses an edge.          *)
LEMMA TwinsStayTogether ==
    ASSUME NEW ts, Table(ts), NEW tw, Halved(ts, tw), NEW F,
           TwinsKeep(ts, tw, F),
           NEW i \in DOMAIN tw, NEW j \in DOMAIN tw,
           Together(Paths(Len(ts), DirectEdges(ts)), tw[i], tw[j])
    PROVE  Together(Paths(Len(ts), F), tw[i], tw[j])
<1> DEFINE n == Len(ts)
           D == DirectEdges(ts)
           Own == {v \in 1..n : IsShared(ts, v) \/ \E p \in DOMAIN tw : v = tw[p]}
           h == [v \in 1..n |-> v]
<1>1. n \in Nat /\ DOMAIN ts = 1..n
    BY DEF Table
<1>2. D \in SUBSET ((1..n) \X (1..n)) /\ F \in SUBSET ((1..n) \X (1..n))
    BY <1>1, DirectPairs DEF TwinsKeep
<1>3. ASSUME NEW v, NEW w, <<v, w>> \in D PROVE w \in Holds(ts[v]) /\ v \in 1..n /\ w \in 1..n
    BY <1>1, <1>3, DirectEdge, MemberHeld DEF Names
<1>4. \A v \in Own : \A w \in Holds(ts[v]) :
         IsShared(ts, w) \/ \E p \in DOMAIN tw : w = tw[p]
    BY <1>1 DEF Halved, Company
<1>5. ASSUME NEW v, NEW w, <<v, w>> \in D
      PROVE  /\ v \in Own => w \in {} \/ (w \in Own /\ <<h[v], h[w]>> \in F)
             /\ v \in {} => w \in {}
    <2>1. w \in Holds(ts[v]) /\ v \in 1..n /\ w \in 1..n
        BY <1>3, <1>5
    <2>2. h[v] = v /\ h[w] = w
        BY <2>1
    <2>3. v \in Own => w \in Own
        BY <1>4, <2>1
    <2>4. v \in Own => <<v, w>> \in F
        <3>1. <<v, w>> \in DirectEdges(ts)
            BY <1>5
        <3>2. v \in Own => IsShared(ts, v) \/ \E p \in DOMAIN tw : v = tw[p]
            OBVIOUS
        <3> HIDE DEF Own, D, h, n
        <3> QED
            BY <3>1, <3>2 DEF TwinsKeep
    <2> QED
        BY <2>2, <2>3, <2>4
<1>6. \A p \in DOMAIN tw : tw[p] \in Own /\ h[tw[p]] = tw[p]
    BY <1>1, PairAt
<1> HIDE DEF D, Own, h, n
<1>7. ASSUME NEW v, NEW w, <<v, w>> \in Paths(n, D), v \in Own
      PROVE  w \in Own /\ <<h[v], h[w]>> \in Paths(n, F)
    <2> DEFINE none == {}
    <2>1. Embeds(D, F, Own, none, h)
        BY <1>5 DEF Embeds
    <2> HIDE DEF none
    <2>2. v \in Own => w \in none \/ (w \in Own /\ <<h[v], h[w]>> \in Paths(n, F))
        BY <1>1, <1>2, <1>7, <2>1, PathsEmbed
    <2> QED
        BY <1>7, <2>2 DEF none
<1>8. <<tw[i], tw[j]>> \in Paths(n, D) /\ <<tw[j], tw[i]>> \in Paths(n, D)
    BY DEF Together, D, n
<1>9. /\ <<h[tw[i]], h[tw[j]]>> \in Paths(n, F) /\ <<h[tw[j]], h[tw[i]]>> \in Paths(n, F)
    BY <1>6, <1>7, <1>8
<1> QED
    BY <1>6, <1>9 DEF Together, n

(* The strict half's box leaves its twin's due.                             *)
LEMMA BoxStrict ==
    ASSUME NEW ts, Table(ts), NEW us, Table(us), NEW tw, Halved(ts, tw),
           NEW i \in DOMAIN tw, NEW j \in DOMAIN tw, Between(ts, tw, i, j),
           <<i, j>> \in ClosingEdges(ts), NEW b, BoxedAt(ts, us, i, j, b)
    PROVE  Between(us, tw, i, j)
<1> DEFINE D == DirectEdges(ts)
           F == DirectEdges(us)
           n == Len(ts)
<1>1. /\ n \in Nat /\ DOMAIN ts = 1..n /\ Len(us) = n /\ DOMAIN us = 1..n
    BY DEF Table, BoxedAt
<1>2. /\ F \subseteq D
      /\ \A v, w : <<v, w>> \in D /\ <<v, w>> # <<i, j>> => <<v, w>> \in F
      /\ ClosingEdges(us) \subseteq ClosingEdges(ts)
      /\ F = D => ClosingEdges(us) = ClosingEdges(ts)
      /\ \A v, w \in DOMAIN ts : EdgeKey(us, <<v, w>>) = EdgeKey(ts, <<v, w>>)
    BY BoxedEdges
<1>3. /\ \A v, w \in DOMAIN tw : v # tw[w]
      /\ \A v \in DOMAIN tw : ~IsShared(ts, v)
    BY PairsApart DEF Halved
<1>4. D \subseteq (1..n) \X (1..n) /\ ClosingEdges(ts) \subseteq D
    BY <1>1, DirectPairs DEF ClosingEdges
<1>5. Due(ts, tw, i, j)
    BY DEF Between
<1> HIDE DEF F
<1>6. <<tw[i], tw[j]>> \in ClosingEdges(us)
    <2>1. <<tw[i], tw[j]>> \in D /\ Together(Paths(n, D), tw[i], tw[j])
        BY <1>5, ClosingAt DEF Due
    <2>2. <<tw[i], tw[j]>> \in F
        BY <1>2, <1>3, <2>1
    <2>3. F \in SUBSET ((DOMAIN ts) \X (DOMAIN ts))
        BY <1>1, <1>2, <1>4
    <2>4. TwinsKeep(ts, tw, F)
        BY <1>2, <1>3, <2>3 DEF TwinsKeep
    <2>5. Together(Paths(n, F), tw[i], tw[j])
        BY <2>1, <2>3, <2>4, TwinsStayTogether
    <2> QED
        BY <1>1, <2>2, <2>5, ClosingAt DEF F
<1>7. ASSUME <<i, j>> \in F PROVE <<i, j>> \in ClosingEdges(us)
    <2>1. \A p \in D : p = <<p[1], p[2]>>
        BY <1>4
    <2>2. \A v, w : <<v, w>> \in D => <<v, w>> \in F
        BY <1>2, <1>7
    <2>3. D \subseteq F
        BY <2>1, <2>2, PairsWithin
    <2> QED
        BY <1>2, <2>3
<1>8. ASSUME NEW e \in ClosingEdges(us)
      PROVE  \/ e = <<i, j>> \/ e = <<tw[i], tw[j]>>
             \/ Before(EdgeKey(us, <<tw[i], tw[j]>>), EdgeKey(us, e))
    <2>1. e \in ClosingEdges(ts)
        BY <1>2
    <2>2. e = <<e[1], e[2]>> /\ e[1] \in DOMAIN ts /\ e[2] \in DOMAIN ts
        BY <1>1, <1>4, <2>1
    <2>3. EdgeKey(us, <<e[1], e[2]>>) = EdgeKey(ts, <<e[1], e[2]>>)
        BY <1>2, <2>2
    <2>4. EdgeKey(us, <<tw[i], tw[j]>>) = EdgeKey(ts, <<tw[i], tw[j]>>)
        BY <1>2, PairAt
    <2>5. \/ e = <<i, j>> \/ e = <<tw[i], tw[j]>>
          \/ Before(EdgeKey(ts, <<tw[i], tw[j]>>), EdgeKey(ts, e))
        BY <1>5, <2>1 DEF Due
    <2> QED
        BY <2>2, <2>3, <2>4, <2>5
<1>9. Due(us, tw, i, j)
    BY <1>6, <1>7, <1>8 DEF Due, F
<1>10. ASSUME NEW p \in DOMAIN tw, NEW k \in 1..Len(us[p].members)
       PROVE  \/ Alike(us[p], us[tw[p]], k, tw)
              \/ p = i /\ Behind(us[i], us[tw[i]], k, j, tw)
    <2>1. p \in DOMAIN ts /\ k \in 1..Len(ts[p].members)
        <3>1. p \in DOMAIN ts
            BY PairAt
        <3>2. Len(us[p].members) = Len(ts[p].members)
            BY <3>1, BoxedMembers
        <3> QED
            BY <3>1, <3>2
    <2>2. \/ Alike(ts[p], ts[tw[p]], k, tw)
          \/ p = i /\ Behind(ts[i], ts[tw[i]], k, j, tw)
        BY <2>1 DEF Between
    <2>3. CASE p # i \/ k # b
        <3>1. (p # i /\ tw[p] # i) \/ k # b
            BY <1>3, <2>3
        <3> QED
            <4>1. Elsewhere(tw, i, b, p, k)
                BY <3>1 DEF Elsewhere
            <4>2. Alike(us[p], us[tw[p]], k, tw) <=> Alike(ts[p], ts[tw[p]], k, tw)
                BY <2>1, <4>1, BoxedAlike, Zenon
            <4>3. \A y : Behind(us[p], us[tw[p]], k, y, tw) <=> Behind(ts[p], ts[tw[p]], k, y, tw)
                BY <2>1, <4>1, BoxedAlike, Zenon
            <4> QED
                BY <2>1, <2>2, <4>2, <4>3
    <2>4. CASE p = i /\ k = b
        <3> DEFINE a == ts[i].members[b].ty
        <3>1. Names(a, j) /\ Direct(a)
            BY DEF BoxedAt
        <3>2. ~Behind(ts[i], ts[tw[i]], b, j, tw)
            <4>1. ASSUME NEW ref \in TypeRef, a = Boxed(ref) PROVE FALSE
                BY <3>1, <4>1, BoxedRef DEF Boxed
            <4> QED
                BY <4>1 DEF Behind
        <3>3. Alike(ts[i], ts[tw[i]], b, tw)
            BY <2>2, <2>4, <3>2
        <3>4. a \in TypeRef /\ i \in DOMAIN ts /\ tw[i] \in DOMAIN ts
            BY <2>1, <2>4, PairAt
        <3>5. us[i].members[b].ty = Boxed(a)
            <4>1. us[i].members[b] = [ts[i].members[b] EXCEPT !.ty = Boxed(ts[i].members[b].ty)]
                BY DEF BoxedAt
            <4>2. ts[i].members[b] \in Member
                <5>1. Fits(ts[i], n)
                    BY <1>1, <3>4 DEF Table
                <5> QED
                    BY <2>1, <2>4, <5>1, FitsTypes
            <4> QED
                BY <4>1, <4>2 DEF Member
        <3>6. us[tw[i]] = ts[tw[i]] /\ us[i].kind = ts[i].kind
            BY <1>3, <3>4 DEF BoxedAt
        <3>7. us[i].members[b].presence = ts[i].members[b].presence
              /\ us[i].members[b].capture = ts[i].members[b].capture
            BY <2>1, <2>4, BoxedMembers
        <3>8. Opens(us[i], b) <=> Opens(ts[i], b)
            BY <3>6, <3>7 DEF Opens
        <3>9. us[tw[i]].members[b].ty = ReadAs(Opens(us[i], b), a, tw)
            BY <3>3, <3>6, <3>8 DEF Alike, ReadAs
        <3> HIDE DEF a
        <3>10. Behind(us[i], us[tw[i]], b, j, tw)
            BY <3>1, <3>4, <3>5, <3>9 DEF Behind
        <3> QED
            BY <2>4, <3>10
    <2> QED
        BY <2>3, <2>4
<1> QED
    BY <1>9, <1>10 DEF Between

(* The twin's box brings its pair together again.                           *)
LEMMA BoxTwin ==
    ASSUME NEW ts, Table(ts), NEW us, Table(us), NEW tw, Halved(ts, tw),
           NEW i \in DOMAIN tw, NEW j \in DOMAIN tw, Between(ts, tw, i, j),
           <<i, j>> \notin DirectEdges(ts), NEW b, BoxedAt(ts, us, tw[i], tw[j], b)
    PROVE  Catching(us, tw)
<1> DEFINE D == DirectEdges(ts)
           F == DirectEdges(us)
           n == Len(ts)
           e == <<tw[i], tw[j]>>
<1>1. /\ n \in Nat /\ DOMAIN ts = 1..n /\ Len(us) = n /\ DOMAIN us = 1..n
      /\ i \in DOMAIN ts /\ tw[i] \in DOMAIN ts /\ j \in DOMAIN ts /\ tw[j] \in DOMAIN ts
      /\ \A v \in DOMAIN tw : tw[v] \in Nat
    BY PairAt DEF Table, BoxedAt
<1>2. /\ F \subseteq D
      /\ \A v, w : <<v, w>> \in D /\ <<v, w>> # e => <<v, w>> \in F
      /\ \A k \in 1..Len(ts[tw[i]].members) :
            k # b /\ Names(ts[tw[i]].members[k].ty, tw[j]) /\ Direct(ts[tw[i]].members[k].ty)
               => e \in F
      /\ F = D => ClosingEdges(us) = ClosingEdges(ts)
      /\ \A v, w \in DOMAIN ts : EdgeKey(us, <<v, w>>) = EdgeKey(ts, <<v, w>>)
    BY BoxedEdges
<1>3. /\ \A v, w \in DOMAIN tw : tw[v] = tw[w] => v = w
      /\ \A v, w \in DOMAIN tw : v # tw[w]
      /\ \A v \in DOMAIN tw : ~IsShared(ts, v) /\ ~IsShared(ts, tw[v])
    BY PairsApart DEF Halved
<1>4. D \subseteq (1..n) \X (1..n) /\ ClosingEdges(ts) \subseteq D
    BY <1>1, DirectPairs DEF ClosingEdges
<1>5. \A v, w : <<v, w>> \in D <=> /\ v \in DOMAIN ts /\ w \in DOMAIN ts
                                   /\ \E k \in DOMAIN ts[v].members :
                                         Names(ts[v].members[k].ty, w)
                                         /\ Direct(ts[v].members[k].ty)
    BY DirectEdge
<1> HIDE DEF D, F
<1> DEFINE a == ts[tw[i]].members[b].ty
<1>6. /\ Names(a, tw[j]) /\ Direct(a) /\ b \in DOMAIN ts[tw[i]].members
      /\ us[i] = ts[i] /\ us[tw[i]].kind = ts[tw[i]].kind
      /\ us[tw[i]].members[b] = [ts[tw[i]].members[b] EXCEPT !.ty = Boxed(a)]
    <2>1. DOMAIN ts[tw[i]].members = 1..Len(ts[tw[i]].members)
        BY PairAt
    <2> QED
        BY <1>1, <1>3, <2>1 DEF BoxedAt
<1>7. b \in 1..Len(ts[i].members)
    BY <1>6, TwinMember DEF Names
<1>8. us[tw[i]].members[b].ty = Boxed(a) /\ a \in TypeRef
    <2>1. Fits(ts[tw[i]], n)
        BY <1>1 DEF Table
    <2>2. ts[tw[i]].members[b] \in Member
        BY <1>6, <2>1, FitsTypes
    <2> QED
        BY <1>6, <2>2 DEF Member
<1>9. Behind(ts[i], ts[tw[i]], b, j, tw)
    <2> SUFFICES ASSUME Alike(ts[i], ts[tw[i]], b, tw) PROVE FALSE
        BY <1>7 DEF Between
    <2> DEFINE c == ts[i].members[b].ty
    <2>1. a.leaf = "Named" /\ a.to = tw[j] /\ Direct(a)
        BY <1>6 DEF Names
    <2>2. b \in DOMAIN ts[i].members /\ a.leaf = c.leaf
        BY <1>7, MembersFace
    <2>3. Direct(a) <=> Direct(c)
        BY <1>7, MembersFace
    <2>4. c.leaf = "Named" => \/ c.to \in DOMAIN tw /\ a.to = tw[c.to]
                              \/ IsShared(ts, c.to) /\ a.to = c.to
        BY <1>7, MembersFace
    <2>5. Names(c, j)
        BY <1>3, <2>1, <2>2, <2>4 DEF Names
    <2> QED
        BY <1>1, <1>5, <2>1, <2>2, <2>3, <2>5 DEF D
<1>10. Alike(us[i], us[tw[i]], b, tw)
    <2> DEFINE open == Opens(ts[i], b)
    <2> HIDE DEF open
    <2>1. PICK ref \in TypeRef : ts[i].members[b].ty = Boxed(ref) /\ a = ReadAs(open, ref, tw)
        BY <1>9 DEF Behind, open
    <2>2. ReadAs(open, Boxed(ref), tw) = Boxed(ReadAs(open, ref, tw))
        BY <1>1, ReadAsBoxed
    <2> QED
        BY <1>6, <1>8, <2>1, <2>2 DEF Alike, open
<1>11. ASSUME NEW p \in DOMAIN tw, NEW k \in 1..Len(us[p].members)
       PROVE  /\ Alike(us[p], us[tw[p]], k, tw)
                 \/ (p = i /\ k # b /\ Behind(us[i], us[tw[i]], k, j, tw)
                     /\ Behind(ts[i], ts[tw[i]], k, j, tw))
              /\ k \in 1..Len(ts[p].members)
    <2>1. p \in DOMAIN ts /\ k \in 1..Len(ts[p].members)
        <3>1. p \in DOMAIN ts
            BY PairAt
        <3>2. Len(us[p].members) = Len(ts[p].members)
            BY <3>1, BoxedMembers
        <3> QED
            BY <3>1, <3>2
    <2>2. \/ Alike(ts[p], ts[tw[p]], k, tw)
          \/ p = i /\ Behind(ts[i], ts[tw[i]], k, j, tw)
        BY <2>1 DEF Between
    <2>3. CASE p # i \/ k # b
        <3>1. (p # tw[i] /\ tw[p] # tw[i]) \/ k # b
            BY <1>3, <2>3
        <3>2. /\ Alike(us[p], us[tw[p]], k, tw) <=> Alike(ts[p], ts[tw[p]], k, tw)
              /\ Behind(us[p], us[tw[p]], k, j, tw) <=> Behind(ts[p], ts[tw[p]], k, j, tw)
            <4>1. PICK x, y : x = tw[i] /\ y = tw[j]
                OBVIOUS
            <4>2. BoxedAt(ts, us, x, y, b) /\ Elsewhere(tw, x, b, p, k)
                BY <3>1, <4>1 DEF Elsewhere
            <4>3. Alike(us[p], us[tw[p]], k, tw) <=> Alike(ts[p], ts[tw[p]], k, tw)
                BY <2>1, <4>2, BoxedAlike, Zenon
            <4>4. \A v : Behind(us[p], us[tw[p]], k, v, tw) <=> Behind(ts[p], ts[tw[p]], k, v, tw)
                BY <2>1, <4>2, BoxedAlike, Zenon
            <4> QED
                BY <4>3, <4>4
        <3> QED
            BY <2>1, <2>2, <2>3, <3>2
    <2>4. CASE p = i /\ k = b
        BY <1>10, <2>1, <2>4
    <2> QED
        BY <2>3, <2>4
<1>12. CASE \A p \in DOMAIN tw : \A k \in 1..Len(us[p].members) : Alike(us[p], us[tw[p]], k, tw)
    BY <1>12 DEF Catching, Converted
<1>13. CASE ~\A p \in DOMAIN tw : \A k \in 1..Len(us[p].members) :
                 Alike(us[p], us[tw[p]], k, tw)
    <2>1. PICK k \in 1..Len(ts[i].members) : k # b /\ Behind(ts[i], ts[tw[i]], k, j, tw)
        BY <1>11, <1>13
    <2>2. e \in F
        <3> DEFINE open == Opens(ts[i], k)
        <3> HIDE DEF open
        <3>1. PICK ref \in TypeRef : /\ Names(ref, j) /\ Direct(ref)
                                     /\ ts[tw[i]].members[k].ty = ReadAs(open, ref, tw)
            BY <2>1 DEF Behind, open
        <3>2. /\ ReadAs(open, ref, tw).leaf = "Named" /\ ReadAs(open, ref, tw).to = tw[j]
              /\ Direct(ReadAs(open, ref, tw))
            BY <1>1, <3>1, ReadAsNames DEF Names
        <3>3. k \in 1..Len(ts[tw[i]].members)
            BY PairAt DEF Facing
        <3> QED
            BY <1>2, <2>1, <3>1, <3>2, <3>3 DEF Names
    <2>3. D = F
        <3>1. \A p \in D : p = <<p[1], p[2]>>
            BY <1>4
        <3>2. \A v, w : <<v, w>> \in D => <<v, w>> \in F
            BY <1>2, <2>2
        <3>3. D \subseteq F
            BY <3>1, <3>2, PairsWithin
        <3> QED
            BY <1>2, <3>3
    <2>4. ClosingEdges(us) = ClosingEdges(ts) /\ DirectEdges(us) = DirectEdges(ts)
        BY <1>2, <2>3 DEF D, F
    <2>5. \A f \in ClosingEdges(ts) : EdgeKey(us, f) = EdgeKey(ts, f)
        <3>1. \A f \in ClosingEdges(ts) : /\ f = <<f[1], f[2]>>
                                          /\ f[1] \in DOMAIN ts /\ f[2] \in DOMAIN ts
            BY <1>1, <1>4
        <3> QED
            BY <1>2, <3>1
    <2>6. EdgeKey(us, e) = EdgeKey(ts, e)
        BY <1>1, <1>2
    <2>7. Due(us, tw, i, j)
        BY <2>4, <2>5, <2>6 DEF Between, Due
    <2>8. Between(us, tw, i, j)
        BY <1>11, <2>7 DEF Between
    <2> QED
        BY <2>8 DEF Catching
<1> QED
    BY <1>12, <1>13

(* A round leaves pairs that convert, but for boxes that are due.           *)
LEMMA BoxRoundCatches ==
    ASSUME Sound, BoxRound, Halved(types, twins), Catching(types, twins)
    PROVE  Halved(types', twins) /\ Catching(types', twins)
<1> DEFINE ts == types
           tw == twins
           D == DirectEdges(ts)
           n == Len(ts)
<1>1. PICK x, y, b :
         /\ BoxedAt(ts, types', x, y, b)
         /\ <<x, y>> \in ClosingEdges(ts)
         /\ \A e \in ClosingEdges(ts) :
               e = <<x, y>> \/ Before(EdgeKey(ts, <<x, y>>), EdgeKey(ts, e))
    BY BoxRoundAt
<1>2. Table(ts) /\ n \in Nat /\ DOMAIN ts = 1..n
    BY DEF Sound, Table
<1>3. Table(types')
    BY BoxRoundSound DEF Sound
<1>4. Halved(types', tw)
    BY <1>1, <1>2, <1>3, BoxedHalves
<1>5. /\ \A v, w \in DOMAIN tw : tw[v] = tw[w] => v = w
      /\ \A v, w \in DOMAIN tw : v # tw[w]
      /\ \A v \in DOMAIN tw : ~IsShared(ts, v) /\ ~IsShared(ts, tw[v])
    BY PairsApart DEF Halved
<1>6. \A v \in DOMAIN tw : v \in DOMAIN ts /\ tw[v] \in DOMAIN ts
    BY <1>2, PairAt
\* A twins' edge is not chosen while the strict halves' closes a cycle.
<1>7. ASSUME NEW i \in DOMAIN tw, NEW j \in DOMAIN tw, x = tw[i], y = tw[j]
      PROVE  <<i, j>> \notin ClosingEdges(ts)
    <2> SUFFICES ASSUME <<i, j>> \in ClosingEdges(ts) PROVE FALSE
        OBVIOUS
    <2> DEFINE p == EdgeKey(ts, <<i, j>>)
               q == EdgeKey(ts, <<tw[i], tw[j]>>)
    <2>1. Before(q, p)
        BY <1>1, <1>5, <1>7
    <2>2. Before(p, q)
        BY <1>2, StrictFirst
    <2>3. \A k \in 1..5 : p[k] \in Nat /\ q[k] \in Nat
        BY <1>2, <1>6, KeyNumbers
    <2> HIDE DEF p, q
    <2> QED
        BY <2>1, <2>2, <2>3, BeforeOneWay
<1>8. ASSUME NEW i \in DOMAIN tw, NEW j \in DOMAIN tw, Between(ts, tw, i, j)
      PROVE  Catching(types', tw)
    <2>1. <<x, y>> = <<i, j>> \/ <<x, y>> = <<tw[i], tw[j]>>
        <3> SUFFICES ASSUME <<x, y>> # <<i, j>>, <<x, y>> # <<tw[i], tw[j]>> PROVE FALSE
            OBVIOUS
        <3> DEFINE p == EdgeKey(ts, <<x, y>>)
                   q == EdgeKey(ts, <<tw[i], tw[j]>>)
        <3>1. Before(q, p)
            BY <1>1, <1>8 DEF Between, Due
        <3>2. Before(p, q)
            BY <1>1, <1>8 DEF Between, Due
        <3>3. x \in DOMAIN ts /\ y \in DOMAIN ts
            BY <1>1 DEF BoxedAt
        <3>4. \A k \in 1..5 : p[k] \in Nat /\ q[k] \in Nat
            BY <1>2, <1>6, <3>3, KeyNumbers
        <3> HIDE DEF p, q
        <3> QED
            BY <3>1, <3>2, <3>4, BeforeOneWay
    <2>2. CASE <<x, y>> = <<i, j>>
        <3>1. x = i /\ y = j
            BY <2>2
        <3>2. Between(types', tw, i, j)
            BY <1>1, <1>2, <1>3, <1>8, <3>1, BoxStrict
        <3> QED
            BY <3>2 DEF Catching
    <2>3. CASE <<x, y>> = <<tw[i], tw[j]>>
        <3>1. x = tw[i] /\ y = tw[j]
            BY <2>3
        <3>2. <<i, j>> \notin DirectEdges(ts)
            BY <1>7, <1>8, <3>1 DEF Between, Due
        <3> QED
            BY <1>1, <1>2, <1>3, <1>8, <3>1, <3>2, BoxTwin
    <2> QED
        BY <2>1, <2>2, <2>3
<1>9. ASSUME Converted(ts, tw) PROVE Catching(types', tw)
    <2>1. CASE x \in DOMAIN tw
        <3>1. y \in DOMAIN tw /\ Between(ts, tw, x, y)
            BY <1>1, <1>2, <1>9, <2>1, SmallestIsDue
        <3> QED
            BY <1>8, <2>1, <3>1
    <2>2. CASE \E i \in DOMAIN tw : x = tw[i]
        <3>1. PICK i \in DOMAIN tw : x = tw[i]
            BY <2>2
        <3>2. D \in SUBSET ((1..n) \X (1..n)) /\ Forth(ts, tw, D) /\ Back(ts, tw, D)
            BY <1>2, <1>9, DirectPairs, DirectsForth, DirectsBack DEF Converted
        <3>3. <<x, y>> \in D /\ Together(Paths(n, D), x, y)
            BY <1>1, ClosingAt
        <3>4. \A v, w : <<v, w>> \in ClosingEdges(ts)
                           <=> <<v, w>> \in D /\ Together(Paths(n, D), v, w)
            BY ClosingAt
        <3> HIDE DEF D
        <3>5. PICK j \in DOMAIN tw : y = tw[j] /\ Together(Paths(n, D), i, j)
            BY <1>2, <3>1, <3>2, <3>3, PairsTogether DEF Halved
        <3>6. <<i, j>> \in D
            BY <1>5, <3>1, <3>2, <3>3, <3>5 DEF Back
        <3>7. <<i, j>> \in ClosingEdges(ts)
            BY <3>4, <3>5, <3>6
        <3> QED
            BY <1>7, <3>1, <3>5, <3>7
    <2>3. CASE x \notin DOMAIN tw /\ ~\E i \in DOMAIN tw : x = tw[i]
        <3>1. \A p \in DOMAIN tw : types'[p] = ts[p] /\ types'[tw[p]] = ts[tw[p]]
            BY <1>1, <1>6, <2>3 DEF BoxedAt
        <3>2. Converted(types', tw)
            BY <1>9, <3>1 DEF Converted
        <3> QED
            BY <3>2 DEF Catching
    <2> QED
        BY <2>1, <2>2, <2>3
<1>10. Catching(types', tw)
    BY <1>8, <1>9 DEF Catching
<1> QED
    BY <1>4, <1>10

-----------------------------------------------------------------------------
(* The pairs the forms begin with.                                          *)

(* The read form of what a contract is renumbered to faces the contract.    *)
LEMMA LoosenFaces ==
    ASSUME NEW c, NEW n, Fits(c, n), NEW tw, \A i \in DOMAIN tw : tw[i] \in Nat,
           NEW form \in Form, NEW other \in Form
    PROVE  LET s == [c EXCEPT !.form = form]
               d == Loosen(RemapContract([c EXCEPT !.form = other], tw))
           IN  /\ Facing(s, d) /\ \A k \in 1..Len(s.members) : Alike(s, d, k, tw)
               /\ d.form = other /\ d.origin = c.origin
<1> DEFINE s == [c EXCEPT !.form = form]
           f == [c EXCEPT !.form = other]
           r == RemapContract(f, tw)
           d == Loosen(r)
           len == Len(c.members)
           tys == [k \in 1..len |-> Remap(c.members[k].ty, tw)]
           o == [k \in 1..len |-> Opened(r.members[k])]
<1>1. /\ c \in Contract /\ c.members \in Seq(Member) /\ len \in Nat
      /\ \A k \in 1..len : c.members[k].ty \in TypeRef
    BY FitsTypes DEF Fits
<1>2. /\ s.members = c.members /\ s.kind = c.kind
      /\ f.members = c.members /\ f.kind = c.kind /\ f.form = other
      /\ f.origin = c.origin /\ f \in Contract
    BY <1>1 DEF Contract
<1>3. \A k \in 1..len : tys[k] = Remap(c.members[k].ty, tw) /\ tys[k] \in TypeRef
    BY <1>1, RemapType
<1>4. r = Retyped(f, tys)
    BY <1>2 DEF RemapContract
<1> HIDE DEF s, f, tys
<1>5. /\ r \in Contract /\ Len(r.members) = len /\ r.kind = c.kind /\ r.form = other
      /\ \A k \in 1..len : /\ r.members[k].ty = tys[k]
                           /\ r.members[k].presence = c.members[k].presence
                           /\ r.members[k].capture = c.members[k].capture
    BY <1>2, <1>3, <1>4, RetypedType
<1>6. r.origin = c.origin
    BY <1>2, RemapKeeps
<1> HIDE DEF r
<1>7. /\ r.members \in Seq(Member) /\ DOMAIN r.members = 1..len
      /\ \A k \in 1..len : r.members[k] \in Member
    BY <1>5 DEF Contract
<1>8. ASSUME NEW k \in 1..len
      PROVE  /\ o[k].presence = c.members[k].presence /\ o[k].capture = c.members[k].capture
             /\ c.kind = "Struct" => o[k].ty = ReadAs(Opens(c, k), c.members[k].ty, tw)
    <2> DEFINE m == r.members[k]
               open == m.presence = "Required" /\ m.capture = "None"
    <2>1. m \in Member /\ o[k] = IF open THEN [m EXCEPT !.ty = Wrapped("Option", m.ty)] ELSE m
        BY <1>7 DEF Opened
    <2>2. /\ m.ty = Remap(c.members[k].ty, tw)
          /\ m.presence = c.members[k].presence /\ m.capture = c.members[k].capture
        BY <1>3, <1>5
    <2>3. c.kind = "Struct" => (Opens(c, k) <=> open)
        BY <2>2 DEF Opens
    <2> HIDE DEF o, m, open
    <2>4. o[k].presence = m.presence /\ o[k].capture = m.capture
          /\ o[k].ty = IF open THEN Wrapped("Option", m.ty) ELSE m.ty
        BY <2>1 DEF Member
    <2> QED
        BY <2>2, <2>3, <2>4 DEF ReadAs
<1>9. CASE c.kind # "Struct"
    <2>1. d = r
        BY <1>5, <1>9 DEF Loosen
    <2>2. Facing(s, d)
        BY <1>1, <1>2, <1>5, <2>1 DEF Facing
    <2>3. ASSUME NEW k \in 1..len PROVE Alike(s, d, k, tw)
        <3>1. ~Opens(s, k)
            BY <1>2, <1>9 DEF Opens
        <3> QED
            BY <1>2, <1>3, <1>5, <2>1, <3>1 DEF Alike, ReadAs
    <2> QED
        BY <1>2, <1>5, <1>6, <2>1, <2>2, <2>3 DEF s, f, r
<1>10. ASSUME c.kind = "Struct", NEW ms, d = [r EXCEPT !.members = ms],
              Len(ms) \in len..(len + 1), \A k \in 1..len : ms[k] = o[k],
              Len(ms) = len + 1 => ms[len + 1] = CaptureMember
       PROVE  /\ Facing(s, d) /\ \A k \in 1..len : Alike(s, d, k, tw)
              /\ d.form = other /\ d.origin = c.origin
    <2>1. d.members = ms /\ d.kind = c.kind /\ d.form = other /\ d.origin = c.origin
        BY <1>5, <1>6, <1>10 DEF Contract
    <2> HIDE DEF o, d
    <2>2. Facing(s, d)
        BY <1>2, <1>8, <1>10, <2>1 DEF Facing
    <2>3. ASSUME NEW k \in 1..len PROVE Alike(s, d, k, tw)
        <3>1. Opens(s, k) <=> Opens(c, k)
            BY <1>2 DEF Opens
        <3> QED
            BY <1>2, <1>8, <1>10, <2>1, <3>1 DEF Alike, ReadAs
    <2> QED
        BY <2>1, <2>2, <2>3
<1>11. CASE c.kind = "Struct"
    <2> DEFINE S == {o[k] : k \in 1..len} \cup {CaptureMember}
               more == Append(o, CaptureMember)
    <2>1. o \in [1..len -> S] /\ CaptureMember \in S /\ DOMAIN o = 1..len
        OBVIOUS
    <2>2. \/ d = [r EXCEPT !.members = o] \/ d = [r EXCEPT !.members = more]
        BY <1>5, <1>11 DEF Loosen
    <2> HIDE DEF S, o, d, len
    <2>3. o \in Seq(S) /\ Len(o) = len
        BY <1>1, <2>1
    <2>4. /\ Len(more) = len + 1 /\ more[len + 1] = CaptureMember
          /\ \A k \in 1..len : more[k] = o[k]
        BY <1>1, <2>1, <2>3
    <2> HIDE DEF more
    <2>5. Len(o) \in len..(len + 1) /\ Len(more) \in len..(len + 1) /\ Len(o) # len + 1
        BY <1>1, <2>3, <2>4
    <2>6. /\ Facing(s, d) /\ \A k \in 1..len : Alike(s, d, k, tw)
          /\ d.form = other /\ d.origin = c.origin
        BY <1>10, <1>11, <2>2, <2>4, <2>5
    <2> QED
        BY <1>2, <2>6 DEF s, d, r, f, len
<1> QED
    BY <1>9, <1>11

(* Every entry of the formed table is the read form of one before it.       *)
LEMMA TwinRunEntry ==
    ASSUME Sound, TwinRun, NEW k \in DOMAIN types'
    PROVE  \E h \in DOMAIN types : \E form \in Form :
              /\ types'[k] = ReadForm([types[h] EXCEPT !.form = form], twins')
              /\ form.half \in 0..Len(types')
              /\ IF k <= Len(types) THEN h = k /\ form = FormOf(k, twins')
                 ELSE /\ h \in Twinned /\ k = twins'[h]
                      /\ form = [mode |-> "Lenient", half |-> h]
<1> DEFINE n == Len(types)
           c == Cardinality(Twinned)
           twinOf == [i \in Twinned |-> n + Rank(Twinned, i)]
           Half(m) == CHOOSE i \in Twinned : Rank(Twinned, i) = m
           Entry(m) ==
              IF m <= n THEN [types[m] EXCEPT !.form = FormOf(m, twinOf)]
              ELSE [types[Half(m - n)] EXCEPT
                      !.form = [mode |-> "Lenient", half |-> Half(m - n)]]
<1>1. n \in Nat /\ DOMAIN types = 1..n /\ differing \subseteq 1..n
    BY DEF Sound, Table, Holders
<1>2. Twinned \in SUBSET (1..n)
    BY <1>1 DEF Twinned
<1>3. c \in Nat
    BY <1>1, <1>2, FiniteKept
<1>4. DOMAIN twinOf = Twinned /\ \A i \in Twinned : twinOf[i] \in 1..(n + c)
    <2> SUFFICES ASSUME NEW i \in Twinned PROVE twinOf[i] \in 1..(n + c)
        OBVIOUS
    <2>1. Rank(Twinned, i) \in 1..c
        BY <1>1, <1>2, RankInRange
    <2> QED
        BY <1>1, <1>3, <2>1
<1>5. /\ types' = [m \in 1..(n + c) |-> ReadForm(Entry(m), twinOf)]
      /\ twins' = twinOf
    BY DEF TwinRun
<1>6. k \in 1..(n + c) /\ Len(types') = n + c
    BY <1>1, <1>3, <1>5
<1>7. \A i \in Twinned : twinOf[i] = n + Rank(Twinned, i)
    OBVIOUS
<1> HIDE DEF twinOf
<1>8. types'[k] = ReadForm(Entry(k), twins')
    BY <1>5, <1>6
<1>9. CASE k <= n
    <2>1. k \in 1..n /\ Entry(k) = [types[k] EXCEPT !.form = FormOf(k, twinOf)]
        BY <1>1, <1>6, <1>9
    <2>2. FormOf(k, twinOf) \in Form /\ FormOf(k, twinOf).half \in 0..(n + c)
        BY <1>1, <1>3, <1>4 DEF FormOf, Form
    <2> HIDE DEF Entry
    <2> QED
        BY <1>1, <1>5, <1>6, <1>8, <1>9, <2>1, <2>2
<1>10. CASE ~(k <= n)
    <2>1. k - n \in 1..c
        BY <1>1, <1>3, <1>6, <1>10
    <2>2. \E i \in Twinned : Rank(Twinned, i) = k - n
        BY <1>1, <1>2, <2>1, RankOnto
    <2> DEFINE h == Half(k - n)
               form == [mode |-> "Lenient", half |-> h]
    <2>3. h \in Twinned /\ Rank(Twinned, h) = k - n
        BY <2>2
    <2>4. h \in 1..n
        BY <1>2, <2>3
    <2>5. Entry(k) = [types[h] EXCEPT !.form = form]
        BY <1>10
    <2>6. k = twinOf[h]
        BY <1>1, <1>3, <1>6, <1>7, <2>3
    <2> HIDE DEF Entry, h
    <2>7. form \in Form /\ form.half \in 0..(n + c)
        BY <1>1, <1>3, <2>4 DEF Form
    <2> HIDE DEF form
    <2>8. form = [mode |-> "Lenient", half |-> h]
        BY DEF form
    <2> QED
        BY <1>1, <1>5, <1>6, <1>8, <1>10, <2>3, <2>4, <2>5, <2>6, <2>7, <2>8
<1> QED
    BY <1>9, <1>10

(* No two types have one twin.                                              *)
LEMMA TwinsDiffer ==
    ASSUME Sound, TwinRun, NEW i \in Twinned, NEW j \in Twinned, twins'[i] = twins'[j]
    PROVE  i = j
<1>1. PICK n \in Nat : n = Len(types) /\ Twinned \subseteq 1..n
    BY TwinRunForms
<1>2. PICK a, b : a = Rank(Twinned, i) /\ b = Rank(Twinned, j)
    OBVIOUS
<1>3. twins'[i] = n + a /\ twins'[j] = n + b
    BY <1>1, <1>2 DEF TwinRun
<1>4. a \in Nat /\ b \in Nat
    <2>1. Twinned \in SUBSET (1..n) /\ i \in Nat /\ j \in Nat
        BY <1>1
    <2> QED
        BY <1>1, <1>2, <2>1, RankNatural
<1>5. a = b
    <2>1. n + a = n + b
        BY <1>3
    <2> QED
        BY <1>1, <1>4, <2>1
<1>6. PartOf(Twinned, n)
    BY <1>1 DEF PartOf
<1> QED
    BY <1>2, <1>5, <1>6, RankInjective

(* The forms leave pairs that convert.                                      *)
LEMMA TwinRunConverts ==
    ASSUME Sound, Tracing, Mirroring, TwinRun
    PROVE  Halved(types', twins') /\ Converted(types', twins')
<1> DEFINE n == Len(types)
           c == Cardinality(Twinned)
           tw == twins'
           us == types'
<1>1. /\ phase = "twin" /\ DiffersThrough = {}
    BY DEF TwinRun
<1>2. /\ n \in Nat /\ c \in Nat /\ DOMAIN types = 1..n /\ DOMAIN us = 1..(n + c)
      /\ DOMAIN tw = Twinned /\ Twinned \subseteq 1..n
      /\ \A i \in Twinned : tw[i] \in (n + 1)..(n + c)
      /\ \A i \in 1..n : us[i].form = FormOf(i, tw)
      /\ \A i \in (n + 1)..(n + c) : us[i].form.mode = "Lenient"
      /\ \A i \in 1..n : ~IsLenient(us[i]) => Holds(us[i]) = Holds(types[i])
      /\ \A k \in 1..(n + c) : IsLenient(us[k]) =>
            \E h \in 1..n :
               /\ k = h \/ h \in Twinned
               /\ \A x \in Holds(us[k]) : \E j \in Holds(types[h]) :
                     x = IF j \in Twinned THEN tw[j] ELSE j
    BY TwinRunForms
<1>3. \A i, j \in Twinned : tw[i] = tw[j] => i = j
    BY TwinsDiffer
<1>4. /\ \A k \in DOMAIN us : \E h \in DOMAIN types : MadeOf(k, h)
      /\ \A i \in 1..n : Fits(types[i], n)
      /\ Untwinned(types)
    BY <1>1, TwinRunMakes DEF Sound, Table, Mirroring
<1>5. \A i \in Twinned : /\ i \in 1..n /\ tw[i] \in Nat /\ tw[i] \in 1..(n + c)
                         /\ tw[i] \in (n + 1)..(n + c) /\ ~(tw[i] <= n) /\ i < tw[i]
                         /\ i \in DOMAIN us /\ tw[i] \in DOMAIN us
    BY <1>2
<1>6. \A i \in Twinned : i \in reach["request"] /\ i \in reach["response"] /\ i \in differing
    BY DEF Twinned
<1>7. ASSUME NEW i \in 1..n, i \in reach["request"], i \in reach["response"],
             NEW y \in Holds(types[i])
      PROVE  /\ y \in Twinned \/ IsShared(us, y)
             /\ i \notin Twinned => y \notin Twinned
    <2>1. input.lenient
        BY <1>1 DEF Mirroring
    <2>2. \A d \in Direction : Traced(d) /\ queue[d] = {}
        BY <1>1, <2>1 DEF Tracing, Sound, Staged
    <2>3. y \in reach["request"] /\ y \in reach["response"]
        BY <1>7, <2>2 DEF Traced, Direction
    <2>4. y \in 1..n /\ y \in DOMAIN us
        <3>1. Fits(types[i], n)
            BY <1>4
        <3>2. Holds(types[i]) \in SUBSET (1..n)
            BY <3>1, FitsHolds
        <3>3. 1..n \subseteq DOMAIN us
            BY <1>2
        <3> QED
            BY <3>2, <3>3
    <2>5. y \notin Twinned => IsShared(us, y)
        <3>1. y \notin Twinned => FormOf(y, tw) = [mode |-> "Shared", half |-> 0]
            BY <1>2, <2>3 DEF FormOf
        <3>2. us[y].form = FormOf(y, tw)
            BY <1>2, <2>4
        <3>3. y \notin Twinned => us[y].form.mode = "Shared"
            BY <3>1, <3>2
        <3> QED
            BY <2>4, <3>3 DEF IsShared
    <2>6. i \notin Twinned => y \notin Twinned
        <3>1. i \notin Twinned => i \notin differing
            BY <1>7 DEF Twinned
        <3>2. i \notin differing => Holds(types[i]) \cap differing = {}
            BY <1>1, <1>2 DEF DiffersThrough
        <3> QED
            BY <1>6, <3>1, <3>2
    <2> QED
        BY <2>5, <2>6
<1>8. ASSUME NEW i \in Twinned
      PROVE  /\ us[i].form = [mode |-> "Strict", half |-> tw[i]]
             /\ us[tw[i]].form = [mode |-> "Lenient", half |-> i]
             /\ us[tw[i]].origin = us[i].origin
             /\ Facing(us[i], us[tw[i]])
             /\ \A k \in 1..Len(us[i].members) : Alike(us[i], us[tw[i]], k, tw)
    <2> DEFINE t == types[i]
               form == FormOf(i, tw)
               other == [mode |-> "Lenient", half |-> i]
    <2>1. form = [mode |-> "Strict", half |-> tw[i]] /\ form \in Form /\ other \in Form
        BY <1>2, <1>5, <1>6 DEF FormOf, Form
    <2>2. i <= n /\ i \in DOMAIN us
        BY <1>2, <1>5
    <2>3. us[i] = ReadForm([t EXCEPT !.form = form], tw)
        BY <2>2, TwinRunEntry
    <2>4. us[tw[i]] = ReadForm([t EXCEPT !.form = other], tw)
        <3>1. tw[i] \in DOMAIN us /\ ~(tw[i] <= n)
            BY <1>5
        <3>2. PICK h \in Twinned : /\ tw[i] = tw[h]
                                   /\ us[tw[i]] = ReadForm([types[h] EXCEPT !.form =
                                            [mode |-> "Lenient", half |-> h]], tw)
            BY <3>1, TwinRunEntry
        <3>3. h = i
            BY <1>3, <3>2
        <3> QED
            BY <3>2, <3>3
    <2>5. Fits(t, n) /\ t \in Contract
        BY <1>4, <1>5 DEF Fits
    <2>6. \A v \in DOMAIN tw : tw[v] \in Nat
        BY <1>2, <1>5
    <2> HIDE DEF t, form
    <2> DEFINE s == [t EXCEPT !.form = form]
               f == [t EXCEPT !.form = other]
               d == Loosen(RemapContract(f, tw))
    <2>7. s.form = form /\ s.origin = t.origin /\ f.form = other
        BY <2>5 DEF Contract
    <2>8. us[i] = s /\ us[tw[i]] = d
        <3> HIDE DEF s, f
        <3> QED
            BY <2>1, <2>3, <2>4, <2>7 DEF ReadForm, IsLenient, s, f
    <2> HIDE DEF other
    <2>9. /\ Facing(s, d) /\ \A k \in 1..Len(s.members) : Alike(s, d, k, tw)
          /\ d.form = other /\ d.origin = t.origin
        BY <2>1, <2>5, <2>6, LoosenFaces
    <2> HIDE DEF s, d
    <2> QED
        BY <2>1, <2>7, <2>8, <2>9 DEF other
<1>9. Paired(us, tw)
    BY <1>2, <1>5, <1>8 DEF Paired
<1>10. ASSUME NEW i \in DOMAIN us, NEW j \in DOMAIN us, us[i].origin = us[j].origin
       PROVE  i = j \/ (i \in DOMAIN tw /\ j = tw[i]) \/ (j \in DOMAIN tw /\ i = tw[j])
    <2>1. PICK a \in DOMAIN types : MadeOf(i, a)
        BY <1>4
    <2>2. PICK b \in DOMAIN types : MadeOf(j, b)
        BY <1>4
    <2>3. a = b
        BY <1>4, <1>10, <2>1, <2>2 DEF MadeOf, Untwinned
    <2>4. i = a \/ (a \in Twinned /\ i = tw[a])
        BY <2>1 DEF MadeOf
    <2>5. j = b \/ (b \in Twinned /\ j = tw[b])
        BY <2>2 DEF MadeOf
    <2> QED
        BY <1>2, <2>3, <2>4, <2>5
<1>11. Apart(us, tw)
    BY <1>10 DEF Apart
<1>12. ASSUME NEW i \in Twinned, NEW y \in Holds(us[i]) PROVE y \in Twinned \/ IsShared(us, y)
    <2>1. ~IsLenient(us[i])
        <3>1. us[i].form = [mode |-> "Strict", half |-> tw[i]]
            BY <1>8, <1>12
        <3>2. us[i].form.mode = "Strict"
            BY <3>1
        <3> QED
            BY <3>2 DEF IsLenient
    <2>2. y \in Holds(types[i])
        BY <1>2, <1>5, <1>12, <2>1
    <2> QED
        BY <1>5, <1>6, <1>7, <2>2
<1>13. ASSUME NEW i \in Twinned, NEW y \in Holds(us[tw[i]])
       PROVE  (\E j \in Twinned : y = tw[j]) \/ IsShared(us, y)
    <2>1. IsLenient(us[tw[i]])
        <3>1. us[tw[i]].form = [mode |-> "Lenient", half |-> i]
            BY <1>8, <1>13
        <3>2. us[tw[i]].form.mode = "Lenient"
            BY <3>1
        <3> QED
            BY <3>2 DEF IsLenient
    <2>2. PICK h \in 1..n :
             /\ tw[i] = h \/ h \in Twinned
             /\ \A x \in Holds(us[tw[i]]) : \E j \in Holds(types[h]) :
                   x = IF j \in Twinned THEN tw[j] ELSE j
        BY <1>2, <1>5, <2>1
    <2>3. h \in Twinned
        BY <1>2, <1>5, <2>2
    <2>4. PICK j \in Holds(types[h]) : y = IF j \in Twinned THEN tw[j] ELSE j
        BY <1>13, <2>2
    <2> QED
        BY <1>6, <1>7, <2>3, <2>4
<1>14. ASSUME NEW x \in DOMAIN us, IsShared(us, x), NEW y \in Holds(us[x])
       PROVE  IsShared(us, y)
    <2>1. us[x].form.mode = "Shared" /\ ~IsLenient(us[x])
        BY <1>14 DEF IsShared, IsLenient
    <2>2. x \in 1..n
        <3>1. x \in 1..n \/ x \in (n + 1)..(n + c)
            BY <1>2
        <3> QED
            BY <1>2, <2>1, <3>1
    <2>3. x \in reach["request"] /\ x \in reach["response"] /\ x \notin Twinned
        <3>1. FormOf(x, tw).mode = "Shared"
            BY <1>2, <2>1, <2>2
        <3> QED
            BY <1>2, <3>1 DEF FormOf
    <2>4. y \in Holds(types[x])
        BY <1>2, <1>14, <2>1, <2>2
    <2> QED
        BY <1>7, <2>2, <2>3, <2>4
<1>15. Company(us, tw)
    BY <1>2, <1>12, <1>13, <1>14 DEF Company
<1>16. Converted(us, tw)
    BY <1>2, <1>8 DEF Converted
<1> QED
    BY <1>9, <1>11, <1>15, <1>16 DEF Halved

-----------------------------------------------------------------------------
(* Reopening both halves.                                                   *)

\* The member gets its Option back.
Gains(ts, x, k) ==
    /\ ts[x].kind = "Struct" /\ ts[x].members[k].presence = "Nullable"
    /\ ~SpellsOption(Unaliased(ts, ts[x].members[k].ty))

(* What reopening leaves of an entry.                                       *)
LEMMA ReopenedMembers ==
    ASSUME Sound, Reopen, NEW x \in DOMAIN types
    PROVE  LET c == types[x]
               d == types'[x]
           IN  /\ d.kind = c.kind /\ d.form = c.form /\ d.origin = c.origin
               /\ Len(d.members) = Len(c.members)
               /\ \A k \in 1..Len(c.members) :
                     /\ c.members[k].ty \in TypeRef
                     /\ d.members[k].presence = c.members[k].presence
                     /\ d.members[k].capture = c.members[k].capture
                     /\ Gains(types, x, k) =>
                           d.members[k].ty = Wrapped("Option", c.members[k].ty)
                     /\ ~Gains(types, x, k) => d.members[k] = c.members[k]
<1> DEFINE c == types[x]
           d == types'[x]
           n == Len(c.members)
           tys == [k \in 1..n |->
                     IF /\ c.kind = "Struct"
                        /\ c.members[k].presence = "Nullable"
                        /\ ~SpellsOption(Unaliased(types, c.members[k].ty))
                     THEN Wrapped("Option", c.members[k].ty) ELSE c.members[k].ty]
<1>1. Fits(c, Len(types)) /\ x \in 1..Len(types)
    BY DEF Sound, Table
<1>2. /\ c \in Contract /\ n \in Nat /\ c.members \in Seq(Member)
      /\ \A k \in 1..n : c.members[k].ty \in TypeRef
    BY <1>1, FitsTypes DEF Fits
<1>3. d = Retyped(c, tys)
    BY <1>1 DEF Reopen, Reopened
<1>4. \A k \in 1..n : tys[k] = IF Gains(types, x, k) THEN Wrapped("Option", c.members[k].ty)
                               ELSE c.members[k].ty
    BY DEF Gains
<1> HIDE DEF tys, c
<1>5. /\ d.kind = c.kind /\ d.form = c.form /\ d.origin = c.origin
      /\ d.members = [k \in 1..n |-> [c.members[k] EXCEPT !.ty = tys[k]]]
    BY <1>2, <1>3 DEF Retyped, Contract
<1> HIDE DEF d
<1>6. Len(d.members) = n /\ \A k \in 1..n : d.members[k] = [c.members[k] EXCEPT !.ty = tys[k]]
    BY <1>2, <1>5
<1>7. ASSUME NEW k \in 1..n
      PROVE  /\ d.members[k].presence = c.members[k].presence
             /\ d.members[k].capture = c.members[k].capture
             /\ d.members[k].ty = tys[k]
             /\ tys[k] = c.members[k].ty => d.members[k] = c.members[k]
    <2>1. c.members[k] \in Member
        BY <1>2
    <2>2. PICK m \in Member : m = c.members[k]
        BY <2>1
    <2>3. PICK ty : ty = tys[k]
        OBVIOUS
    <2>4. d.members[k] = [m EXCEPT !.ty = ty]
        BY <1>6, <2>2, <2>3
    <2>5. /\ [m EXCEPT !.ty = ty].presence = m.presence
          /\ [m EXCEPT !.ty = ty].capture = m.capture
          /\ [m EXCEPT !.ty = ty].ty = ty
          /\ ty = m.ty => [m EXCEPT !.ty = ty] = m
        BY DEF Member
    <2> QED
        BY <2>2, <2>3, <2>4, <2>5
<1>8. ASSUME NEW k \in 1..n
      PROVE  /\ c.members[k].ty \in TypeRef
             /\ d.members[k].presence = c.members[k].presence
             /\ d.members[k].capture = c.members[k].capture
             /\ Gains(types, x, k) => d.members[k].ty = Wrapped("Option", c.members[k].ty)
             /\ ~Gains(types, x, k) => d.members[k] = c.members[k]
    <2>1. CASE Gains(types, x, k)
        BY <1>2, <1>4, <1>7, <2>1
    <2>2. CASE ~Gains(types, x, k)
        BY <1>2, <1>4, <1>7, <2>2
    <2> QED
        BY <2>1, <2>2
<1> QED
    BY <1>5, <1>6, <1>8 DEF c, d

\* What a half may name: the like of it, or what both forms share.
Within(ts, tw, ref) == ref.leaf = "Named" => ref.to \in DOMAIN tw \/ IsShared(ts, ref.to)

(* A name in the other half.                                                *)
LEMMA RemapWithin ==
    ASSUME NEW ts, Table(ts), NEW tw, Halved(ts, tw), NEW at \in RefsOf(Len(ts)),
           Within(ts, tw, at)
    PROVE  LET r == Remap(at, tw)
           IN  /\ r \in RefsOf(Len(ts)) /\ r.leaf = at.leaf /\ r.wraps = at.wraps
               /\ at.leaf = "Named" => \/ at.to \in DOMAIN tw /\ r.to = tw[at.to]
                                       \/ IsShared(ts, at.to) /\ r = at
<1> DEFINE r == Remap(at, tw)
<1>1. /\ \A v \in DOMAIN tw : tw[v] \in Nat /\ tw[v] \in 1..Len(ts)
      /\ at \in TypeRef /\ InTable(at, Len(ts))
    BY PairAt DEF RefsOf
<1>2. /\ r \in TypeRef /\ r.leaf = at.leaf
      /\ at.leaf = "Named" /\ at.to \in DOMAIN tw => r.to = tw[at.to]
      /\ ~(at.leaf = "Named" /\ at.to \in DOMAIN tw) => r = at
    BY <1>1, RemapType
<1>3. r.wraps = at.wraps
    BY <1>1 DEF Remap, TypeRef
<1> HIDE DEF r
<1>4. InTable(r, Len(ts))
    BY <1>1, <1>2 DEF InTable
<1>5. at.leaf = "Named" => \/ at.to \in DOMAIN tw /\ r.to = tw[at.to]
                           \/ IsShared(ts, at.to) /\ r = at
    BY <1>2 DEF Within
<1> QED
    BY <1>2, <1>3, <1>4, <1>5 DEF RefsOf, r

(* Following an alias in the one half follows its twin in the other.        *)
LEMMA FollowedFaces ==
    ASSUME NEW ts, Table(ts), NEW tw, Halved(ts, tw), Converted(ts, tw),
           NEW at \in RefsOf(Len(ts)), Within(ts, tw, at)
    PROVE  /\ Followed(ts, at) \in RefsOf(Len(ts)) /\ Within(ts, tw, Followed(ts, at))
           /\ Followed(ts, Remap(at, tw)) = Remap(Followed(ts, at), tw)
<1> DEFINE r == Remap(at, tw)
<1>1. /\ r \in RefsOf(Len(ts)) /\ r.leaf = at.leaf /\ r.wraps = at.wraps
      /\ at.leaf = "Named" => \/ at.to \in DOMAIN tw /\ r.to = tw[at.to]
                              \/ IsShared(ts, at.to) /\ r = at
    BY RemapWithin
<1>2. Followed(ts, at) \in RefsOf(Len(ts))
    BY FollowedStays
<1>3. /\ DOMAIN ts = 1..Len(ts)
      /\ \A x \in DOMAIN ts : Fits(ts[x], Len(ts)) /\ DOMAIN ts[x].members = 1..Len(ts[x].members)
      /\ \A i \in DOMAIN tw : /\ i \in DOMAIN ts /\ tw[i] \in DOMAIN ts
                              /\ ts[tw[i]].kind = ts[i].kind
    BY PairAt DEF Facing
<1> HIDE DEF r
<1>4. CASE at.leaf = "Named" /\ at.wraps = << >> /\ ts[at.to].kind = "Alias"
    <2> DEFINE x == at.to
               item == ts[x].members[1].ty
    <2>1. Followed(ts, at) = item
        BY <1>4 DEF Followed
    <2>2. x \in DOMAIN ts /\ ts[x].kind = "Alias"
        BY <1>3, <1>4 DEF RefsOf, InTable
    <2>3. 1 \in 1..Len(ts[x].members) /\ 1 \in DOMAIN ts[x].members
        BY <1>3, <2>2, AliasItem
    <2>4. item.leaf = "Named" => item.to \in Holds(ts[x])
        BY <2>2, <2>3, MemberHeld
    <2> HIDE DEF x
    <2>5. CASE x \in DOMAIN tw /\ r.to = tw[x]
        <3>1. Followed(ts, r) = ts[tw[x]].members[1].ty
            BY <1>1, <1>3, <1>4, <2>2, <2>5 DEF Followed
        <3>2. Alike(ts[x], ts[tw[x]], 1, tw)
            BY <2>3, <2>5 DEF Converted
        <3>3. ~Opens(ts[x], 1)
            BY <2>2 DEF Opens
        <3>4. ts[tw[x]].members[1].ty = Remap(item, tw)
            BY <3>2, <3>3 DEF Alike, ReadAs
        <3>5. Within(ts, tw, item)
            BY <2>4, <2>5 DEF Within, Halved, Company
        <3> QED
            BY <1>2, <2>1, <3>1, <3>4, <3>5 DEF r
    <2>6. CASE IsShared(ts, x) /\ r = at
        <3>1. item.leaf = "Named" => IsShared(ts, item.to)
            BY <2>2, <2>4, <2>6 DEF Halved, Company
        <3>2. \A i \in DOMAIN tw : ~IsShared(ts, i)
            BY PairsApart DEF Halved
        <3>3. Remap(item, tw) = item
            BY <3>1, <3>2 DEF Remap
        <3> QED
            BY <1>2, <2>1, <2>6, <3>1, <3>3 DEF r, Within
    <2> QED
        BY <1>1, <1>4, <2>5, <2>6 DEF x
<1>5. CASE ~(at.leaf = "Named" /\ at.wraps = << >> /\ ts[at.to].kind = "Alias")
    <2>1. Followed(ts, at) = at
        BY <1>5 DEF Followed
    <2>2. ~(r.leaf = "Named" /\ r.wraps = << >> /\ ts[r.to].kind = "Alias")
        BY <1>1, <1>3, <1>5
    <2>3. Followed(ts, r) = r
        BY <2>2 DEF Followed
    <2> QED
        BY <1>2, <2>1, <2>3 DEF r
<1> QED
    BY <1>4, <1>5

(* Without its aliases a reference spells an Option where its twin's does.  *)
LEMMA UnaliasedFaces ==
    ASSUME NEW ts, Table(ts), NEW tw, Halved(ts, tw), Converted(ts, tw),
           NEW ref \in RefsOf(Len(ts)), Within(ts, tw, ref)
    PROVE  SpellsOption(Unaliased(ts, Remap(ref, tw))) <=> SpellsOption(Unaliased(ts, ref))
<1> DEFINE n == Len(ts)
           other == Remap(ref, tw)
<1>1. PICK f : /\ f[0] = ref
               /\ \A k \in 1..n : f[k] = Followed(ts, f[k - 1])
               /\ Unaliased(ts, ref) = f[n]
    BY UnaliasedUnfold
<1>2. other \in RefsOf(n)
    BY RemapWithin
<1> HIDE DEF other
<1>3. PICK g : /\ g[0] = other
               /\ \A k \in 1..n : g[k] = Followed(ts, g[k - 1])
               /\ Unaliased(ts, other) = g[n]
    BY <1>2, UnaliasedUnfold
<1>4. n \in Nat
    BY DEF Table
<1> DEFINE P == {k \in 0..n : /\ f[k] \in RefsOf(n) /\ Within(ts, tw, f[k])
                              /\ g[k] = Remap(f[k], tw)}
<1>5. 0 \in P
    BY <1>1, <1>3, <1>4 DEF other
<1>6. ASSUME NEW k \in 1..n, k - 1 \in P PROVE k \in P
    <2>1. PICK at : at = f[k - 1]
        OBVIOUS
    <2>2. at \in RefsOf(n) /\ Within(ts, tw, at) /\ g[k - 1] = Remap(at, tw)
        BY <1>6, <2>1
    <2>3. /\ Followed(ts, at) \in RefsOf(n) /\ Within(ts, tw, Followed(ts, at))
          /\ Followed(ts, Remap(at, tw)) = Remap(Followed(ts, at), tw)
        BY <2>2, FollowedFaces
    <2>4. f[k] = Followed(ts, at) /\ g[k] = Followed(ts, Remap(at, tw))
        BY <1>1, <1>3, <2>1, <2>2
    <2> QED
        BY <1>4, <2>3, <2>4
<1> HIDE DEF P
<1>7. 0..n \subseteq P
    BY <1>4, <1>5, <1>6, UpTo
<1>8. n \in P
    BY <1>4, <1>7
<1>9. /\ f[n] \in RefsOf(n) /\ Within(ts, tw, f[n]) /\ g[n] = Remap(f[n], tw)
    BY <1>8 DEF P
<1>10. g[n].wraps = f[n].wraps
    BY <1>9, RemapWithin
<1> QED
    BY <1>1, <1>3, <1>10 DEF SpellsOption, other

(* An Option around what is renumbered, or renumbered with it.              *)
LEMMA RemapWrapped ==
    ASSUME NEW ref \in TypeRef, NEW tw, \A i \in DOMAIN tw : tw[i] \in Nat
    PROVE  Remap(Wrapped("Option", ref), tw) = Wrapped("Option", Remap(ref, tw))
<1> DEFINE o == Wrapped("Option", ref)
           ws == <<"Option">> \o ref.wraps
           p == Remap(ref, tw)
<1>1. o = [ref EXCEPT !.wraps = ws] /\ o.leaf = ref.leaf /\ o.to = ref.to
    BY DEF Wrapped, TypeRef
<1>2. p.wraps = ref.wraps
    BY DEF Remap, TypeRef
<1>3. Wrapped("Option", p) = [p EXCEPT !.wraps = ws]
    BY <1>2 DEF Wrapped
<1> HIDE DEF ws
<1>4. Remap([ref EXCEPT !.wraps = ws], tw) = [p EXCEPT !.wraps = ws]
    BY DEF Remap, TypeRef
<1> QED
    BY <1>1, <1>3, <1>4

(* Both halves of a pair get an Option back, or neither.                    *)
LEMMA ReopenConverts ==
    ASSUME Sound, Reopen, Halved(types, twins)
    PROVE  /\ Halved(types', twins)
           /\ Converted(types, twins) => Converted(types', twins)
<1> DEFINE n == Len(types)
           tw == twins
<1>1. /\ Table(types) /\ n \in Nat /\ DOMAIN types = 1..n /\ DOMAIN types' = DOMAIN types
    BY LaterRewraps DEF Sound, Table
<1>2. ASSUME NEW x \in DOMAIN types
      PROVE  /\ types'[x].kind = types[x].kind /\ types'[x].form = types[x].form
             /\ types'[x].origin = types[x].origin
             /\ Len(types'[x].members) = Len(types[x].members)
             /\ \A k \in 1..Len(types[x].members) :
                   /\ types[x].members[k].ty \in TypeRef
                   /\ types'[x].members[k].presence = types[x].members[k].presence
                   /\ types'[x].members[k].capture = types[x].members[k].capture
                   /\ Gains(types, x, k) =>
                         types'[x].members[k].ty = Wrapped("Option", types[x].members[k].ty)
                   /\ ~Gains(types, x, k) => types'[x].members[k] = types[x].members[k]
    BY ReopenedMembers
<1>3. \A x \in DOMAIN types : Holds(types'[x]) \subseteq Holds(types[x])
    BY LaterKeeps
<1>4. ASSUME NEW i \in DOMAIN tw
      PROVE  /\ i \in DOMAIN types /\ tw[i] \in DOMAIN types
             /\ Facing(types[i], types[tw[i]]) /\ Facing(types'[i], types'[tw[i]])
    <2> DEFINE c == types[i]
               d == types[tw[i]]
               m == Len(c.members)
    <2>1. /\ i \in DOMAIN types /\ tw[i] \in DOMAIN types /\ Facing(c, d) /\ m \in Nat
          /\ Len(d.members) \in Nat
        BY <1>1, PairAt
    <2>2. Len(d.members) \in m..(m + 1) /\ d.kind = c.kind
        BY <2>1 DEF Facing
    <2>3. Len(d.members) = m + 1 => types'[tw[i]].members[m + 1] = CaptureMember
        <3> SUFFICES ASSUME Len(d.members) = m + 1
                     PROVE  types'[tw[i]].members[m + 1] = CaptureMember
            OBVIOUS
        <3>1. d.members[m + 1] = CaptureMember /\ m + 1 \in 1..Len(d.members)
            BY <2>1 DEF Facing
        <3>2. d.members[m + 1].presence # "Nullable"
            BY <3>1 DEF CaptureMember
        <3>3. ~Gains(types, tw[i], m + 1)
            BY <3>2 DEF Gains
        <3> QED
            BY <1>2, <2>1, <3>1, <3>3
    <2>4. \A k \in 1..m : k \in 1..Len(d.members)
        BY <2>1, <2>2
    <2>5. \A k \in 1..m :
             /\ types'[tw[i]].members[k].presence = types'[i].members[k].presence
             /\ types'[tw[i]].members[k].capture = types'[i].members[k].capture
        BY <1>2, <2>1, <2>4 DEF Facing
    <2>6. /\ types'[tw[i]].kind = types'[i].kind
          /\ Len(types'[i].members) = m /\ Len(types'[tw[i]].members) = Len(d.members)
        BY <1>2, <2>1, <2>2
    <2> HIDE DEF c, d, m
    <2>7. Facing(types'[i], types'[tw[i]])
        BY <2>2, <2>3, <2>5, <2>6 DEF Facing
    <2> QED
        BY <2>1, <2>7 DEF c, d
<1>5. Halved(types', tw)
    BY <1>1, <1>2, <1>3, <1>4, HalvedStays
<1>6. ASSUME Converted(types, tw), NEW i \in DOMAIN tw, NEW k \in 1..Len(types'[i].members)
      PROVE  Alike(types'[i], types'[tw[i]], k, tw)
    <2> DEFINE c == types[i]
               d == types[tw[i]]
               a == c.members[k].ty
               b == d.members[k].ty
    <2>1. /\ i \in DOMAIN types /\ tw[i] \in DOMAIN types
          /\ k \in 1..Len(c.members) /\ k \in 1..Len(d.members)
          /\ d.kind = c.kind /\ d.members[k].presence = c.members[k].presence
        BY <1>2, <1>4, <1>6, PairAt, <1>1 DEF Facing
    <2>2. a \in TypeRef /\ \A v \in DOMAIN tw : tw[v] \in Nat
        BY <1>1, <1>2, <2>1, PairAt
    <2>3. Alike(c, d, k, tw)
        BY <1>6, <2>1 DEF Converted
    <2>4. Opens(types'[i], k) <=> Opens(c, k)
        BY <1>2, <2>1 DEF Opens
    <2>5. CASE ~(c.kind = "Struct" /\ c.members[k].presence = "Nullable")
        <3>1. ~Gains(types, i, k) /\ ~Gains(types, tw[i], k)
            BY <2>1, <2>5 DEF Gains
        <3>2. types'[i].members[k] = c.members[k] /\ types'[tw[i]].members[k] = d.members[k]
            BY <1>2, <2>1, <3>1
        <3> QED
            BY <2>3, <2>4, <3>2 DEF Alike, ReadAs
    <2>6. CASE c.kind = "Struct" /\ c.members[k].presence = "Nullable"
        <3>1. ~Opens(c, k)
            BY <2>6 DEF Opens
        <3>2. b = Remap(a, tw)
            BY <2>3, <3>1 DEF Alike, ReadAs
        <3>3. a \in RefsOf(n) /\ Within(types, tw, a)
            <4>1. Fits(c, n) /\ k \in DOMAIN c.members
                BY <1>1, <2>1, PairAt
            <4>2. InTable(a, n)
                BY <2>1, <4>1 DEF Fits
            <4>3. a.leaf = "Named" => a.to \in Holds(c)
                BY <1>1, <2>1, <4>1, MemberHeld
            <4>4. Within(types, tw, a)
                BY <1>6, <4>3 DEF Within, Halved, Company
            <4> QED
                BY <2>2, <4>2, <4>4 DEF RefsOf
        <3>4. SpellsOption(Unaliased(types, Remap(a, tw)))
                 <=> SpellsOption(Unaliased(types, a))
            <4> HIDE DEF a, n
            <4> QED
                BY <1>1, <1>6, <3>3, UnaliasedFaces DEF n
        <3>5. Gains(types, tw[i], k) <=> Gains(types, i, k)
            BY <2>1, <2>6, <3>2, <3>4 DEF Gains
        <3>6. ~Opens(types'[i], k)
            BY <2>4, <3>1
        <3>7. CASE Gains(types, i, k)
            <4>1. /\ types'[i].members[k].ty = Wrapped("Option", a)
                  /\ types'[tw[i]].members[k].ty = Wrapped("Option", b)
                BY <1>2, <2>1, <3>5, <3>7
            <4>2. Remap(Wrapped("Option", a), tw) = Wrapped("Option", Remap(a, tw))
                BY <2>2, RemapWrapped
            <4> HIDE DEF a, b
            <4> QED
                BY <3>2, <3>6, <4>1, <4>2 DEF Alike, ReadAs
        <3>8. CASE ~Gains(types, i, k)
            <4>1. /\ types'[i].members[k].ty = a /\ types'[tw[i]].members[k].ty = b
                BY <1>2, <2>1, <3>5, <3>8
            <4> HIDE DEF a, b
            <4> QED
                BY <3>2, <3>6, <4>1 DEF Alike, ReadAs
        <3> QED
            BY <3>7, <3>8
    <2> QED
        BY <2>5, <2>6
<1>7. Converted(types, tw) => Converted(types', tw)
    BY <1>6 DEF Converted
<1> QED
    BY <1>5, <1>7

-----------------------------------------------------------------------------
(* The pairs, from their making to the end.                                 *)

\* The halves of a pair face each other from the forms on, and convert in every
\* phase, but for a box that is due while boxes are placed.
Converting ==
    Formed => /\ Halved(types, twins)
              /\ phase \in {"normalize", "promote"} => Converted(types, twins)
              /\ phase = "box" => Catching(types, twins)
              /\ phase \in Sized /\ FiniteSize => Converted(types, twins)

(* No box is due in a table without an edge that closes a cycle.            *)
LEMMA NothingDue ==
    ASSUME Table(types), Catching(types, twins), ~Cyclic(Len(types), DirectEdges(types))
    PROVE  Converted(types, twins)
<1> SUFFICES ASSUME NEW i \in DOMAIN twins, NEW j \in DOMAIN twins, Between(types, twins, i, j)
             PROVE  FALSE
    BY DEF Catching
<1>1. PICK x, y : x = twins[i] /\ y = twins[j]
    OBVIOUS
<1>2. <<x, y>> \in ClosingEdges(types)
    BY <1>1 DEF Between, Due
<1>3. Len(types) \in Nat /\ DirectEdges(types) \in SUBSET ((1..Len(types)) \X (1..Len(types)))
    BY DirectPairs DEF Table
<1>4. /\ <<x, y>> \in Paths(Len(types), DirectEdges(types))
      /\ <<y, x>> \in Paths(Len(types), DirectEdges(types))
    BY <1>2, ClosingAt DEF Together
<1>5. <<x, x>> \in Paths(Len(types), DirectEdges(types)) /\ x \in 1..Len(types)
    BY <1>3, <1>4, PathsJoin
<1> QED
    BY <1>5 DEF Cyclic, Recursive

(* Every step of the layer keeps the pairs.                                 *)
LEMMA NextConverts ==
    ASSUME Sound, Directed, Mirroring, Converting, [Next]_vars PROVE Converting'
<1>1. ASSUME phase' \in {"dedup", "reach", "unit", "twin"} PROVE Converting'
    BY <1>1 DEF Converting, Formed
<1>2. CASE DedupRound \/ DedupEnd \/ ReachEnd \/ DiffersRound \/ \E d \in Direction : ReachStep(d)
    BY <1>1, <1>2 DEF DedupRound, DedupEnd, ReachEnd, DiffersRound, ReachStep
<1>3. CASE UnitRun
    <2>1. phase' = "twin" \/ ~input'.lenient
        BY <1>3 DEF UnitRun
    <2> QED
        BY <1>1, <2>1 DEF Converting, Formed
<1>4. CASE TwinRun
    <2>1. phase' = "normalize"
        BY <1>4 DEF TwinRun
    <2>2. Halved(types', twins') /\ Converted(types', twins')
        BY <1>4, TwinRunConverts DEF Directed
    <2> QED
        BY <2>1, <2>2 DEF Converting, Sized
<1>5. CASE Normalize
    <2>1. phase = "normalize" /\ phase' = "promote" /\ UNCHANGED <<input, twins>>
        BY <1>5 DEF Normalize
    <2>2. Formed' => Formed
        BY <2>1 DEF Formed
    <2>3. Formed' => Halved(types', twins) /\ Converted(types', twins)
        BY <1>5, <2>1, <2>2, NormalizeConverts DEF Converting
    <2> QED
        BY <2>1, <2>3 DEF Converting, Sized
<1>6. CASE Promote
    <2>1. phase = "promote" /\ phase' = "box" /\ UNCHANGED <<input, twins>>
        BY <1>6 DEF Promote
    <2>2. Formed' => Formed
        BY <2>1 DEF Formed
    <2>3. Formed' => Halved(types', twins) /\ Converted(types', twins)
        BY <1>6, <2>1, <2>2, PromoteConverts DEF Converting
    <2> QED
        BY <2>1, <2>3 DEF Converting, Sized, Catching
<1>7. CASE BoxRound
    <2>1. phase = "box" /\ phase' = "box" /\ UNCHANGED <<input, twins>>
        BY <1>7 DEF BoxRound
    <2>2. Formed' => Formed
        BY <2>1 DEF Formed
    <2>3. Formed' => Halved(types', twins) /\ Catching(types', twins)
        BY <1>7, <2>1, <2>2, BoxRoundCatches DEF Converting
    <2> QED
        BY <2>1, <2>3 DEF Converting, Sized
<1>8. CASE BoxEnd
    <2>1. phase = "box" /\ phase' = "reopen" /\ UNCHANGED <<input, types, twins>>
        BY <1>8 DEF BoxEnd
    <2>2. Formed' => Formed
        BY <2>1 DEF Formed
    <2>3. Formed' => Halved(types, twins) /\ Catching(types, twins)
        BY <2>1, <2>2 DEF Converting
    <2>4. FiniteSize' => ~Cyclic(Len(types), DirectEdges(types))
        BY <2>1 DEF FiniteSize, Sized
    <2>5. Formed' /\ FiniteSize' => Converted(types, twins)
        BY <2>3, <2>4, NothingDue DEF Sound
    <2> QED
        BY <2>1, <2>3, <2>5 DEF Converting
<1>9. CASE Reopen
    <2>1. phase = "reopen" /\ phase' = "derive" /\ UNCHANGED <<input, twins>>
        BY <1>9 DEF Reopen
    <2>2. Formed' => Formed
        BY <2>1 DEF Formed
    <2>3. DirectEdges(types') = DirectEdges(types) /\ Len(types') = Len(types)
        BY <1>9, ReopenKeepsSizes, LaterRewraps
    <2>4. FiniteSize' => FiniteSize
        BY <2>1, <2>3 DEF FiniteSize, Sized
    <2>5. Formed' => Halved(types', twins)
        BY <1>9, <2>2, ReopenConverts DEF Converting
    <2>6. Formed' /\ FiniteSize' => Converted(types', twins)
        BY <1>9, <2>1, <2>2, <2>4, ReopenConverts DEF Converting, Sized
    <2> QED
        BY <2>1, <2>5, <2>6 DEF Converting
<1>10. CASE DeriveRound \/ Freeze
    <2>1. /\ phase = "derive" /\ phase' \in {"derive", "done", "rejected"}
          /\ UNCHANGED <<input, types, twins>>
        BY <1>10 DEF DeriveRound, Freeze
    <2>2. Formed' => Formed
        BY <2>1 DEF Formed
    <2>3. FiniteSize' => FiniteSize
        BY <2>1 DEF FiniteSize, Sized
    <2> QED
        BY <2>1, <2>2, <2>3 DEF Converting, Sized
<1>11. CASE UNCHANGED vars
    BY <1>11 DEF vars, Converting, Formed, FiniteSize, Sized
<1> QED
    BY <1>2, <1>3, <1>4, <1>5, <1>6, <1>7, <1>8, <1>9, <1>10, <1>11
    DEF Next, Tabling, Finalizing, Finished

(* The pairs, always.                                                       *)
THEOREM AlwaysConverting == Spec => []Converting
<1>1. Init => Converting
    BY DEF Init, Converting, Formed
<1>2. Sound /\ Directed /\ Mirroring /\ Converting /\ [Next]_vars => Converting'
    BY NextConverts
<1> QED
    BY <1>1, <1>2, AlwaysSound, AlwaysDirected, AlwaysMirrored, PTL DEF Spec

(* A type and its read twin convert member by member in every phase after   *)
(* the forms are made, whatever cycles the passes cut and wherever they put *)
(* boxes and Options, while a round of boxing has not left one half without *)
(* its box: each member of the twin is the strict half's, naming the twins  *)
(* of what that names, with an Option around a required one, and the twin   *)
(* has at most the capture member besides (finalize.rs).                    *)
THEOREM PairsStayConvertible == Spec => []PairsConvert
<1>1. Sound /\ Converting => PairsConvert
    <2> SUFFICES ASSUME Sound, Converting, Formed, phase # "box", FiniteSize,
                        NEW i \in DOMAIN twins
                 PROVE  LET strict == types[i]
                            twin == types[twins[i]]
                            n == Len(strict.members)
                            Half(m) == LET ref == Remap(m.ty, twins)
                                       IN  IF strict.kind = "Struct"
                                           THEN Opened([m EXCEPT !.ty = ref]).ty ELSE ref
                        IN  /\ strict.form.half = twins[i] /\ twin.form.half = i
                            /\ twin.kind = strict.kind
                            /\ Len(twin.members) \in n..(n + 1)
                            /\ Len(twin.members) = n + 1 => twin.members[n + 1] = CaptureMember
                            /\ \A k \in 1..n : twin.members[k].ty = Half(strict.members[k])
        BY DEF PairsConvert
    <2>1. phase \in {"normalize", "promote"} \/ phase \in Sized
        BY DEF Sound, Outcome, Phase, Formed, Sized
    <2>2. Halved(types, twins) /\ Converted(types, twins)
        BY <2>1 DEF Converting
    <2> DEFINE c == types[i]
               d == types[twins[i]]
    <2>3. Facing(c, d) /\ c.form.half = twins[i] /\ d.form.half = i
        <3>1. /\ c.form = [mode |-> "Strict", half |-> twins[i]]
              /\ d.form = [mode |-> "Lenient", half |-> i] /\ Facing(c, d)
            BY <2>2 DEF Halved, Paired
        <3> QED
            BY <3>1
    <2>4. i \in DOMAIN types /\ c.members \in Seq(Member)
        <3>1. i \in DOMAIN types
            BY <2>2 DEF Halved, Paired
        <3>2. Fits(c, Len(types))
            BY <3>1 DEF Sound, Table
        <3> QED
            BY <3>1, <3>2, FitsTypes
    <2>5. ASSUME NEW k \in 1..Len(c.members)
          PROVE  LET ref == Remap(c.members[k].ty, twins)
                 IN  d.members[k].ty = IF c.kind = "Struct"
                                       THEN Opened([c.members[k] EXCEPT !.ty = ref]).ty
                                       ELSE ref
        <3> DEFINE m == c.members[k]
                   ref == Remap(m.ty, twins)
                   r == [m EXCEPT !.ty = ref]
        <3>1. m \in Member
            BY <2>4
        <3>2. d.members[k].ty = ReadAs(Opens(c, k), m.ty, twins)
            BY <2>2, <2>5 DEF Converted, Alike
        <3>3. Opens(c, k) <=> c.kind = "Struct" /\ m.presence = "Required" /\ m.capture = "None"
            BY DEF Opens
        <3>4. ReadAs(Opens(c, k), m.ty, twins)
                 = IF Opens(c, k) THEN Wrapped("Option", ref) ELSE ref
            BY DEF ReadAs
        <3> HIDE DEF m, ref
        <3>5. r \in [ty : {ref}, presence : Presence, capture : Capture]
              /\ r.ty = ref /\ r.presence = m.presence /\ r.capture = m.capture
            BY <3>1 DEF Member
        <3> HIDE DEF r
        <3>6. Opened(r).ty = IF m.presence = "Required" /\ m.capture = "None"
                             THEN Wrapped("Option", ref) ELSE ref
            BY <3>5 DEF Opened
        <3>7. d.members[k].ty = IF c.kind = "Struct" THEN Opened(r).ty ELSE ref
            BY <3>2, <3>3, <3>4, <3>6
        <3> QED
            BY <3>7 DEF m, ref, r
    <2> QED
        BY <2>3, <2>5 DEF Facing
<1> QED
    BY <1>1, AlwaysSound, AlwaysConverting, PTL

==========================================================================
