-------------------------- MODULE ContractsProofs --------------------------
(* The table stays well formed through every pass, for all shapes and all   *)
(* well-formed inputs: every contract is of its type and shape, and every   *)
(* position that anything holds is a position of the table. And what the    *)
(* passes that merge and drop types may do to it: nothing that a shape, a   *)
(* finding or a named type could tell from the document.                    *)
EXTENDS Contracts, TypeGraphProofs

\* A contract that fits a table of n entries.
Fits(c, n) ==
    /\ c \in Contract
    /\ Shaped(c)
    /\ \A k \in 1..Len(c.members) : InTable(c.members[k].ty, n)
    /\ c.form.half \in 0..n

\* A table whose every contract fits it.
Table(ts) ==
    /\ ts \in Seq(Contract)
    /\ \A i \in 1..Len(ts) : Fits(ts[i], Len(ts))

\* What no pass has touched yet.
Staged ==
    /\ phase \in {"dedup", "reach", "unit", "twin"} =>
          twins = << >> /\ \A i \in 1..Len(types) : types[i].form.half = 0
    /\ phase \in {"dedup", "reach", "unit"} => differing = {}
    /\ phase # "reach" => \A d \in Direction : queue[d] = {}
    /\ phase = "dedup" => \A d \in Direction : reach[d] = {}

\* What else holds positions of the table.
Holders ==
    LET n == Len(types)
    IN  /\ byShape \in [Shapes -> TypeRef]
        /\ \A s \in Shapes : InTable(byShape[s], n)
        /\ collapses \subseteq [owner : 1..n, at : Nat]
        /\ queue \in [Direction -> SUBSET (1..n)]
        /\ reach \in [Direction -> SUBSET (1..n)]
        /\ differing \subseteq 1..n
        /\ DOMAIN twins \subseteq 1..n
        /\ \A i \in DOMAIN twins : twins[i] \in 1..n

Outcome ==
    /\ phase \in Phase
    /\ round \in Nat
    /\ reports \subseteq [cycle : SUBSET Nat, kind : CycleKind]
    /\ supported \in Seq(SUBSET Derive)
    /\ derives \in Seq(SUBSET Derive)

\* The inductive invariant.
Sound == input \in Inputs /\ Table(types) /\ Holders /\ Outcome /\ Staged

-----------------------------------------------------------------------------
(* Contracts that fit.                                                      *)

(* The members of a contract that fits hold references. *)
LEMMA FitsTypes ==
    ASSUME NEW c, NEW n, Fits(c, n)
    PROVE  /\ c.members \in Seq(Member)
           /\ DOMAIN c.members = 1..Len(c.members)
           /\ \A k \in 1..Len(c.members) : c.members[k].ty \in TypeRef
<1>1. c.members \in Seq(Member)
    BY DEF Fits, Contract
<1>2. \A k \in 1..Len(c.members) : c.members[k] \in Member
    BY <1>1
<1> QED
    BY <1>1, <1>2 DEF Member

(* A contract holds the positions that its members name. *)
LEMMA HeldBy ==
    ASSUME NEW c, NEW i, DOMAIN c.members = 1..Len(c.members)
    PROVE  i \in Holds(c) <=>
              \E k \in 1..Len(c.members) : c.members[k].ty.leaf = "Named"
                                          /\ c.members[k].ty.to = i
BY DEF Holds, References

(* A contract that fits holds positions of the table. *)
LEMMA FitsHolds ==
    ASSUME NEW c, NEW n, Fits(c, n)
    PROVE  Holds(c) \in SUBSET (1..n)
<1>1. DOMAIN c.members = 1..Len(c.members)
    BY FitsTypes
<1>2. \A k \in 1..Len(c.members) : c.members[k].ty.leaf = "Named" =>
          c.members[k].ty.to \in 1..n
    BY DEF Fits, InTable
<1>3. ASSUME NEW i \in Holds(c) PROVE i \in 1..n
    <2>1. PICK k \in 1..Len(c.members) : c.members[k].ty.leaf = "Named"
                                        /\ c.members[k].ty.to = i
        BY <1>1, HeldBy
    <2> QED
        BY <1>2, <2>1
<1> QED
    BY <1>3

(* Other types for the members, as many and all in the table, still fit. *)
LEMMA RetypedFits ==
    ASSUME NEW m \in Nat, NEW n \in Nat, NEW c, Fits(c, m), c.form.half \in 0..n, NEW tys,
           \A k \in 1..Len(c.members) : tys[k] \in TypeRef /\ InTable(tys[k], n)
    PROVE  /\ Fits(Retyped(c, tys), n)
           /\ Retyped(c, tys).form = c.form
<1> DEFINE d == Retyped(c, tys)
           len == Len(c.members)
<1>1. c \in Contract /\ Shaped(c)
    BY DEF Fits
<1>2. /\ d \in Contract /\ Len(d.members) = len /\ d.kind = c.kind /\ d.form = c.form
      /\ \A k \in 1..len : /\ d.members[k].ty = tys[k]
                           /\ d.members[k].capture = c.members[k].capture
    BY <1>1, RetypedType
<1>3. DOMAIN d.members = 1..len /\ DOMAIN c.members = 1..len
    BY <1>1, <1>2 DEF Contract
<1> HIDE DEF d
<1>4. Shaped(d)
    BY <1>1, <1>2, <1>3 DEF Shaped
<1>5. \A k \in 1..Len(d.members) : InTable(d.members[k].ty, n)
    BY <1>2
<1>6. Fits(d, n) /\ d.form = c.form
    BY <1>2, <1>4, <1>5 DEF Fits
<1> QED
    BY <1>6 DEF d

(* What a smaller table keeps fits it when it was renumbered to. *)
LEMMA KeptTable ==
    ASSUME NEW n \in Nat, NEW kept \in SUBSET (1..n), NEW ts,
           \A i \in kept : Fits(ts[i], Cardinality(kept))
    PROVE  /\ Table(Keep(ts, kept))
           /\ Len(Keep(ts, kept)) = Cardinality(kept)
<1>1. \A i \in kept : ts[i] \in Contract
    BY DEF Fits
<1>2. Keep(ts, kept) \in Seq(Contract) /\ Len(Keep(ts, kept)) = Cardinality(kept)
    BY <1>1, KeepLength
<1>3. \A k \in 1..Cardinality(kept) : \E i \in kept : Keep(ts, kept)[k] = ts[i]
    BY KeepAt
<1>4. \A k \in 1..Cardinality(kept) : Fits(Keep(ts, kept)[k], Cardinality(kept))
    BY <1>3
<1> QED
    BY <1>2, <1>4 DEF Table

(* A table rewritten entry by entry is a table. *)
LEMMA MappedTable ==
    ASSUME NEW n \in Nat, NEW ts, ts = [i \in 1..n |-> ts[i]],
           \A i \in 1..n : Fits(ts[i], n)
    PROVE  Table(ts) /\ Len(ts) = n
<1>1. \A i \in 1..n : ts[i] \in Contract
    BY DEF Fits
<1>2. ts \in [1..n -> Contract]
    BY <1>1
<1>3. ts \in Seq(Contract) /\ Len(ts) = n
    BY <1>2
<1> QED
    BY <1>3 DEF Table

-----------------------------------------------------------------------------
(* Dedup.                                                                   *)

(* What a type merges into is of its group. *)
LEMMA SurvivorGrouped ==
    ASSUME NEW ts, NEW n \in Nat, DOMAIN ts = 1..n, NEW i \in 1..n
    PROVE  Survivor(ts, i) \in Group(ts, i) /\ Group(ts, i) \in SUBSET (1..n)
<1> DEFINE pinned == {x \in Group(ts, i) : Pinned(ts[x])}
<1>1. i \in Group(ts, i) /\ Group(ts, i) \in SUBSET (1..n)
    BY DEF Group
<1>2. \A S \in SUBSET (1..n) : S # {} => First(S) \in S
    <2> SUFFICES ASSUME NEW S \in SUBSET (1..n), S # {} PROVE First(S) \in S
        OBVIOUS
    <2>1. \E x \in S : \A y \in S : x <= y
        BY LeastPosition
    <2> QED
        BY <2>1 DEF First
<1>3. CASE pinned # {}
    <2>1. pinned \in SUBSET (1..n) /\ pinned \in SUBSET Group(ts, i)
        BY <1>1
    <2>2. First(pinned) \in pinned
        BY <1>2, <1>3, <2>1
    <2>3. Survivor(ts, i) = First(pinned)
        BY <1>3 DEF Survivor
    <2> QED
        BY <1>1, <2>1, <2>2, <2>3
<1>4. CASE pinned = {}
    BY <1>1, <1>2, <1>4 DEF Survivor
<1> QED
    BY <1>3, <1>4

(* The position a merged type goes to is one that stays. *)
LEMMA TargetStays ==
    ASSUME NEW ts, NEW n \in Nat, DOMAIN ts = 1..n, NEW i \in 1..n
    PROVE  Target(ts, i) \in (1..n) \ Plan(ts)
<1> DEFINE s == Survivor(ts, i)
<1>1. s \in Group(ts, i) /\ s \in 1..n
    BY SurvivorGrouped
<1>2. Group(ts, s) = Group(ts, i)
    BY <1>1 DEF Group
<1>3. Survivor(ts, s) = s
    BY <1>2 DEF Survivor
<1> HIDE DEF s
<1>4. Target(ts, s) = s
    BY <1>3 DEF Target
<1>5. CASE Pinned(ts[i])
    <2>1. Target(ts, i) = i
        BY <1>5 DEF Target
    <2> QED
        BY <2>1 DEF Plan
<1>6. CASE ~Pinned(ts[i])
    <2>1. Target(ts, i) = s
        BY <1>6 DEF Target, s
    <2>2. s \notin Plan(ts)
        BY <1>4 DEF Plan
    <2> QED
        BY <1>1, <2>1, <2>2
<1> QED
    BY <1>5, <1>6

(* What a type merges into has its contract. *)
LEMMA TargetAlike ==
    ASSUME NEW ts, NEW n \in Nat, DOMAIN ts = 1..n, NEW i \in 1..n
    PROVE  Fingerprint(ts[Target(ts, i)]) = Fingerprint(ts[i])
<1>1. Survivor(ts, i) \in Group(ts, i)
    BY SurvivorGrouped
<1> QED
    BY <1>1 DEF Target, Group

(* Renumbering to positions of a smaller table fits the contract to it. *)
LEMMA RemapFits ==
    ASSUME NEW m \in Nat, NEW n \in Nat, NEW c, Fits(c, m), c.form.half \in 0..n, NEW moved,
           \A i \in DOMAIN moved : moved[i] \in 1..n,
           \A k \in 1..Len(c.members) :
              c.members[k].ty.leaf = "Named" =>
                 c.members[k].ty.to \in (DOMAIN moved) \cup (1..n)
    PROVE  /\ Fits(RemapContract(c, moved), n)
           /\ RemapContract(c, moved).form = c.form
<1> DEFINE tys == [k \in 1..Len(c.members) |-> Remap(c.members[k].ty, moved)]
<1>1. \A k \in 1..Len(c.members) : c.members[k].ty \in TypeRef
    BY FitsTypes
<1>2. \A i \in DOMAIN moved : moved[i] \in Nat
    OBVIOUS
<1>3. ASSUME NEW k \in 1..Len(c.members)
      PROVE  tys[k] \in TypeRef /\ InTable(tys[k], n)
    <2>1. tys[k] = Remap(c.members[k].ty, moved)
        OBVIOUS
    <2> QED
        BY <1>1, <1>2, <2>1, RemapType DEF InTable
<1>4. RemapContract(c, moved) = Retyped(c, tys)
    BY DEF RemapContract
<1> HIDE DEF tys
<1>5. Fits(Retyped(c, tys), n) /\ Retyped(c, tys).form = c.form
    BY <1>3, RetypedFits
<1> QED
    BY <1>4, <1>5

(* A merge rewrites every holder, so that everything stays in the table. *)
LEMMA DedupRoundSound ==
    ASSUME Sound, DedupRound PROVE Sound'
<1> DEFINE n == Len(types)
           kept == (DOMAIN types) \ Plan(types)
           c == Cardinality(kept)
           moved == [i \in 1..n |-> Rank(kept, Target(types, i))]
           whole == [i \in 1..n |-> RemapContract(types[i], moved)]
<1>1. /\ types \in Seq(Contract) /\ n \in Nat /\ DOMAIN types = 1..n
      /\ \A i \in 1..n : Fits(types[i], n) /\ types[i].form.half = 0
    BY DEF Sound, Table, Staged, DedupRound
<1>2. kept \in SUBSET (1..n)
    BY <1>1
<1>3. c \in Nat
    BY <1>1, <1>2, FiniteKept
<1>4. \A i \in 1..n : moved[i] \in 1..c
    <2> SUFFICES ASSUME NEW i \in 1..n PROVE moved[i] \in 1..c
        OBVIOUS
    <2>1. Target(types, i) \in kept
        BY <1>1, TargetStays
    <2>2. Rank(kept, Target(types, i)) \in 1..c
        BY <1>1, <1>2, <2>1, RankInRange
    <2> QED
        BY <2>2
<1>5. types' = Keep(whole, kept) /\ phase = "dedup" /\ phase' = phase
    BY DEF DedupRound, Renumber
<1>6. DOMAIN moved = 1..n
    OBVIOUS
<1>7. byShape' = [s \in Shapes |-> Remap(byShape[s], moved)]
    BY DEF DedupRound, Renumber
<1>8. collapses' = {[x EXCEPT !.owner = moved[x.owner]] : x \in
                        {y \in collapses : y.owner \in DOMAIN moved}}
    BY DEF DedupRound, Renumber
<1>9. \A i \in 1..n : Fits(whole[i], c) /\ whole[i].form.half = 0
    <2> SUFFICES ASSUME NEW i \in 1..n
                 PROVE  Fits(whole[i], c) /\ whole[i].form.half = 0
        OBVIOUS
    <2>1. \A k \in 1..Len(types[i].members) :
              types[i].members[k].ty.leaf = "Named" => types[i].members[k].ty.to \in 1..n
        BY <1>1 DEF Fits, InTable
    <2>2. types[i].form.half \in 0..c /\ Fits(types[i], n)
        BY <1>1, <1>3
    <2> HIDE DEF moved
    <2>3. \A k \in 1..Len(types[i].members) : types[i].members[k].ty.leaf = "Named" =>
              types[i].members[k].ty.to \in (DOMAIN moved) \cup (1..c)
        BY <1>6, <2>1
    <2>4. Fits(RemapContract(types[i], moved), c)
          /\ RemapContract(types[i], moved).form = types[i].form
        <3> HIDE DEF n, c, kept
        <3> QED
            BY <1>1, <1>3, <1>4, <1>6, <2>2, <2>3, RemapFits
    <2> QED
        BY <1>1, <2>4
<1> HIDE DEF moved, whole, kept
<1>10. /\ Table(types') /\ Len(types') = c
       /\ \A k \in 1..c : types'[k].form.half = 0
    <2>1. \A i \in kept : Fits(whole[i], c)
        BY <1>2, <1>9
    <2>2. /\ Table(Keep(whole, kept)) /\ Len(Keep(whole, kept)) = c
          /\ \A k \in 1..c : \E i \in kept : Keep(whole, kept)[k] = whole[i]
        <3>1. n \in Nat
            BY <1>1
        <3> HIDE DEF n
        <3>2. \A i \in kept : Fits(whole[i], Cardinality(kept))
            BY <2>1
        <3>3. Table(Keep(whole, kept))
            BY <1>2, <3>1, <3>2, KeptTable
        <3>4. Len(Keep(whole, kept)) = Cardinality(kept)
            BY <1>2, <3>1, <3>2, KeptTable
        <3>5. \A k \in 1..Cardinality(kept) : \E i \in kept : Keep(whole, kept)[k] = whole[i]
            BY <1>2, <3>1, KeepAt
        <3> QED
            BY <3>3, <3>4, <3>5
    <2>3. \A i \in kept : whole[i].form.half = 0
        BY <1>2, <1>9
    <2> QED
        BY <1>5, <2>2, <2>3
<1>11. \A s \in Shapes : byShape'[s] \in TypeRef /\ InTable(byShape'[s], c)
    <2> SUFFICES ASSUME NEW s \in Shapes
                 PROVE  byShape'[s] \in TypeRef /\ InTable(byShape'[s], c)
        OBVIOUS
    <2>1. byShape[s] \in TypeRef /\ InTable(byShape[s], n)
        BY DEF Sound, Holders
    <2>2. \A i \in DOMAIN moved : moved[i] \in Nat
        BY <1>3, <1>4, <1>6
    <2>3. byShape'[s] = Remap(byShape[s], moved)
        BY <1>7
    <2> QED
        BY <1>4, <1>6, <2>1, <2>2, <2>3, RemapType DEF InTable
<1>12. byShape' \in [Shapes -> TypeRef]
    BY <1>7, <1>11
<1>13. collapses' \subseteq [owner : 1..c, at : Nat]
    <2>1. collapses \subseteq [owner : 1..n, at : Nat]
        BY DEF Sound, Holders
    <2> QED
        BY <1>4, <1>8, <2>1
<1>14. queue' = queue /\ reach' = reach /\ differing' = differing /\ twins' = twins
    BY DEF DedupRound
<1>15. /\ \A d \in Direction : queue[d] = {} /\ reach[d] = {}
       /\ differing = {} /\ twins = << >>
       /\ queue \in [Direction -> SUBSET (1..n)] /\ reach \in [Direction -> SUBSET (1..n)]
    BY <1>5 DEF Sound, Staged, Holders
<1>16. queue \in [Direction -> SUBSET (1..c)] /\ reach \in [Direction -> SUBSET (1..c)]
    BY <1>15
<1>17. Holders'
    BY <1>10, <1>11, <1>12, <1>13, <1>14, <1>15, <1>16 DEF Holders
<1>18. Staged'
    BY <1>5, <1>10, <1>14, <1>15 DEF Staged
<1>19. Outcome' /\ input' \in Inputs
    BY DEF Sound, Outcome, DedupRound
<1> QED
    BY <1>10, <1>17, <1>18, <1>19 DEF Sound

(* Leaving the merge seeds the worklists with positions of the table. *)
LEMMA DedupEndSound ==
    ASSUME Sound, DedupEnd PROVE Sound'
<1> DEFINE n == Len(types)
<1>1. \A S \in SUBSET Shapes : Seeds(S) \in SUBSET (1..n)
    BY DEF Sound, Holders, Seeds, InTable, TypeRef
<1>2. input.requests \in SUBSET Shapes /\ input.responses \in SUBSET Shapes
    BY InputsAssumption DEF Sound, WellFormed
<1>3. queue' \in [Direction -> SUBSET (1..n)]
    <2>1. CASE input.lenient
        <3>1. queue' = [d \in Direction |->
                 Seeds(IF d = "request" THEN input.requests ELSE input.responses)]
            BY <2>1 DEF DedupEnd
        <3> QED
            BY <1>1, <1>2, <3>1
    <2>2. CASE ~input.lenient
        BY <2>2 DEF Sound, Holders, DedupEnd
    <2> QED
        BY <2>1, <2>2
<1>4. phase' \in {"reach", "unit"} /\ (phase' = "unit" => queue' = queue)
    BY DEF DedupEnd
<1>5. types' = types /\ phase = "dedup"
    BY DEF DedupEnd
<1>6. Table(types') /\ input' \in Inputs
    BY <1>5 DEF Sound, DedupEnd
<1>7. Holders'
    BY <1>3, <1>5 DEF Sound, Holders, DedupEnd
<1>8. Outcome'
    BY <1>4 DEF Sound, Outcome, DedupEnd, Phase
<1>9. Staged'
    BY <1>4, <1>5 DEF Sound, Staged, DedupEnd
<1> QED
    BY <1>6, <1>7, <1>8, <1>9 DEF Sound

(* A worklist only ever holds positions of the table. *)
LEMMA ReachStepSound ==
    ASSUME Sound, NEW d \in Direction, ReachStep(d) PROVE Sound'
<1> DEFINE n == Len(types)
           at == CHOOSE i \in queue[d] : TRUE
<1>1. queue \in [Direction -> SUBSET (1..n)] /\ reach \in [Direction -> SUBSET (1..n)]
    BY DEF Sound, Holders
<1>2. at \in queue[d] /\ at \in 1..n
    BY <1>1 DEF ReachStep
<1>3. Holds(types[at]) \in SUBSET (1..n)
    <2>1. Fits(types[at], n)
        BY <1>2 DEF Sound, Table
    <2> QED
        BY <2>1, FitsHolds
<1>4. /\ reach' = [reach EXCEPT ![d] = reach[d] \cup {at}]
      /\ queue' = [queue EXCEPT ![d] = (queue[d] \ {at})
                     \cup (IF Unseen(d, at) THEN Holds(types[at]) ELSE {})]
      /\ phase = "reach" /\ phase' = phase
    BY DEF ReachStep
<1>5. reach' \in [Direction -> SUBSET (1..n)]
    BY <1>1, <1>2, <1>4
<1>6. queue' \in [Direction -> SUBSET (1..n)]
    BY <1>1, <1>3, <1>4
<1>7. Table(types') /\ input' \in Inputs /\ Outcome'
    BY DEF Sound, Outcome, ReachStep
<1>8. Holders'
    BY <1>5, <1>6 DEF Sound, Holders, ReachStep
<1>9. Staged'
    BY <1>4 DEF Sound, Staged, ReachStep
<1> QED
    BY <1>7, <1>8, <1>9 DEF Sound

(* Leaving the worklists moves no position. *)
LEMMA ReachEndSound ==
    ASSUME Sound, ReachEnd PROVE Sound'
<1>1. Table(types') /\ input' \in Inputs /\ Holders'
    BY DEF Sound, Holders, ReachEnd
<1>2. Outcome'
    BY DEF Sound, Outcome, ReachEnd, Phase
<1>3. Staged'
    BY DEF Sound, Staged, ReachEnd
<1> QED
    BY <1>1, <1>2, <1>3 DEF Sound

-----------------------------------------------------------------------------
(* Unit.                                                                    *)

(* Once the unit variants are, no contract names a type that is dropped:    *)
(* whatever else holds one keeps it out of Units.                           *)
LEMMA UnitVariantsFit ==
    ASSUME Table(types), NEW i \in 1..Len(types), types[i].form.half = 0
    PROVE  LET c == UnitVariants(types[i], Units)
           IN  /\ Fits(c, Len(types))
               /\ c.form.half = 0
               /\ \A k \in 1..Len(c.members) :
                     c.members[k].ty.leaf = "Named" => c.members[k].ty.to \notin Units
<1> DEFINE n == Len(types)
           t == types[i]
           len == Len(t.members)
           tys == [k \in 1..len |-> UnitRef(t.members[k].ty, Units)]
<1>1. n \in Nat /\ DOMAIN types = 1..n /\ Fits(t, n)
    BY DEF Table
<1>2. DOMAIN t.members = 1..len /\ \A k \in 1..len : t.members[k].ty \in TypeRef
    BY <1>1, FitsTypes
<1>3. \A k \in 1..len : InTable(t.members[k].ty, n)
    BY <1>1 DEF Fits
<1>4. Units \cap HeldAsType(t) = {}
    BY <1>1 DEF Units
<1>5. ASSUME NEW k \in 1..len, t.members[k].ty.leaf = "Named",
             ~(t.kind = "TaggedEnum" /\ Bare(t.members[k].ty))
      PROVE  t.members[k].ty.to \notin Units
    <2>1. t.members[k].ty.to \in HeldAsType(t)
        BY <1>2, <1>5 DEF HeldAsType, References
    <2> QED
        BY <1>4, <2>1
<1> HIDE DEF t
<1>6. CASE t.kind # "TaggedEnum"
    <2>1. UnitVariants(t, Units) = t
        BY <1>6 DEF UnitVariants
    <2> QED
        BY <1>1, <1>5, <1>6, <2>1 DEF t
<1>7. CASE t.kind = "TaggedEnum"
    <2>1. UnitVariants(t, Units) = Retyped(t, tys)
        BY <1>7 DEF UnitVariants
    <2>2. \A k \in 1..len :
              \/ tys[k] = LeafRef("Unit")
              \/ tys[k] = t.members[k].ty /\ ~(Bare(tys[k]) /\ tys[k].to \in Units)
        BY DEF UnitRef
    <2>3. LeafRef("Unit") \in TypeRef /\ LeafRef("Unit").leaf # "Named"
        BY DEF LeafRef, TypeRef, Leaf
    <2>4. \A k \in 1..len : tys[k] \in TypeRef /\ InTable(tys[k], n)
        BY <1>2, <1>3, <2>2, <2>3 DEF InTable
    <2>5. \A k \in 1..len : tys[k].leaf = "Named" => tys[k].to \notin Units
        BY <1>5, <2>2, <2>3
    <2>6. t.form.half = 0 /\ t.form.half \in 0..n
        BY <1>1 DEF t
    <2> HIDE DEF tys
    <2>7. Fits(Retyped(t, tys), n) /\ Retyped(t, tys).form = t.form
        BY <1>1, <2>4, <2>6, RetypedFits
    <2>8. t \in Contract
        BY <1>1 DEF Fits
    <2>9. Len(Retyped(t, tys).members) = len
          /\ \A k \in 1..len : Retyped(t, tys).members[k].ty = tys[k]
        BY <2>4, <2>8, RetypedType
    <2> QED
        BY <2>1, <2>5, <2>6, <2>7, <2>9 DEF t
<1> QED
    BY <1>6, <1>7

(* Dropping the units rewrites every holder that is left.                   *)
LEMMA UnitRunSound ==
    ASSUME Sound, UnitRun PROVE Sound'
<1> DEFINE n == Len(types)
           kept == (DOMAIN types) \ Units
           c == Cardinality(kept)
           moved == [i \in kept |-> Rank(kept, i)]
           whole == [i \in 1..n |-> RemapContract(UnitVariants(types[i], Units), moved)]
<1>1. /\ n \in Nat /\ DOMAIN types = 1..n /\ Table(types)
      /\ \A i \in 1..n : types[i].form.half = 0
    BY DEF Sound, Table, Staged, UnitRun
<1>2. kept \in SUBSET (1..n)
    BY <1>1
<1>3. c \in Nat
    BY <1>1, <1>2, FiniteKept
<1>4. DOMAIN moved = kept /\ \A i \in kept : moved[i] \in 1..c
    BY <1>1, <1>2, RankInRange
<1>5. /\ types' = Keep(whole, kept)
      /\ byShape' = [s \in Shapes |-> Remap(UnitRef(byShape[s], Units), moved)]
      /\ collapses' = {[x EXCEPT !.owner = moved[x.owner]] : x \in
                          {y \in collapses : y.owner \in kept}}
      /\ reach' = [d \in Direction |-> {moved[i] : i \in reach[d] \cap kept}]
      /\ phase = "unit" /\ phase' \in {"twin", "normalize"}
      /\ queue' = queue /\ twins' = twins /\ differing' \subseteq DOMAIN types'
    BY DEF UnitRun
<1> HIDE DEF moved
<1>6. \A i \in 1..n : Fits(whole[i], c) /\ whole[i].form.half = 0
    <2> SUFFICES ASSUME NEW i \in 1..n
                 PROVE  Fits(whole[i], c) /\ whole[i].form.half = 0
        OBVIOUS
    <2> DEFINE v == UnitVariants(types[i], Units)
    <2>1. /\ Fits(v, n) /\ v.form.half = 0
          /\ \A k \in 1..Len(v.members) :
                v.members[k].ty.leaf = "Named" => v.members[k].ty.to \notin Units
        BY <1>1, UnitVariantsFit
    <2> HIDE DEF v
    <2>2. \A k \in 1..Len(v.members) :
              v.members[k].ty.leaf = "Named" => v.members[k].ty.to \in (DOMAIN moved) \cup (1..c)
        BY <1>1, <1>4, <2>1 DEF Fits, InTable
    <2>3. v.form.half \in 0..c
        BY <1>3, <2>1
    <2>4. Fits(RemapContract(v, moved), c) /\ RemapContract(v, moved).form = v.form
        <3> HIDE DEF n, c, kept
        <3> QED
            BY <1>1, <1>3, <1>4, <2>1, <2>2, <2>3, RemapFits
    <2> QED
        BY <2>1, <2>4 DEF v
<1> HIDE DEF whole
<1>7. \A s \in Shapes : byShape'[s] \in TypeRef /\ InTable(byShape'[s], c)
    <2> SUFFICES ASSUME NEW s \in Shapes
                 PROVE  byShape'[s] \in TypeRef /\ InTable(byShape'[s], c)
        OBVIOUS
    <2> DEFINE ref == UnitRef(byShape[s], Units)
    <2>1. byShape[s] \in TypeRef /\ InTable(byShape[s], n)
        BY DEF Sound, Holders
    <2>2. LeafRef("Unit") \in TypeRef /\ LeafRef("Unit").leaf # "Named"
        BY DEF LeafRef, TypeRef, Leaf
    <2>3. byShape[s].leaf = "Named" /\ ~Bare(byShape[s]) => byShape[s].to \notin Units
        BY DEF Units, ShapedAsType
    <2>4. ref \in TypeRef /\ (ref.leaf = "Named" => ref.to \in kept)
        BY <1>1, <2>1, <2>2, <2>3 DEF UnitRef, InTable
    <2>5. \A i \in DOMAIN moved : moved[i] \in Nat
        BY <1>3, <1>4
    <2>6. byShape'[s] = Remap(ref, moved)
        BY <1>5
    <2> HIDE DEF ref
    <2> QED
        BY <1>4, <2>4, <2>5, <2>6, RemapType DEF InTable
<1> HIDE DEF kept
<1>8. Table(types') /\ Len(types') = c /\ \A k \in 1..c : types'[k].form.half = 0
    <2>1. \A i \in kept : Fits(whole[i], c) /\ whole[i].form.half = 0
        BY <1>2, <1>6
    <2>2. n \in Nat
        BY <1>1
    <2> HIDE DEF n
    <2>3. Table(Keep(whole, kept)) /\ Len(Keep(whole, kept)) = c
        BY <1>2, <2>1, <2>2, KeptTable
    <2>4. \A k \in 1..Cardinality(kept) : \E i \in kept : Keep(whole, kept)[k] = whole[i]
        BY <1>2, <2>2, KeepAt
    <2> QED
        BY <1>5, <2>1, <2>3, <2>4
<1>9. byShape' \in [Shapes -> TypeRef]
    BY <1>5, <1>7
<1>10. collapses' \subseteq [owner : 1..c, at : Nat]
    <2>1. collapses \subseteq [owner : 1..n, at : Nat]
        BY DEF Sound, Holders
    <2> QED
        BY <1>4, <1>5, <2>1
<1>11. reach' \in [Direction -> SUBSET (1..c)]
    BY <1>4, <1>5
<1>12. queue' \in [Direction -> SUBSET (1..c)] /\ \A d \in Direction : queue'[d] = {}
    BY <1>5 DEF Sound, Staged, Holders
<1>13. DOMAIN types' = 1..c
    BY <1>3, <1>8 DEF Table
<1>14. Holders'
    BY <1>5, <1>7, <1>8, <1>9, <1>10, <1>11, <1>12, <1>13 DEF Sound, Staged, Holders
<1>15. Staged'
    BY <1>5, <1>8, <1>12 DEF Sound, Staged
<1>16. Outcome' /\ input' \in Inputs
    BY <1>5 DEF Sound, Outcome, UnitRun, Phase
<1> QED
    BY <1>8, <1>14, <1>15, <1>16 DEF Sound

-----------------------------------------------------------------------------
(* Twin.                                                                    *)

(* The fixed point over differing forms moves no position. *)
LEMMA DiffersRoundSound ==
    ASSUME Sound, DiffersRound PROVE Sound'
<1>1. DOMAIN types = 1..Len(types) /\ differing \subseteq 1..Len(types)
    BY DEF Sound, Holders, Table
<1>2. differing' \subseteq 1..Len(types)
    BY <1>1 DEF DiffersRound, DiffersThrough
<1>3. Table(types') /\ input' \in Inputs /\ Outcome'
    BY DEF Sound, Outcome, DiffersRound
<1>4. Holders'
    BY <1>2 DEF Sound, Holders, DiffersRound
<1>5. Staged'
    BY DEF Sound, Staged, DiffersRound
<1> QED
    BY <1>3, <1>4, <1>5 DEF Sound

(* The read form of a struct fits wherever the struct fits. *)
LEMMA LoosenFits ==
    ASSUME NEW n \in Nat, NEW c, Fits(c, n)
    PROVE  Fits(Loosen(c), n)
<1> DEFINE len == Len(c.members)
           opened == [k \in 1..len |-> Opened(c.members[k])]
<1>1. c \in Contract /\ Shaped(c) /\ c.form.half \in 0..n
      /\ \A k \in 1..len : InTable(c.members[k].ty, n)
    BY DEF Fits
<1>2. c.members \in Seq(Member) /\ DOMAIN c.members = 1..len /\ len \in Nat
    BY FitsTypes
<1>3. ASSUME NEW k \in 1..len
      PROVE  opened[k] \in Member /\ InTable(opened[k].ty, n)
    <2>1. c.members[k] \in Member /\ c.members[k].ty \in TypeRef
        BY <1>2, FitsTypes
    <2>2. /\ Wrapped("Option", c.members[k].ty) \in TypeRef
          /\ Wrapped("Option", c.members[k].ty).leaf = c.members[k].ty.leaf
          /\ Wrapped("Option", c.members[k].ty).to = c.members[k].ty.to
        BY <2>1, WrappedType DEF Wrap, Through
    <2>3. opened[k] = Opened(c.members[k])
        OBVIOUS
    <2> QED
        BY <1>1, <2>1, <2>2, <2>3 DEF Opened, Member, InTable
<1>4. CaptureMember \in Member /\ CaptureMember.ty.leaf # "Named"
    <2>1. LeafRef("Value") \in TypeRef /\ LeafRef("Value").leaf = "Value"
        BY DEF LeafRef, TypeRef, Leaf
    <2>2. Wrapped("Map", LeafRef("Value")) \in TypeRef
          /\ Wrapped("Map", LeafRef("Value")).leaf = "Value"
        BY <2>1, WrappedType DEF Wrap, Indirecting
    <2> QED
        BY <2>2 DEF CaptureMember, Member, Presence, Capture
<1>5. CASE c.kind # "Struct"
    BY <1>5 DEF Loosen
<1>6. ASSUME c.kind = "Struct",
             NEW ms \in Seq(Member),
             \A k \in 1..Len(ms) : InTable(ms[k].ty, n)
      PROVE  Fits([c EXCEPT !.members = ms], n)
    <2>1. [c EXCEPT !.members = ms] \in Contract
        BY <1>1 DEF Contract
    <2>2. /\ [c EXCEPT !.members = ms].members = ms
          /\ [c EXCEPT !.members = ms].kind = "Struct"
          /\ [c EXCEPT !.members = ms].form = c.form
        BY <1>1, <1>6 DEF Contract
    <2> QED
        BY <1>1, <1>6, <2>1, <2>2 DEF Fits, Shaped
<1>7. opened \in [1..len -> Member]
    BY <1>3
<1>8. opened \in Seq(Member) /\ Len(opened) = len
    BY <1>2, <1>7
<1> HIDE DEF opened
<1>9. /\ Append(opened, CaptureMember) \in Seq(Member)
      /\ \A k \in 1..Len(Append(opened, CaptureMember)) :
            InTable(Append(opened, CaptureMember)[k].ty, n)
    <2>1. /\ Append(opened, CaptureMember) \in Seq(Member)
          /\ Len(Append(opened, CaptureMember)) = len + 1
          /\ \A k \in 1..(len + 1) : Append(opened, CaptureMember)[k] =
                IF k <= len THEN opened[k] ELSE CaptureMember
        BY <1>2, <1>4, <1>8
    <2>2. InTable(CaptureMember.ty, n)
        BY <1>4 DEF InTable
    <2> QED
        BY <1>2, <1>3, <2>1, <2>2
<1>10. CASE c.kind = "Struct"
    <2>1. \/ Loosen(c) = [c EXCEPT !.members = opened]
          \/ Loosen(c) = [c EXCEPT !.members = Append(opened, CaptureMember)]
        BY <1>10 DEF Loosen, opened
    <2> QED
        BY <1>3, <1>6, <1>8, <1>9, <1>10, <2>1
<1> QED
    BY <1>5, <1>10

(* Another form fits when its half is in the table. *)
LEMMA FormFits ==
    ASSUME NEW m \in Nat, NEW n \in Nat, m <= n, NEW c, Fits(c, m),
           NEW form \in Form, form.half \in 0..n
    PROVE  /\ Fits([c EXCEPT !.form = form], n)
           /\ [c EXCEPT !.form = form].form = form
<1>1. c \in Contract /\ Shaped(c) /\ \A k \in 1..Len(c.members) : InTable(c.members[k].ty, m)
    BY DEF Fits
<1>2. [c EXCEPT !.form = form] \in Contract
    BY <1>1 DEF Contract
<1>3. /\ [c EXCEPT !.form = form].members = c.members
      /\ [c EXCEPT !.form = form].kind = c.kind
      /\ [c EXCEPT !.form = form].form = form
    BY <1>1 DEF Contract
<1> HIDE DEF Contract
<1>4. \A k \in 1..Len(c.members) : InTable(c.members[k].ty, n)
    BY <1>1 DEF InTable
<1> QED
    BY <1>1, <1>2, <1>3, <1>4 DEF Fits, Shaped

(* The read twins are appended, each reached by its strict half, and the    *)
(* lenient forms move to them.                                              *)
LEMMA TwinRunSound ==
    ASSUME Sound, TwinRun PROVE Sound'
<1> DEFINE n == Len(types)
           c == Cardinality(Twinned)
           twinOf == [i \in Twinned |-> n + Rank(Twinned, i)]
           Half(k) == CHOOSE i \in Twinned : Rank(Twinned, i) = k
           Entry(k) ==
              IF k <= n THEN [types[k] EXCEPT !.form = FormOf(k, twinOf)]
              ELSE [types[Half(k - n)] EXCEPT
                      !.form = [mode |-> "Lenient", half |-> Half(k - n)]]
<1>1. /\ n \in Nat /\ Table(types) /\ differing \subseteq 1..n
      /\ \A i \in 1..n : Fits(types[i], n)
    BY DEF Sound, Table, Holders
<1>2. Twinned \in SUBSET (1..n)
    BY <1>1 DEF Twinned
<1>3. c \in Nat
    BY <1>1, <1>2, FiniteKept
<1>4. DOMAIN twinOf = Twinned /\ \A i \in Twinned : twinOf[i] \in 1..(n + c)
    <2> SUFFICES ASSUME NEW i \in Twinned PROVE twinOf[i] \in 1..(n + c)
        OBVIOUS
    <2>1. Rank(Twinned, i) \in 1..c
        BY <1>1, <1>2, RankInRange
    <2> QED
        BY <1>1, <1>3, <2>1
<1>5. /\ types' = [k \in 1..(n + c) |-> ReadForm(Entry(k), twinOf)]
      /\ twins' = twinOf /\ phase' = "normalize" /\ phase = "twin"
      /\ byShape' = byShape /\ collapses' = collapses /\ queue' = queue
      /\ reach' = reach /\ differing' = differing
    BY DEF TwinRun
<1> HIDE DEF twinOf
<1>6. ASSUME NEW k \in 1..(n + c) PROVE Fits(Entry(k), n + c)
    <2>1. CASE k <= n
        <3>1. FormOf(k, twinOf) \in Form /\ FormOf(k, twinOf).half \in 0..(n + c)
            BY <1>1, <1>3, <1>4 DEF FormOf, Form
        <3>2. Entry(k) = [types[k] EXCEPT !.form = FormOf(k, twinOf)]
            BY <2>1
        <3>3. n <= n + c /\ n + c \in Nat /\ k \in 1..n
            BY <1>1, <1>3, <2>1
        <3> QED
            BY <1>1, <3>1, <3>2, <3>3, FormFits
    <2>2. CASE k > n
        <3>1. k - n \in 1..c
            BY <1>1, <1>3, <2>2
        <3>2. \E i \in Twinned : Rank(Twinned, i) = k - n
            BY <1>1, <1>2, <3>1, RankOnto
        <3>3. Half(k - n) \in Twinned
            BY <3>2
        <3> DEFINE h == Half(k - n)
        <3>4. h \in 1..n
            BY <1>2, <3>3
        <3>5. Entry(k) = [types[h] EXCEPT !.form = [mode |-> "Lenient", half |-> h]]
            BY <1>1, <2>2
        <3> HIDE DEF h
        <3>6. [mode |-> "Lenient", half |-> h] \in Form
              /\ [mode |-> "Lenient", half |-> h].half \in 0..(n + c)
            BY <1>1, <1>3, <3>4 DEF Form
        <3>7. n <= n + c /\ n + c \in Nat
            BY <1>1, <1>3
        <3> QED
            BY <1>1, <3>4, <3>5, <3>6, <3>7, FormFits
    <2> QED
        BY <1>1, <1>3, <2>1, <2>2
<1> HIDE DEF Entry
<1>7. ASSUME NEW k \in 1..(n + c) PROVE Fits(ReadForm(Entry(k), twinOf), n + c)
    <2> DEFINE f == Entry(k)
    <2>1. n + c \in Nat /\ Fits(f, n + c)
        BY <1>1, <1>3, <1>6
    <2> HIDE DEF f
    <2>2. f.form.half \in 0..(n + c)
          /\ \A j \in 1..Len(f.members) : f.members[j].ty.leaf = "Named" =>
                f.members[j].ty.to \in (DOMAIN twinOf) \cup (1..(n + c))
        BY <2>1 DEF Fits, InTable
    <2>3. \A i \in DOMAIN twinOf : twinOf[i] \in 1..(n + c)
        BY <1>4
    <2>4. Fits(RemapContract(f, twinOf), n + c)
        BY <2>1, <2>2, <2>3, RemapFits
    <2>5. Fits(Loosen(RemapContract(f, twinOf)), n + c)
        BY <2>1, <2>4, LoosenFits
    <2>6. Fits(ReadForm(f, twinOf), n + c)
        BY <2>1, <2>5 DEF ReadForm
    <2> QED
        BY <2>6 DEF f
<1>8. Table(types') /\ Len(types') = n + c
    <2>1. types' = [k \in 1..(n + c) |-> types'[k]]
        BY <1>5
    <2>2. \A k \in 1..(n + c) : Fits(types'[k], n + c)
        BY <1>5, <1>7
    <2>3. n + c \in Nat
        BY <1>1, <1>3
    <2> QED
        BY <2>1, <2>2, <2>3, MappedTable
<1>9. 1..n \subseteq 1..(n + c)
    BY <1>1, <1>3
<1>10. Holders'
    <2> USE DEF Sound, Holders
    <2>1. byShape' \in [Shapes -> TypeRef]
          /\ \A s \in Shapes : InTable(byShape'[s], n + c)
        BY <1>5, <1>9 DEF InTable
    <2>2. collapses' \subseteq [owner : 1..(n + c), at : Nat]
        BY <1>5, <1>9
    <2>3. queue' \in [Direction -> SUBSET (1..(n + c))]
          /\ reach' \in [Direction -> SUBSET (1..(n + c))]
        BY <1>5, <1>9
    <2>4. differing' \subseteq 1..(n + c)
        BY <1>5, <1>9
    <2>5. DOMAIN twins' \subseteq 1..(n + c)
          /\ \A i \in DOMAIN twins' : twins'[i] \in 1..(n + c)
        BY <1>2, <1>4, <1>5, <1>9
    <2> QED
        BY <1>8, <2>1, <2>2, <2>3, <2>4, <2>5
<1>11. Staged'
    BY <1>5 DEF Sound, Staged
<1>12. Outcome' /\ input' \in Inputs
    BY <1>5 DEF Sound, Outcome, TwinRun, Phase
<1> QED
    BY <1>8, <1>10, <1>11, <1>12 DEF Sound

-----------------------------------------------------------------------------
(* Finalize.                                                                *)

(* A pass that rewrites entries in place leaves every position where it is. *)
LEMMA InPlaceSound ==
    ASSUME Sound, Table(types'), Len(types') = Len(types), Outcome',
           phase \notin {"dedup", "reach", "unit", "twin"},
           phase' \notin {"dedup", "reach", "unit", "twin"},
           UNCHANGED <<input, byShape, collapses, queue, reach, differing, twins>>
    PROVE  Sound'
<1>1. Holders'
    BY DEF Sound, Holders
<1>2. Staged'
    BY DEF Sound, Staged
<1> QED
    BY <1>1, <1>2 DEF Sound

(* An alias of a leaf names nothing. *)
LEMMA AliasFits ==
    ASSUME NEW n \in Nat, NEW c, Fits(c, n), NEW leaf \in {"Unit", "Value"}
    PROVE  Fits(AliasOf(c, leaf), n)
<1> DEFINE m == [ty |-> LeafRef(leaf), presence |-> "Required", capture |-> "None"]
<1>1. LeafRef(leaf) \in TypeRef /\ LeafRef(leaf).leaf = leaf
    BY DEF LeafRef, TypeRef, Leaf
<1>2. m \in Member
    BY <1>1 DEF Member, Presence, Capture
<1>3. m.ty.leaf # "Named" /\ m.capture = "None"
    BY <1>1
<1>4. AliasOf(c, leaf) = [c EXCEPT !.kind = "Alias", !.members = <<m>>]
    BY DEF AliasOf
<1> HIDE DEF m
<1>5. c \in Contract /\ c.form.half \in 0..n
    BY DEF Fits
<1>6. <<m>> \in Seq(Member) /\ Len(<<m>>) = 1 /\ <<m>>[1] = m /\ DOMAIN <<m>> = 1..1
    BY <1>2
<1>7. AliasOf(c, leaf) \in Contract
    BY <1>4, <1>5, <1>6 DEF Contract, Kind
<1>8. /\ AliasOf(c, leaf).kind = "Alias"
      /\ AliasOf(c, leaf).members = <<m>>
      /\ AliasOf(c, leaf).form = c.form
    BY <1>4, <1>5 DEF Contract
<1>9. Shaped(AliasOf(c, leaf))
    BY <1>3, <1>6, <1>8 DEF Shaped
<1>10. \A k \in 1..Len(AliasOf(c, leaf).members) : InTable(AliasOf(c, leaf).members[k].ty, n)
    BY <1>3, <1>6, <1>8 DEF InTable
<1> QED
    BY <1>5, <1>7, <1>8, <1>9, <1>10 DEF Fits

(* Cycle members become aliases of leaves, in place. *)
LEMMA NormalizeSound ==
    ASSUME Sound, Normalize PROVE Sound'
<1> DEFINE n == Len(types)
<1>1. n \in Nat /\ DOMAIN types = 1..n /\ \A i \in 1..n : Fits(types[i], n)
    BY DEF Sound, Table
<1>2. /\ types' = [i \in 1..n |-> types'[i]]
      /\ \A i \in 1..n : \/ types'[i] = types[i]
                         \/ types'[i] = AliasOf(types[i], "Unit")
                         \/ types'[i] = AliasOf(types[i], "Value")
    BY DEF Normalize
<1>3. \A i \in 1..n : Fits(types'[i], n)
    BY <1>1, <1>2, AliasFits
<1>4. Table(types') /\ Len(types') = n
    BY <1>1, <1>2, <1>3, MappedTable
<1>5. reports' \subseteq [cycle : SUBSET Nat, kind : CycleKind]
    <2>1. DOMAIN types \subseteq Nat
        BY <1>1
    <2>2. \A cycle : KindOfCycle(cycle) \in CycleKind
        BY DEF KindOfCycle, CycleKind
    <2> QED
        BY <2>1, <2>2 DEF Normalize
<1>6. phase = "normalize" /\ phase' = "promote"
    BY DEF Normalize
<1>7. Outcome'
    BY <1>5, <1>6 DEF Sound, Outcome, Normalize, Phase
<1>8. UNCHANGED <<input, byShape, collapses, queue, reach, differing, twins>>
    BY DEF Normalize
<1> QED
    BY <1>4, <1>6, <1>7, <1>8, InPlaceSound

(* An alias on a cycle becomes a newtype, in place. *)
LEMMA PromoteSound ==
    ASSUME Sound, Promote PROVE Sound'
<1> DEFINE n == Len(types)
<1>1. n \in Nat /\ DOMAIN types = 1..n /\ \A i \in 1..n : Fits(types[i], n)
    BY DEF Sound, Table
<1>2. /\ types' = [i \in 1..n |-> types'[i]]
      /\ \A i \in 1..n : \/ types'[i] = types[i]
                         \/ /\ i \in RecursiveAliases(types)
                            /\ types'[i] = [types[i] EXCEPT !.kind = "Newtype"]
    BY DEF Promote
<1>3. \A i \in RecursiveAliases(types) : types[i].kind = "Alias"
    <2> SUFFICES ASSUME NEW i \in RecursiveAliases(types) PROVE types[i].kind = "Alias"
        OBVIOUS
    <2>1. <<i, i>> \in Paths(n, AliasEdges(types))
        BY DEF RecursiveAliases, Recursive
    <2>2. \E e \in AliasEdges(types) : e[1] = i
        BY <1>1, <2>1, PathStarts
    <2> QED
        BY <2>2 DEF AliasEdges
<1>4. \A i \in 1..n : Fits(types'[i], n)
    <2> SUFFICES ASSUME NEW i \in 1..n, types'[i] = [types[i] EXCEPT !.kind = "Newtype"],
                        types[i].kind = "Alias"
                 PROVE  Fits(types'[i], n)
        BY <1>1, <1>2, <1>3
    <2> DEFINE t == types[i]
               u == types'[i]
    <2>1. Fits(t, n)
        BY <1>1
    <2>2. t \in Contract /\ u = [t EXCEPT !.kind = "Newtype"] /\ t.kind = "Alias"
        BY <2>1 DEF Fits
    <2> HIDE DEF t, u
    <2>3. /\ u \in Contract /\ u.kind = "Newtype" /\ u.members = t.members
          /\ u.form = t.form
        BY <2>2 DEF Contract, Kind
    <2>4. Fits(u, n)
        BY <2>1, <2>2, <2>3 DEF Fits, Shaped
    <2> QED
        BY <2>4 DEF u
<1>5. Table(types') /\ Len(types') = n
    BY <1>1, <1>2, <1>4, MappedTable
<1>6. phase = "promote" /\ phase' = "box"
    BY DEF Promote
<1>7. Outcome'
    BY <1>6 DEF Sound, Outcome, Promote, Phase
<1>8. UNCHANGED <<input, byShape, collapses, queue, reach, differing, twins>>
    BY DEF Promote
<1> QED
    BY <1>5, <1>6, <1>7, <1>8, InPlaceSound

(* A Box goes around a reference that stays the same. *)
LEMMA BoxRoundSound ==
    ASSUME Sound, BoxRound PROVE Sound'
<1> DEFINE n == Len(types)
           edge == SmallestClosingEdge(types)
<1>1. n \in Nat /\ types \in Seq(Contract) /\ \A i \in 1..n : Fits(types[i], n)
    BY DEF Sound, Table
<1>2. types' = [types EXCEPT ![edge[1]] = BoxFirst(types[edge[1]], edge[2])]
    BY DEF BoxRound
<1>3. ASSUME NEW i \in 1..n, NEW target PROVE Fits(BoxFirst(types[i], target), n)
    <2> DEFINE t == types[i]
               direct == {k \in DOMAIN t.members :
                            Names(t.members[k].ty, target) /\ Direct(t.members[k].ty)}
               boxed(k) == [t.members[k].ty EXCEPT
                              !.wraps = Append(t.members[k].ty.wraps, "Box")]
               tys == [k \in 1..Len(t.members) |->
                         IF k \in direct /\ \A j \in direct : k <= j
                         THEN boxed(k) ELSE t.members[k].ty]
    <2>1. Fits(t, n)
        BY <1>1
    <2>2. \A k \in 1..Len(t.members) :
              t.members[k].ty \in TypeRef /\ InTable(t.members[k].ty, n)
        BY <2>1, FitsTypes DEF Fits
    <2>3. BoxFirst(t, target) = Retyped(t, tys)
        BY DEF BoxFirst
    <2> HIDE DEF t, direct
    <2>4. \A k \in 1..Len(t.members) : boxed(k) \in TypeRef /\ InTable(boxed(k), n)
        <3> SUFFICES ASSUME NEW k \in 1..Len(t.members)
                     PROVE  boxed(k) \in TypeRef /\ InTable(boxed(k), n)
            OBVIOUS
        <3> DEFINE ref == t.members[k].ty
        <3>1. ref \in TypeRef /\ InTable(ref, n)
            BY <2>2
        <3> HIDE DEF ref
        <3>2. Append(ref.wraps, "Box") \in Seq(Wrap)
            BY <3>1 DEF TypeRef, Wrap, Indirecting
        <3>3. [ref EXCEPT !.wraps = Append(ref.wraps, "Box")] \in TypeRef
              /\ InTable([ref EXCEPT !.wraps = Append(ref.wraps, "Box")], n)
            BY <3>1, <3>2 DEF TypeRef, InTable
        <3> QED
            BY <3>3 DEF ref
    <2>5. \A k \in 1..Len(t.members) : tys[k] = boxed(k) \/ tys[k] = t.members[k].ty
        OBVIOUS
    <2> HIDE DEF boxed, tys
    <2>6. \A k \in 1..Len(t.members) : tys[k] \in TypeRef /\ InTable(tys[k], n)
        BY <2>2, <2>4, <2>5
    <2>7. t.form.half \in 0..n
        BY <2>1 DEF Fits
    <2>8. Fits(Retyped(t, tys), n)
        BY <1>1, <2>1, <2>6, <2>7, RetypedFits
    <2> QED
        BY <2>3, <2>8 DEF t
<1>4. types' = [i \in 1..n |-> types'[i]]
    <2>1. types \in [1..n -> Contract]
        BY <1>1
    <2>2. \A i \in 1..n : BoxFirst(types[i], edge[2]) \in Contract
        BY <1>3 DEF Fits
    <2> HIDE DEF edge
    <2>3. types' \in [1..n -> Contract]
        BY <1>2, <2>1, <2>2
    <2> QED
        BY <2>3
<1>5. \A i \in 1..n : Fits(types'[i], n)
    BY <1>1, <1>2, <1>3
<1>6. Table(types') /\ Len(types') = n
    BY <1>1, <1>4, <1>5, MappedTable
<1>7. phase = "box" /\ phase' = phase
    BY DEF BoxRound
<1>8. Outcome'
    BY <1>7 DEF Sound, Outcome, BoxRound
<1>9. UNCHANGED <<input, byShape, collapses, queue, reach, differing, twins>>
    BY DEF BoxRound
<1> QED
    BY <1>6, <1>7, <1>8, <1>9, InPlaceSound

(* Leaving the boxing rounds moves no position. *)
LEMMA BoxEndSound ==
    ASSUME Sound, BoxEnd PROVE Sound'
<1>1. Table(types') /\ Len(types') = Len(types)
    BY DEF Sound, BoxEnd
<1>2. Outcome'
    BY DEF Sound, Outcome, BoxEnd, Phase
<1>3. /\ phase = "box" /\ phase' = "reopen"
      /\ UNCHANGED <<input, byShape, collapses, queue, reach, differing, twins>>
    BY DEF BoxEnd
<1> QED
    BY <1>1, <1>2, <1>3, InPlaceSound

(* An Option goes around a reference that stays the same. *)
LEMMA ReopenSound ==
    ASSUME Sound, Reopen PROVE Sound'
<1> DEFINE n == Len(types)
<1>1. n \in Nat /\ \A i \in 1..n : Fits(types[i], n)
    BY DEF Sound, Table
<1>2. types' = [i \in 1..n |-> Reopened(types, types[i])]
      /\ supported' = [i \in 1..n |-> Derive]
      /\ phase = "reopen" /\ phase' = "derive"
    BY DEF Reopen
<1>3. ASSUME NEW i \in 1..n PROVE Fits(Reopened(types, types[i]), n)
    <2> DEFINE t == types[i]
               opened(k) == Wrapped("Option", t.members[k].ty)
               nullable(k) == /\ t.kind = "Struct"
                              /\ t.members[k].presence = "Nullable"
                              /\ ~SpellsOption(Unaliased(types, t.members[k].ty))
               tys == [k \in 1..Len(t.members) |->
                         IF nullable(k) THEN opened(k) ELSE t.members[k].ty]
    <2>1. Fits(t, n)
        BY <1>1
    <2>2. \A k \in 1..Len(t.members) :
              t.members[k].ty \in TypeRef /\ InTable(t.members[k].ty, n)
        BY <2>1, FitsTypes DEF Fits
    <2>3. Reopened(types, t) = Retyped(t, tys)
        BY DEF Reopened
    <2> HIDE DEF t, nullable
    <2>4. \A k \in 1..Len(t.members) : opened(k) \in TypeRef /\ InTable(opened(k), n)
        BY <2>2, WrappedType DEF InTable, Wrap, Through
    <2>5. \A k \in 1..Len(t.members) : tys[k] = opened(k) \/ tys[k] = t.members[k].ty
        OBVIOUS
    <2> HIDE DEF opened, tys
    <2>6. \A k \in 1..Len(t.members) : tys[k] \in TypeRef /\ InTable(tys[k], n)
        BY <2>2, <2>4, <2>5
    <2>7. t.form.half \in 0..n
        BY <2>1 DEF Fits
    <2>8. Fits(Retyped(t, tys), n)
        BY <1>1, <2>1, <2>6, <2>7, RetypedFits
    <2> QED
        BY <2>3, <2>8 DEF t
<1>4. types' = [i \in 1..n |-> types'[i]] /\ \A i \in 1..n : Fits(types'[i], n)
    BY <1>2, <1>3
<1>5. Table(types') /\ Len(types') = n
    BY <1>1, <1>4, MappedTable
<1>6. supported' \in Seq(SUBSET Derive)
    BY <1>1, <1>2
<1>7. Outcome'
    BY <1>2, <1>6 DEF Sound, Outcome, Reopen, Phase
<1>8. UNCHANGED <<input, byShape, collapses, queue, reach, differing, twins>>
    BY DEF Reopen
<1> QED
    BY <1>2, <1>5, <1>7, <1>8, InPlaceSound

-----------------------------------------------------------------------------
(* Derives.                                                                 *)

(* The sweep over the table, position by position. *)
LEMMA SweptUnfold ==
    ASSUME Sound
    PROVE  \E f : /\ f[0] = supported
                  /\ \A k \in 1..Len(types) : f[k] = Judged(f[k - 1], k)
                  /\ \A k \in 0..Len(types) : f[k] \in Seq(SUBSET Derive)
                  /\ Swept = f[Len(types)]
<1> DEFINE n == Len(types)
           X == Seq(SUBSET Derive)
           step == [k \in 1..n |-> [s \in X |-> Judged(s, k)]]
           Is(f) == f = [k \in 0..n |-> IF k = 0 THEN supported ELSE Judged(f[k - 1], k)]
<1>1. n \in Nat /\ supported \in X
    BY DEF Sound, Table, Outcome
<1>2. ASSUME NEW k \in 1..n, NEW s \in X PROVE Judged(s, k) \in X
    <2> DEFINE D == SUBSET Derive
               e == {d \in Derive : Supports(d, types[k], s)}
    <2>1. e \in D
        OBVIOUS
    <2>2. s \in [1..Len(s) -> D] /\ Len(s) \in Nat
        OBVIOUS
    <2>3. Judged(s, k) = [s EXCEPT ![k] = e]
        BY DEF Judged
    <2> HIDE DEF D, e
    <2>4. Judged(s, k) \in [1..Len(s) -> D]
        BY <2>1, <2>2, <2>3
    <2>5. Judged(s, k) \in Seq(D)
        BY <2>2, <2>4
    <2> QED
        BY <2>5 DEF D
<1>3. step \in [1..n -> [X -> X]]
    BY <1>2
<1>4. \A k \in 1..n : \A s \in X : step[k][s] = Judged(s, k)
    OBVIOUS
<1> HIDE DEF X, step, n
<1>5. PICK f : Iterate(f, n, X, supported, step)
    BY <1>1, <1>3, Iterates
<1>6. \A k \in 1..n : f[k] = Judged(f[k - 1], k)
    <2>1. \A k \in 1..n : f[k - 1] \in X
        BY <1>1, <1>5 DEF Iterate
    <2> QED
        BY <1>4, <1>5, <2>1 DEF Iterate
<1>7. Is(f)
    <2>1. \A k \in 0..n : f[k] = IF k = 0 THEN supported ELSE Judged(f[k - 1], k)
        BY <1>1, <1>5, <1>6 DEF Iterate
    <2> QED
        BY <1>5, <2>1 DEF Iterate
<1> DEFINE sweep == CHOOSE g : Is(g)
<1>8. Is(sweep)
    BY <1>7
<1>9. Swept = sweep[n]
    BY DEF Swept, n
<1> HIDE DEF sweep
<1> DEFINE P == {k \in 0..n : sweep[k] \in X}
<1>10. 0 \in P
    BY <1>1, <1>8
<1>11. ASSUME NEW k \in 1..n, k - 1 \in P PROVE k \in P
    <2>1. sweep[k] = Judged(sweep[k - 1], k)
        BY <1>1, <1>8
    <2> QED
        BY <1>1, <1>2, <1>11, <2>1
<1> HIDE DEF P
<1>12. 0..n \subseteq P
    BY <1>1, <1>10, <1>11, UpTo
<1>13. \A k \in 0..n : sweep[k] \in X
    BY <1>12 DEF P
<1>14. sweep[0] = supported /\ \A k \in 1..n : sweep[k] = Judged(sweep[k - 1], k)
    BY <1>1, <1>8
<1> QED
    BY <1>9, <1>13, <1>14 DEF X, n

(* A sweep leaves a set of derives at every position. *)
LEMMA SweptType ==
    ASSUME Sound PROVE Swept \in Seq(SUBSET Derive)
<1>1. Len(types) \in Nat
    BY DEF Sound, Table
<1> QED
    BY <1>1, SweptUnfold

(* A sweep writes one set of derives per position and no type. *)
LEMMA DeriveRoundSound ==
    ASSUME Sound, DeriveRound PROVE Sound'
<1>1. Table(types') /\ Len(types') = Len(types)
    BY DEF Sound, DeriveRound
<1>2. supported' \in Seq(SUBSET Derive)
    BY SweptType DEF DeriveRound
<1>3. Outcome'
    BY <1>2 DEF Sound, Outcome, DeriveRound
<1>4. /\ phase = "derive" /\ phase' = phase
      /\ UNCHANGED <<input, byShape, collapses, queue, reach, differing, twins>>
    BY DEF DeriveRound
<1> QED
    BY <1>1, <1>3, <1>4, InPlaceSound

(* Freezing writes one set of derives per position and no type. *)
LEMMA FreezeSound ==
    ASSUME Sound, Freeze PROVE Sound'
<1> DEFINE n == Len(types)
           carried(i) == AutoDerives(i) \cup (Requested(i) \cap supported[i])
<1>1. Table(types') /\ Len(types') = n /\ n \in Nat
    BY DEF Sound, Table, Freeze
<1>2. /\ phase = "derive" /\ phase' \in {"done", "rejected"}
      /\ derives' = derives \/ derives' = [i \in 1..n |-> carried(i)]
      /\ UNCHANGED <<input, byShape, collapses, queue, reach, differing, twins>>
    BY DEF Freeze
<1>3. \A i \in 1..n : carried(i) \in SUBSET Derive
    <2>1. input.wanted \in SUBSET Derive /\ input.asked \in SUBSET Derive
        BY InputsAssumption DEF Sound, WellFormed
    <2>2. {"Default"} \in SUBSET Derive
        BY DEF Derive
    <2> QED
        BY <2>1, <2>2 DEF AutoDerives, Requested
<1>4. derives' \in Seq(SUBSET Derive)
    <2>1. CASE derives' = derives
        BY <2>1 DEF Sound, Outcome
    <2>2. CASE derives' = [i \in 1..n |-> carried(i)]
        BY <1>1, <1>3, <2>2
    <2> QED
        BY <1>2, <2>1, <2>2
<1>5. Outcome'
    BY <1>2, <1>4 DEF Sound, Outcome, Freeze, Phase
<1> QED
    BY <1>1, <1>2, <1>5, InPlaceSound

-----------------------------------------------------------------------------
(* Every behaviour.                                                         *)

(* What lowering hands over satisfies the invariant. *)
LEMMA InitSound ==
    ASSUME Init PROVE Sound
<1> DEFINE n == Len(types)
<1>1. WellFormed(input) /\ input \in Inputs /\ types = input.types
    BY InputsAssumption DEF Init
<1>2. types \in Seq(Contract) /\ n \in Nat /\ DOMAIN types = 1..n
    BY <1>1 DEF WellFormed
<1>3. ASSUME NEW i \in 1..n PROVE Fits(types[i], n) /\ types[i].form.half = 0
    <2>1. types[i] \in Contract /\ Shaped(types[i])
          /\ types[i].form = [mode |-> "Strict", half |-> 0]
        BY <1>1, <1>2 DEF WellFormed
    <2>2. DOMAIN types[i].members = 1..Len(types[i].members)
        BY <2>1 DEF Contract
    <2>3. \A k \in 1..Len(types[i].members) : InTable(types[i].members[k].ty, n)
        BY <1>1, <2>2 DEF WellFormed
    <2> QED
        BY <1>2, <2>1, <2>3 DEF Fits
<1>4. Table(types)
    BY <1>2, <1>3 DEF Table
<1>5. byShape \in [Shapes -> TypeRef] /\ \A s \in Shapes : InTable(byShape[s], n)
    BY <1>1 DEF Init, WellFormed
<1>6. collapses \subseteq [owner : 1..n, at : Nat]
    BY <1>1 DEF Init, WellFormed
<1>7. Holders
    BY <1>5, <1>6 DEF Init, Holders
<1>8. Outcome
    BY DEF Init, Outcome, Phase
<1>9. Staged
    BY <1>3 DEF Init, Staged
<1> QED
    BY <1>1, <1>4, <1>7, <1>8, <1>9 DEF Sound

(* Every step of the layer keeps the invariant. *)
LEMMA NextSound ==
    ASSUME Sound, [Next]_vars PROVE Sound'
<1>1. CASE Tabling
    BY <1>1, DedupRoundSound, DedupEndSound, ReachStepSound, ReachEndSound, UnitRunSound,
       DiffersRoundSound, TwinRunSound DEF Tabling
<1>2. CASE Finalizing
    BY <1>2, NormalizeSound, PromoteSound, BoxRoundSound, BoxEndSound, ReopenSound,
       DeriveRoundSound, FreezeSound DEF Finalizing
<1>3. CASE UNCHANGED vars
    BY <1>3 DEF vars, Sound, Table, Holders, Outcome, Staged
<1> QED
    BY <1>1, <1>2, <1>3 DEF Next, Finished

(* The strengthened invariant holds in every reachable state. *)
THEOREM AlwaysSound == Spec => []Sound
<1>1. Init => Sound
    BY InitSound
<1>2. Sound /\ [Next]_vars => Sound'
    BY NextSound
<1> QED
    BY <1>1, <1>2, PTL DEF Spec

(* Every pass of the build keeps its types, for every set of shapes and all *)
(* well-formed inputs: build in contract/mod.rs, from dedup to freeze.      *)
THEOREM TypeCorrect == Spec => []TypeOK
<1>1. Sound => TypeOK
    <2> SUFFICES ASSUME Sound PROVE TypeOK
        OBVIOUS
    <2>1. types \in Seq(Contract) /\ Len(types) \in Nat /\ DOMAIN types = 1..Len(types)
        BY DEF Sound, Table
    <2>2. \A i \in DOMAIN types : Shaped(types[i])
        BY <2>1 DEF Sound, Table, Fits
    <2>3. 1..Len(types) \subseteq Nat
        OBVIOUS
    <2>4. /\ collapses \subseteq [owner : Nat, at : Nat]
          /\ queue \in [Direction -> SUBSET Nat] /\ reach \in [Direction -> SUBSET Nat]
          /\ differing \subseteq Nat
        BY <2>3 DEF Sound, Holders
    <2> QED
        BY <2>1, <2>2, <2>4 DEF Sound, Holders, Outcome, TypeOK
<1> QED
    BY <1>1, AlwaysSound, PTL

(* Every position that a member, a form, a shape, a finding, a worklist, a  *)
(* direction or a twin holds is one of the table, after every merge, drop,  *)
(* renumbering and twin: dedup::apply, unit::remove and twin::run.          *)
THEOREM PositionsStayInTable == Spec => []RefsInTable
<1>1. Sound => RefsInTable
    <2> SUFFICES ASSUME Sound PROVE RefsInTable
        OBVIOUS
    <2> DEFINE n == Len(types)
    <2>1. ASSUME NEW i \in 1..n
          PROVE  /\ \A k \in DOMAIN types[i].members : InTable(types[i].members[k].ty, n)
                 /\ types[i].form.half \in 0..n
        <3>1. Fits(types[i], n)
            BY DEF Sound, Table
        <3> QED
            BY <3>1, FitsTypes DEF Fits
    <2>2. /\ \A s \in Shapes : InTable(byShape[s], n)
          /\ \A c \in collapses : c.owner \in 1..n
          /\ \A d \in Direction : queue[d] \subseteq 1..n /\ reach[d] \subseteq 1..n
          /\ differing \subseteq 1..n
          /\ DOMAIN twins \subseteq 1..n
          /\ \A i \in DOMAIN twins : twins[i] \in 1..n
        BY DEF Sound, Holders
    <2> QED
        BY <2>1, <2>2 DEF RefsInTable
<1> QED
    BY <1>1, AlwaysSound, PTL

-----------------------------------------------------------------------------
(* The merge reaches its fixed point.                                       *)

\* Every round drops an entry, and there is none left to drop past the bound.
Shrinking ==
    /\ phase = "dedup" => Len(types) + round <= Len(input.types)
    /\ phase = "reach" => Plan(types) = {}

(* A proper part of a table has fewer entries than the table. *)
LEMMA FewerKept ==
    ASSUME NEW n \in Nat, NEW kept \in SUBSET (1..n), kept # 1..n
    PROVE  Cardinality(kept) \in Nat /\ Cardinality(kept) < n
<1>1. IsFiniteSet(1..n) /\ Cardinality(1..n) = n
    BY FS_Interval
<1>2. Cardinality(kept) \in Nat /\ Cardinality(kept) <= n /\ Cardinality(kept) # n
    BY <1>1, FiniteKept, FS_Subset
<1> QED
    BY <1>2

(* Every step keeps the count of the entries that are left to merge. *)
LEMMA NextShrinking ==
    ASSUME Sound, Shrinking, [Next]_vars PROVE Shrinking'
<1>1. CASE DedupRound
    <2> DEFINE n == Len(types)
               kept == (DOMAIN types) \ Plan(types)
               whole(moved) == [i \in 1..n |-> RemapContract(types[i], moved)]
    <2>1. n \in Nat /\ DOMAIN types = 1..n /\ round \in Nat /\ Len(input.types) \in Nat
        BY InputsAssumption DEF Sound, Table, Outcome, WellFormed
    <2>2. Plan(types) # {} /\ Plan(types) \subseteq 1..n
        BY <1>1, <2>1 DEF DedupRound, Plan
    <2>3. kept \in SUBSET (1..n) /\ kept # 1..n
        BY <2>1, <2>2
    <2>4. Cardinality(kept) \in Nat /\ Cardinality(kept) < n
        BY <2>1, <2>3, FewerKept
    <2>5. Len(types') = Cardinality(kept)
        <3>1. \E moved : types' = Keep(whole(moved), kept)
            BY <1>1 DEF DedupRound, Renumber
        <3> QED
            BY <2>4, <3>1 DEF Keep
    <2>6. phase = "dedup" /\ phase' = "dedup" /\ round' = round + 1 /\ input' = input
        BY <1>1 DEF DedupRound
    <2>7. n + round <= Len(input.types)
        BY <2>6 DEF Shrinking
    <2> HIDE DEF kept, whole
    <2> QED
        BY <2>1, <2>4, <2>5, <2>6, <2>7 DEF Shrinking
<1>2. CASE DedupEnd
    <2>1. Len(types) \in Nat /\ round \in Nat /\ Len(input.types) \in Nat
        BY InputsAssumption DEF Sound, Table, Outcome, WellFormed
    <2>2. phase = "dedup" /\ phase' # "dedup" /\ types' = types
          /\ (Plan(types) = {} \/ round > Len(input.types))
        BY <1>2 DEF DedupEnd, LastMerge
    <2>3. Plan(types) = {}
        BY <2>1, <2>2 DEF Shrinking
    <2> QED
        BY <2>2, <2>3 DEF Shrinking
<1>3. ASSUME NEW d \in Direction, ReachStep(d) PROVE Shrinking'
    BY <1>3 DEF Shrinking, ReachStep
<1>4. CASE ReachEnd \/ UnitRun \/ DiffersRound \/ TwinRun
    BY <1>4 DEF Shrinking, ReachEnd, UnitRun, DiffersRound, TwinRun
<1>5. CASE Finalizing
    BY <1>5 DEF Shrinking, Finalizing, Normalize, Promote, BoxRound, BoxEnd, Reopen,
       DeriveRound, Freeze
<1>6. CASE UNCHANGED vars
    BY <1>6 DEF vars, Shrinking
<1> QED
    BY <1>1, <1>2, <1>3, <1>4, <1>5, <1>6 DEF Next, Tabling, Finished

(* The bound on the rounds of the merge is never what ends it: when the     *)
(* build goes on, no inline type repeats the contract of another one.       *)
(* dedup::run in contract/dedup.rs.                                         *)
THEOREM MergeIsComplete == Spec => []NothingLeftToMerge
<1>1. Init => Shrinking
    <2> SUFFICES ASSUME Init PROVE Shrinking
        OBVIOUS
    <2>1. Len(input.types) \in Nat
        BY InputsAssumption DEF Init, WellFormed
    <2> QED
        BY <2>1 DEF Init, Shrinking
<1>2. Sound /\ Shrinking /\ [Next]_vars => Shrinking'
    BY NextShrinking
<1>3. Shrinking => NothingLeftToMerge
    BY DEF Shrinking, NothingLeftToMerge
<1> QED
    BY <1>1, <1>2, <1>3, AlwaysSound, PTL DEF Spec

-----------------------------------------------------------------------------
(* No named type is merged away.                                            *)

\* A pinned type of the document is in the table, and no name is there twice.
Preserved ==
    phase \in {"dedup", "reach", "unit"} =>
        /\ \A i, j \in 1..Len(types) : types[i].origin = types[j].origin => i = j
        /\ \A i \in 1..Len(input.types) : Pinned(input.types[i]) =>
              \E j \in 1..Len(types) :
                 types[j].origin = input.types[i].origin /\ Pinned(types[j])

(* A merge keeps names apart and pinned types in the table. *)
LEMMA DedupRoundPreserves ==
    ASSUME Sound, Preserved, DedupRound PROVE Preserved'
<1> DEFINE n == Len(types)
           kept == (DOMAIN types) \ Plan(types)
           c == Cardinality(kept)
           whole(moved) == [i \in 1..n |-> RemapContract(types[i], moved)]
<1>1. n \in Nat /\ DOMAIN types = 1..n /\ \A i \in 1..n : types[i] \in Contract
    BY DEF Sound, Table
<1>2. kept \in SUBSET (1..n)
    BY <1>1
<1>3. PICK moved : types' = Keep(whole(moved), kept)
    BY DEF DedupRound, Renumber
<1>4. phase = "dedup" /\ input' = input
    BY DEF DedupRound
<1>5. PartOf(kept, n) /\ c \in Nat /\ Len(types') = c
    <2>1. PartOf(kept, n)
        BY <1>1, <1>2 DEF PartOf
    <2> QED
        BY <1>3, <2>1, KeepSeq
<1>6. \A i \in 1..n : /\ whole(moved)[i].origin = types[i].origin
                      /\ whole(moved)[i].naming = types[i].naming
    BY <1>1, RemapKeeps
<1>7. \A i \in 1..n : Pinned(types[i]) => i \in kept
    BY <1>1 DEF Plan, Target
<1> DEFINE ts == whole(moved)
<1>8. types' = Keep(ts, kept)
    BY <1>3
<1> HIDE DEF n, kept, ts
<1>9. ASSUME NEW i \in 1..c, NEW j \in 1..c, types'[i].origin = types'[j].origin
      PROVE  i = j
    <2>1. PICK x \in kept : Rank(kept, x) = i /\ Keep(ts, kept)[i] = ts[x]
        BY <1>5, KeepRank
    <2>2. PICK y \in kept : Rank(kept, y) = j /\ Keep(ts, kept)[j] = ts[y]
        BY <1>5, KeepRank
    <2>3. types[x].origin = types[y].origin
        BY <1>2, <1>3, <1>6, <1>9, <2>1, <2>2 DEF ts
    <2>4. x = y
        BY <1>2, <1>4, <2>3 DEF Preserved, n
    <2> QED
        BY <2>1, <2>2, <2>4
<1>10. ASSUME NEW i \in 1..Len(input.types), Pinned(input.types[i])
      PROVE  \E j \in 1..c : types'[j].origin = input.types[i].origin /\ Pinned(types'[j])
    <2>1. PICK j \in 1..n : types[j].origin = input.types[i].origin /\ Pinned(types[j])
        BY <1>4, <1>10 DEF Preserved, n
    <2>2. j \in kept
        BY <1>7, <2>1
    <2>3. Rank(kept, j) \in 1..c /\ types'[Rank(kept, j)] = ts[j]
        BY <1>8, <1>5, <2>2, KeepOf
    <2>4. types'[Rank(kept, j)].origin = types[j].origin
          /\ types'[Rank(kept, j)].naming = types[j].naming
        BY <1>6, <2>1, <2>3 DEF ts
    <2> QED
        BY <2>1, <2>3, <2>4 DEF Pinned
<1> QED
    BY <1>4, <1>5, <1>9, <1>10 DEF Preserved

(* So does every other step of those phases: none of them touches the table. *)
LEMMA NextPreserves ==
    ASSUME Sound, Preserved, [Next]_vars PROVE Preserved'
<1>1. CASE DedupRound
    BY <1>1, DedupRoundPreserves
<1>2. CASE DedupEnd
    BY <1>2 DEF Preserved, DedupEnd
<1>3. ASSUME NEW d \in Direction, ReachStep(d) PROVE Preserved'
    BY <1>3 DEF Preserved, ReachStep
<1>4. CASE ReachEnd
    BY <1>4 DEF Preserved, ReachEnd
<1>5. CASE UnitRun
    <2>1. phase' \in {"twin", "normalize"}
        BY <1>5 DEF UnitRun
    <2> QED
        BY <2>1 DEF Preserved
<1>6. CASE DiffersRound \/ TwinRun
    <2>1. phase' \in {"twin", "normalize"}
        BY <1>6 DEF DiffersRound, TwinRun
    <2> QED
        BY <2>1 DEF Preserved
<1>7. CASE Finalizing
    <2>1. phase' \notin {"dedup", "reach", "unit"}
        BY <1>7 DEF Finalizing, Normalize, Promote, BoxRound, BoxEnd, Reopen, DeriveRound,
           Freeze
    <2> QED
        BY <2>1 DEF Preserved
<1>8. CASE UNCHANGED vars
    BY <1>8 DEF vars, Preserved
<1> QED
    BY <1>1, <1>2, <1>3, <1>4, <1>5, <1>6, <1>7, <1>8 DEF Next, Tabling, Finished

(* A type that its title, the components or the caller named is in the      *)
(* table exactly once when the merge is over, whatever else is like it:     *)
(* Provisional::pinned in contract/dedup.rs.                                *)
THEOREM NamedTypesStay == Spec => []NamedTypesSurvive
<1>1. Init => Preserved
    BY InputsAssumption DEF Init, WellFormed, Preserved
<1>2. Sound /\ Preserved /\ [Next]_vars => Preserved'
    BY NextPreserves
<1>3. Sound /\ Preserved => NamedTypesSurvive
    <2> SUFFICES ASSUME Sound, Preserved, phase \in {"reach", "unit"},
                        NEW i \in DOMAIN input.types, Pinned(input.types[i])
                 PROVE  Cardinality({j \in DOMAIN types :
                            types[j].origin = input.types[i].origin}) = 1
        BY DEF NamedTypesSurvive
    <2>1. DOMAIN types = 1..Len(types) /\ DOMAIN input.types = 1..Len(input.types)
        BY InputsAssumption DEF Sound, Table, WellFormed
    <2>2. PICK j \in 1..Len(types) : types[j].origin = input.types[i].origin
        BY <2>1 DEF Preserved
    <2>3. {x \in DOMAIN types : types[x].origin = input.types[i].origin} = {j}
        BY <2>1, <2>2 DEF Preserved
    <2> QED
        BY <2>3, FS_Singleton
<1> QED
    BY <1>1, <1>2, <1>3, AlwaysSound, PTL DEF Spec

-----------------------------------------------------------------------------
(* Every holder still denotes the contract that it was lowered to.          *)

\* A relation from the positions of a document to those of a table along which
\* contracts agree, and with them what the shapes and the findings name.
Follows(R, doc, ts, shapes, found) ==
    /\ R \subseteq (1..Len(doc.types)) \X (1..Len(ts))
    /\ \A i, j : <<i, j>> \in R => AgreeContract(doc, doc.types[i], ts[j], R)
    /\ \A s \in Shapes : AgreeRef(doc, doc.byShape[s], shapes[s], R)
    /\ \A c \in found : \E o \in doc.collapses :
          o.at = c.at /\ <<o.owner, c.owner>> \in R

Faithful ==
    phase \in {"dedup", "reach", "unit", "twin"} =>
        \E R : Follows(R, input, types, byShape, collapses)

(* Renumbering a reference along a relation keeps it agreeing along the     *)
(* relation that is renumbered with it.                                     *)
LEMMA AgreeRemap ==
    ASSUME NEW doc, NEW old, NEW ref \in TypeRef, NEW R, AgreeRef(doc, old, ref, R),
           NEW moved, ref.leaf = "Named" => ref.to \in DOMAIN moved,
           NEW S, \A i, j : <<i, j>> \in R /\ j \in DOMAIN moved => <<i, moved[j]>> \in S
    PROVE  AgreeRef(doc, old, Remap(ref, moved), S)
<1>1. CASE ref.leaf = "Named"
    <2>1. Remap(ref, moved) = [ref EXCEPT !.to = moved[ref.to]]
        BY <1>1 DEF Remap
    <2>2. /\ Remap(ref, moved).wraps = ref.wraps
          /\ Remap(ref, moved).leaf = ref.leaf
          /\ Remap(ref, moved).to = moved[ref.to]
        BY <2>1 DEF TypeRef
    <2>3. ref # LeafRef("Unit")
        BY <1>1 DEF LeafRef
    <2>4. old.wraps = ref.wraps /\ old.leaf = ref.leaf /\ <<old.to, ref.to>> \in R
        BY <1>1, <2>3 DEF AgreeRef
    <2>5. <<old.to, moved[ref.to]>> \in S
        BY <1>1, <2>4
    <2> QED
        BY <2>2, <2>4, <2>5 DEF AgreeRef
<1>2. CASE ref.leaf # "Named"
    <2>1. Remap(ref, moved) = ref
        BY <1>2 DEF Remap
    <2> QED
        BY <1>2, <2>1 DEF AgreeRef
<1> QED
    BY <1>1, <1>2

(* Contracts agree along another relation when their members' types do.     *)
LEMMA AgreeRetyped ==
    ASSUME NEW doc, NEW old \in Contract, NEW c \in Contract, NEW R,
           AgreeContract(doc, old, c, R), NEW d \in Contract,
           d.kind = c.kind, d.unknown = c.unknown, Len(d.members) = Len(c.members),
           NEW S,
           \A k \in 1..Len(c.members) :
              /\ d.members[k].presence = c.members[k].presence
              /\ d.members[k].capture = c.members[k].capture
              /\ AgreeRef(doc, old.members[k].ty, c.members[k].ty, R) =>
                    AgreeRef(doc, old.members[k].ty, d.members[k].ty, S)
    PROVE  AgreeContract(doc, old, d, S)
<1>1. DOMAIN old.members = 1..Len(old.members) /\ Len(old.members) = Len(c.members)
    BY DEF AgreeContract, Contract
<1> QED
    BY <1>1 DEF AgreeContract

(* So renumbering a contract does.                                          *)
LEMMA AgreeRemapContract ==
    ASSUME NEW doc, NEW old \in Contract, NEW c \in Contract, NEW R,
           AgreeContract(doc, old, c, R), NEW moved,
           \A i \in DOMAIN moved : moved[i] \in Nat,
           \A k \in 1..Len(c.members) :
              c.members[k].ty.leaf = "Named" => c.members[k].ty.to \in DOMAIN moved,
           NEW S, \A i, j : <<i, j>> \in R /\ j \in DOMAIN moved => <<i, moved[j]>> \in S
    PROVE  AgreeContract(doc, old, RemapContract(c, moved), S)
<1> DEFINE tys == [k \in 1..Len(c.members) |-> Remap(c.members[k].ty, moved)]
           d == RemapContract(c, moved)
<1>1. \A k \in 1..Len(c.members) : c.members[k].ty \in TypeRef
    <2>1. c.members \in Seq(Member)
        BY DEF Contract
    <2>2. \A k \in 1..Len(c.members) : c.members[k] \in Member
        BY <2>1
    <2> QED
        BY <2>2 DEF Member
<1>2. \A k \in 1..Len(c.members) : tys[k] \in TypeRef
    BY <1>1, RemapType
<1>3. d = Retyped(c, tys)
    BY DEF RemapContract
<1>4. \A k \in 1..Len(c.members) : AgreeRef(doc, old.members[k].ty, c.members[k].ty, R) =>
          AgreeRef(doc, old.members[k].ty, tys[k], S)
    <2> SUFFICES ASSUME NEW k \in 1..Len(c.members),
                        AgreeRef(doc, old.members[k].ty, c.members[k].ty, R)
                 PROVE  AgreeRef(doc, old.members[k].ty, Remap(c.members[k].ty, moved), S)
        OBVIOUS
    <2>1. c.members[k].ty \in TypeRef
        BY <1>1
    <2>2. c.members[k].ty.leaf = "Named" => c.members[k].ty.to \in DOMAIN moved
        OBVIOUS
    <2> QED
        BY <2>1, <2>2, AgreeRemap
<1> HIDE DEF tys, d
<1>5. /\ d \in Contract /\ Len(d.members) = Len(c.members) /\ d.kind = c.kind
      /\ \A k \in 1..Len(c.members) : /\ d.members[k].ty = tys[k]
                                      /\ d.members[k].presence = c.members[k].presence
                                      /\ d.members[k].capture = c.members[k].capture
    BY <1>2, <1>3, RetypedType
<1>6. d.unknown = c.unknown
    BY RemapKeeps DEF d
<1>7. AgreeContract(doc, old, d, S)
    BY <1>4, <1>5, <1>6, AgreeRetyped
<1> QED
    BY <1>7 DEF d

(* A merge leaves every position with the contract it had, at the position  *)
(* it goes to.                                                              *)
LEMMA DedupRoundFaithful ==
    ASSUME Sound, Faithful, DedupRound PROVE Faithful'
<1> DEFINE n == Len(types)
           kept == (DOMAIN types) \ Plan(types)
           c == Cardinality(kept)
           whole(f) == [i \in 1..n |-> RemapContract(types[i], f)]
<1>1. n \in Nat /\ DOMAIN types = 1..n /\ \A i \in 1..n : types[i] \in Contract
    BY DEF Sound, Table
<1>2. PartOf(kept, n)
    BY <1>1 DEF PartOf
<1>3. PICK moved :
        /\ types' = Keep(whole(moved), kept)
        /\ DOMAIN moved = 1..n
        /\ \A i \in 1..n : moved[i] = Rank(kept, Target(types, i))
        /\ byShape' = [s \in Shapes |-> Remap(byShape[s], moved)]
        /\ collapses' = {[x EXCEPT !.owner = moved[x.owner]] : x \in
                            {y \in collapses : y.owner \in DOMAIN moved}}
    BY DEF DedupRound, Renumber
<1>4. PICK R : Follows(R, input, types, byShape, collapses)
    BY DEF DedupRound, Faithful
<1>5. PICK S : S = {<<p[1], moved[p[2]]>> : p \in R}
    OBVIOUS
<1>6. R \subseteq (1..Len(input.types)) \X (1..n)
    BY <1>4 DEF Follows
<1>7. \A i, j : <<i, j>> \in R => <<i, moved[j]>> \in S
    BY <1>5
<1>8. \A i \in 1..n : Target(types, i) \in kept
    BY <1>1, TargetStays
<1>9. Len(types') = c /\ c \in Nat
    BY <1>2, <1>3, KeepSeq
<1>10. ASSUME NEW i \in 1..n
       PROVE  /\ moved[i] \in 1..c
              /\ types'[moved[i]] = RemapContract(types[Target(types, i)], moved)
    <2> DEFINE t == Target(types, i)
               ts == whole(moved)
    <2>1. t \in kept /\ t \in 1..n
        BY <1>1, <1>8
    <2>2. ts[t] = RemapContract(types[t], moved)
        BY <2>1
    <2>3. types' = Keep(ts, kept)
        BY <1>3
    <2> HIDE DEF t, ts, c
    <2>4. Rank(kept, t) \in 1..Cardinality(kept) /\ Keep(ts, kept)[Rank(kept, t)] = ts[t]
        BY <1>2, <2>1, KeepOf
    <2> QED
        BY <1>3, <2>2, <2>3, <2>4 DEF t, c
<1>11. \A i \in 1..n : moved[i] \in Nat
    BY <1>10
<1> HIDE DEF kept, c, whole
<1>12. S \subseteq (1..Len(input.types)) \X (1..Len(types'))
    BY <1>5, <1>6, <1>9, <1>10
<1>13. \A i \in 1..Len(input.types) : input.types[i] \in Contract
    BY InputsAssumption DEF Sound, WellFormed
<1>14. ASSUME NEW i, NEW j, <<i, j>> \in R
       PROVE  AgreeContract(input, input.types[i],
                            RemapContract(types[Target(types, j)], moved), S)
    <2> DEFINE t == types[Target(types, j)]
    <2>1. i \in 1..Len(input.types) /\ j \in 1..n
        BY <1>6, <1>14
    <2>2. AgreeContract(input, input.types[i], types[j], R)
        BY <1>4, <1>14 DEF Follows
    <2>3. Target(types, j) \in 1..n
        BY <1>1, <2>1, TargetStays
    <2>4. t \in Contract /\ Fits(t, n)
        BY <1>1, <2>3 DEF Sound, Table
    <2>5. t.kind = types[j].kind /\ t.unknown = types[j].unknown
          /\ t.members = types[j].members
        <3>1. Fingerprint(t) = Fingerprint(types[j])
            BY <1>1, <2>1, TargetAlike
        <3> QED
            BY <3>1 DEF Fingerprint
    <2> HIDE DEF t
    <2>6. AgreeContract(input, input.types[i], t, R)
        BY <2>2, <2>5 DEF AgreeContract
    <2>7. \A k \in 1..Len(t.members) :
              t.members[k].ty.leaf = "Named" => t.members[k].ty.to \in DOMAIN moved
        BY <1>3, <2>4 DEF Fits, InTable
    <2>8. input.types[i] \in Contract
        BY <1>13, <2>1
    <2>9. AgreeContract(input, input.types[i], RemapContract(t, moved), S)
        BY <1>3, <1>7, <1>11, <2>4, <2>6, <2>7, <2>8, AgreeRemapContract
    <2> QED
        BY <2>9 DEF t
<1>15. ASSUME NEW i, NEW k, <<i, k>> \in S
       PROVE  AgreeContract(input, input.types[i], types'[k], S)
    <2>1. PICK j : <<i, j>> \in R /\ k = moved[j]
        <3>1. PICK p \in R : <<i, k>> = <<p[1], moved[p[2]]>>
            BY <1>5, <1>15
        <3>2. p = <<p[1], p[2]>>
            BY <1>6
        <3> QED
            BY <3>1, <3>2
    <2>2. types'[k] = RemapContract(types[Target(types, j)], moved)
        BY <1>6, <1>10, <2>1
    <2> QED
        BY <1>14, <2>1, <2>2
<1>16. ASSUME NEW s \in Shapes PROVE AgreeRef(input, input.byShape[s], byShape'[s], S)
    <2>1. byShape[s] \in TypeRef /\ InTable(byShape[s], n)
        BY DEF Sound, Holders
    <2>2. AgreeRef(input, input.byShape[s], byShape[s], R)
        BY <1>4 DEF Follows
    <2>3. byShape[s].leaf = "Named" => byShape[s].to \in DOMAIN moved
        BY <1>3, <2>1 DEF InTable
    <2>4. byShape'[s] = Remap(byShape[s], moved)
        BY <1>3
    <2> QED
        BY <1>7, <2>1, <2>2, <2>3, <2>4, AgreeRemap
<1>17. ASSUME NEW x \in collapses'
       PROVE  \E o \in input.collapses : o.at = x.at /\ <<o.owner, x.owner>> \in S
    <2>1. collapses \subseteq [owner : 1..n, at : Nat]
        BY DEF Sound, Holders
    <2>2. PICK y \in collapses : x = [y EXCEPT !.owner = moved[y.owner]]
        BY <1>3
    <2>3. x.at = y.at /\ x.owner = moved[y.owner]
        BY <2>1, <2>2
    <2>4. PICK o \in input.collapses : o.at = y.at /\ <<o.owner, y.owner>> \in R
        BY <1>4 DEF Follows
    <2> QED
        BY <1>7, <2>3, <2>4
<1>18. Follows(S, input, types', byShape', collapses')
    BY <1>12, <1>15, <1>16, <1>17 DEF Follows
<1>19. input' = input
    BY DEF DedupRound
<1> QED
    BY <1>18, <1>19 DEF Faithful

(* An empty payload agrees with the unit that a variant holds in its place. *)
LEMMA AgreeUnit ==
    ASSUME NEW doc, doc.types \in Seq(Contract), NEW R,
           \A i, j : <<i, j>> \in R =>
              i \in 1..Len(doc.types) /\ AgreeContract(doc, doc.types[i], types[j], R),
           NEW old, NEW ref, AgreeRef(doc, old, ref, R)
    PROVE  AgreeRef(doc, old, UnitRef(ref, Units), R)
<1>1. CASE Bare(ref) /\ ref.to \in Units
    <2>1. ref.leaf = "Named" /\ ref.wraps = << >> /\ ref # LeafRef("Unit")
        BY <1>1 DEF Bare, LeafRef
    <2>2. old.wraps = << >> /\ old.leaf = "Named" /\ <<old.to, ref.to>> \in R
        BY <2>1 DEF AgreeRef
    <2>3. types[ref.to].kind = "Struct" /\ types[ref.to].members = << >>
        BY <1>1 DEF Units, Empty
    <2>4. old.to \in 1..Len(doc.types)
          /\ AgreeContract(doc, doc.types[old.to], types[ref.to], R)
        BY <2>2
    <2>5. doc.types[old.to] \in Contract
        BY <2>4
    <2>6. doc.types[old.to].kind = "Struct" /\ Len(doc.types[old.to].members) = 0
        BY <2>3, <2>4 DEF AgreeContract
    <2>7. doc.types[old.to].members = << >>
        <3>1. doc.types[old.to].members \in Seq(Member)
            BY <2>5 DEF Contract
        <3> QED
            BY <2>6, <3>1
    <2>8. UnitRef(ref, Units) = LeafRef("Unit")
        BY <1>1 DEF UnitRef
    <2> QED
        BY <2>2, <2>6, <2>7, <2>8 DEF AgreeRef, Bare
<1>2. CASE ~(Bare(ref) /\ ref.to \in Units)
    BY <1>2 DEF UnitRef
<1> QED
    BY <1>1, <1>2

(* The unit variants keep every contract, before anything is dropped.       *)
LEMMA AgreeUnitVariants ==
    ASSUME NEW doc, doc.types \in Seq(Contract), NEW R,
           \A i, j : <<i, j>> \in R =>
              i \in 1..Len(doc.types) /\ AgreeContract(doc, doc.types[i], types[j], R),
           NEW i, NEW j, <<i, j>> \in R, types[j] \in Contract
    PROVE  AgreeContract(doc, doc.types[i], UnitVariants(types[j], Units), R)
<1> DEFINE t == types[j]
           len == Len(t.members)
           tys == [k \in 1..len |-> UnitRef(t.members[k].ty, Units)]
           d == Retyped(t, tys)
<1>1. AgreeContract(doc, doc.types[i], t, R) /\ doc.types[i] \in Contract
    OBVIOUS
<1>2. CASE t.kind # "TaggedEnum"
    BY <1>1, <1>2 DEF UnitVariants
<1>3. CASE t.kind = "TaggedEnum"
    <2>1. UnitVariants(t, Units) = d
        BY <1>3 DEF UnitVariants
    <2>2. ASSUME NEW k \in 1..len PROVE tys[k] \in TypeRef
        <3>1. t.members \in Seq(Member)
            BY DEF Contract
        <3>2. t.members[k] \in Member
            BY <3>1
        <3>3. t.members[k].ty \in TypeRef /\ LeafRef("Unit") \in TypeRef
            BY <3>2 DEF Member, LeafRef, TypeRef, Leaf
        <3> QED
            BY <3>3 DEF UnitRef
    <2>3. ASSUME NEW k \in 1..len, AgreeRef(doc, doc.types[i].members[k].ty, t.members[k].ty, R)
          PROVE  AgreeRef(doc, doc.types[i].members[k].ty, tys[k], R)
        BY <2>3, AgreeUnit
    <2>4. d.unknown = t.unknown
        BY DEF Retyped, Contract
    <2>5. t \in Contract
        OBVIOUS
    <2> HIDE DEF t, tys
    <2>6. /\ d \in Contract /\ Len(d.members) = len /\ d.kind = t.kind
          /\ \A k \in 1..len : /\ d.members[k].ty = tys[k]
                               /\ d.members[k].presence = t.members[k].presence
                               /\ d.members[k].capture = t.members[k].capture
        BY <2>2, <2>5, RetypedType
    <2> HIDE DEF d
    <2>7. AgreeContract(doc, doc.types[i], d, R)
        <3> DEFINE first == doc.types[i]
        <3>1. /\ first \in Contract /\ AgreeContract(doc, first, t, R)
              /\ \A k \in 1..len : AgreeRef(doc, first.members[k].ty, t.members[k].ty, R) =>
                                   AgreeRef(doc, first.members[k].ty, tys[k], R)
            BY <1>1, <2>3
        <3> HIDE DEF first
        <3>2. AgreeContract(doc, first, d, R)
            BY <2>4, <2>5, <2>6, <3>1, AgreeRetyped
        <3> QED
            BY <3>2 DEF first
    <2> QED
        BY <2>1, <2>7 DEF t
<1> QED
    BY <1>2, <1>3

(* Dropping the units leaves what is kept with the contract it had.         *)
LEMMA UnitRunFaithful ==
    ASSUME Sound, Faithful, UnitRun PROVE Faithful'
<1> DEFINE n == Len(types)
           kept == (DOMAIN types) \ Units
           c == Cardinality(kept)
           variant(i) == UnitVariants(types[i], Units)
           whole(f) == [i \in 1..n |-> RemapContract(UnitVariants(types[i], Units), f)]
<1>1. /\ n \in Nat /\ DOMAIN types = 1..n /\ Table(types)
      /\ \A i \in 1..n : types[i] \in Contract /\ types[i].form.half = 0
    BY DEF Sound, Table, Staged, UnitRun
<1>2. PartOf(kept, n)
    BY <1>1 DEF PartOf
<1>3. PICK moved :
        /\ types' = Keep(whole(moved), kept)
        /\ DOMAIN moved = kept
        /\ \A i \in kept : moved[i] = Rank(kept, i)
        /\ byShape' = [s \in Shapes |-> Remap(UnitRef(byShape[s], Units), moved)]
        /\ collapses' = {[x EXCEPT !.owner = moved[x.owner]] : x \in
                            {y \in collapses : y.owner \in kept}}
    BY DEF UnitRun
<1>4. PICK R : Follows(R, input, types, byShape, collapses)
    BY DEF UnitRun, Faithful
<1>5. PICK S : S = {<<p[1], moved[p[2]]>> : p \in {q \in R : q[2] \in kept}}
    OBVIOUS
<1>6. /\ input.types \in Seq(Contract)
      /\ R \subseteq (1..Len(input.types)) \X (1..n)
      /\ \A i, j : <<i, j>> \in R => i \in 1..Len(input.types)
                                   /\ AgreeContract(input, input.types[i], types[j], R)
    BY <1>4, InputsAssumption DEF Sound, WellFormed, Follows
<1>7. \A i, j : <<i, j>> \in R /\ j \in DOMAIN moved => <<i, moved[j]>> \in S
    BY <1>3, <1>5
<1>8. Len(types') = c /\ c \in Nat
    BY <1>2, <1>3, KeepSeq
<1>9. ASSUME NEW i \in kept
      PROVE  /\ moved[i] \in 1..c
             /\ types'[moved[i]] = RemapContract(variant(i), moved)
    <2> DEFINE ts == whole(moved)
    <2>1. ts[i] = RemapContract(variant(i), moved)
        BY <1>1
    <2>2. types' = Keep(ts, kept)
        BY <1>3
    <2> HIDE DEF ts, c
    <2>3. Rank(kept, i) \in 1..Cardinality(kept) /\ Keep(ts, kept)[Rank(kept, i)] = ts[i]
        BY <1>2, KeepOf
    <2> QED
        BY <1>3, <2>1, <2>2, <2>3 DEF c
<1>10. \A i \in DOMAIN moved : moved[i] \in Nat
    <2>1. \A i \in kept : moved[i] \in Nat
        BY <1>9
    <2> HIDE DEF kept
    <2> QED
        BY <1>3, <2>1
<1>11. \A i \in 1..n : i \in kept <=> i \notin Units
    BY <1>1
<1> HIDE DEF kept, c, whole, variant
<1>12. S \subseteq (1..Len(input.types)) \X (1..Len(types'))
    BY <1>5, <1>6, <1>8, <1>9
<1>13. ASSUME NEW i, NEW j, <<i, j>> \in R, j \in kept
       PROVE  AgreeContract(input, input.types[i], RemapContract(variant(j), moved), S)
    <2> DEFINE v == variant(j)
    <2>1. i \in 1..Len(input.types) /\ j \in 1..n /\ input.types[i] \in Contract
        BY <1>6, <1>13
    <2>2. AgreeContract(input, input.types[i], v, R)
        BY <1>1, <1>6, <1>13, <2>1, AgreeUnitVariants DEF variant
    <2>3. /\ Fits(v, n)
          /\ \A k \in 1..Len(v.members) :
                v.members[k].ty.leaf = "Named" => v.members[k].ty.to \notin Units
        BY <1>1, <2>1, UnitVariantsFit DEF variant
    <2> HIDE DEF v
    <2>4. v \in Contract /\ \A k \in 1..Len(v.members) :
              v.members[k].ty.leaf = "Named" => v.members[k].ty.to \in DOMAIN moved
        BY <1>3, <1>11, <2>3 DEF Fits, InTable
    <2>5. AgreeContract(input, input.types[i], RemapContract(v, moved), S)
        BY <1>7, <1>10, <2>1, <2>2, <2>4, AgreeRemapContract
    <2> QED
        BY <2>5 DEF v
<1>14. ASSUME NEW i, NEW k, <<i, k>> \in S
       PROVE  AgreeContract(input, input.types[i], types'[k], S)
    <2>1. PICK j : <<i, j>> \in R /\ j \in kept /\ k = moved[j]
        <3>1. PICK p \in R : p[2] \in kept /\ <<i, k>> = <<p[1], moved[p[2]]>>
            BY <1>5, <1>14
        <3>2. p = <<p[1], p[2]>>
            BY <1>6
        <3> QED
            BY <3>1, <3>2
    <2>2. types'[k] = RemapContract(variant(j), moved)
        BY <1>9, <2>1
    <2> QED
        BY <1>13, <2>1, <2>2
<1>15. ASSUME NEW s \in Shapes PROVE AgreeRef(input, input.byShape[s], byShape'[s], S)
    <2> DEFINE ref == UnitRef(byShape[s], Units)
    <2>1. byShape[s] \in TypeRef /\ InTable(byShape[s], n)
        BY DEF Sound, Holders
    <2>2. AgreeRef(input, input.byShape[s], byShape[s], R)
        BY <1>4 DEF Follows
    <2>3. AgreeRef(input, input.byShape[s], ref, R)
        BY <1>6, <2>2, AgreeUnit
    <2>4. LeafRef("Unit") \in TypeRef /\ LeafRef("Unit").leaf # "Named"
        BY DEF LeafRef, TypeRef, Leaf
    <2>5. byShape[s].leaf = "Named" /\ ~Bare(byShape[s]) => byShape[s].to \notin Units
        BY DEF Units, ShapedAsType
    <2>6. ref \in TypeRef /\ (ref.leaf = "Named" => ref.to \in DOMAIN moved)
        BY <1>3, <1>11, <2>1, <2>4, <2>5 DEF UnitRef, InTable
    <2>7. byShape'[s] = Remap(ref, moved)
        BY <1>3
    <2> HIDE DEF ref
    <2> QED
        BY <1>7, <2>3, <2>6, <2>7, AgreeRemap
<1>16. ASSUME NEW x \in collapses'
       PROVE  \E o \in input.collapses : o.at = x.at /\ <<o.owner, x.owner>> \in S
    <2>1. collapses \subseteq [owner : 1..n, at : Nat]
        BY DEF Sound, Holders
    <2>2. PICK y \in collapses : y.owner \in kept /\ x = [y EXCEPT !.owner = moved[y.owner]]
        BY <1>3
    <2>3. x.at = y.at /\ x.owner = moved[y.owner]
        BY <2>1, <2>2
    <2>4. PICK o \in input.collapses : o.at = y.at /\ <<o.owner, y.owner>> \in R
        BY <1>4 DEF Follows
    <2> QED
        BY <1>3, <1>7, <2>2, <2>3, <2>4
<1>17. Follows(S, input, types', byShape', collapses')
    BY <1>12, <1>14, <1>15, <1>16 DEF Follows
<1>18. input' = input
    BY DEF UnitRun
<1> QED
    BY <1>17, <1>18 DEF Faithful

(* Every other step of those phases leaves what is compared alone.          *)
LEMMA NextFaithful ==
    ASSUME Sound, Faithful, [Next]_vars PROVE Faithful'
<1>1. CASE DedupRound
    BY <1>1, DedupRoundFaithful
<1>2. CASE UnitRun
    BY <1>2, UnitRunFaithful
<1>3. CASE DedupEnd
    BY <1>3 DEF Faithful, DedupEnd
<1>4. ASSUME NEW d \in Direction, ReachStep(d) PROVE Faithful'
    BY <1>4 DEF Faithful, ReachStep
<1>5. CASE ReachEnd
    BY <1>5 DEF Faithful, ReachEnd
<1>6. CASE DiffersRound
    BY <1>6 DEF Faithful, DiffersRound
<1>7. CASE TwinRun \/ Finalizing
    <2>1. phase' \notin {"dedup", "reach", "unit", "twin"}
        BY <1>7 DEF TwinRun, Finalizing, Normalize, Promote, BoxRound, BoxEnd, Reopen,
           DeriveRound, Freeze
    <2> QED
        BY <2>1 DEF Faithful
<1>8. CASE UNCHANGED vars
    BY <1>8 DEF vars, Faithful
<1> QED
    BY <1>1, <1>2, <1>3, <1>4, <1>5, <1>6, <1>7, <1>8 DEF Next, Tabling, Finished

(* The document agrees with itself.                                         *)
LEMMA InitFaithful ==
    ASSUME Init PROVE Faithful
<1>1. PICK R : R = {<<i, i>> : i \in 1..Len(input.types)}
    OBVIOUS
<1>2. WellFormed(input) /\ types = input.types /\ byShape = input.byShape
      /\ collapses = input.collapses
    BY InputsAssumption DEF Init
<1>3. \A i \in 1..Len(input.types) : <<i, i>> \in R
    BY <1>1
<1>4. R \subseteq (1..Len(input.types)) \X (1..Len(types))
    BY <1>1, <1>2
<1>5. ASSUME NEW ref, InTable(ref, Len(input.types))
      PROVE  AgreeRef(input, ref, ref, R)
    BY <1>3, <1>5 DEF AgreeRef, InTable
<1>6. ASSUME NEW i \in 1..Len(input.types)
      PROVE  AgreeContract(input, input.types[i], input.types[i], R)
    <2>1. \A k \in DOMAIN input.types[i].members :
              InTable(input.types[i].members[k].ty, Len(input.types))
        BY <1>2 DEF WellFormed
    <2> QED
        BY <1>5, <2>1 DEF AgreeContract
<1>7. \A s \in Shapes : AgreeRef(input, input.byShape[s], byShape[s], R)
    BY <1>2, <1>5 DEF WellFormed
<1>8. \A c \in collapses : \E o \in input.collapses :
          o.at = c.at /\ <<o.owner, c.owner>> \in R
    BY <1>2, <1>3 DEF WellFormed
<1>9. \A i, j : <<i, j>> \in R => AgreeContract(input, input.types[i], types[j], R)
    BY <1>1, <1>2, <1>6
<1> QED
    BY <1>4, <1>7, <1>8, <1>9 DEF Follows, Faithful

(* Whatever agrees along a relation agrees to any depth.                    *)
LEMMA FollowsAgrees ==
    ASSUME Sound, NEW R, Follows(R, input, types, byShape, collapses)
    PROVE  R \subseteq Agreeing
<1> DEFINE all == (DOMAIN input.types) \X (DOMAIN types)
           depth == Len(input.types) + Len(types)
           Still(s) == {p \in s : AgreeContract(input, input.types[p[1]], types[p[2]], s)}
           X == SUBSET all
           step == [k \in 1..depth |-> [s \in X |-> Still(s)]]
           Is(f) == f = [k \in 0..depth |-> IF k = 0 THEN all ELSE Still(f[k - 1])]
<1>1. /\ DOMAIN input.types = 1..Len(input.types) /\ DOMAIN types = 1..Len(types)
      /\ depth \in Nat
    BY InputsAssumption DEF Sound, Table, WellFormed
<1>2. all \in X /\ \A s \in X : Still(s) \in X
    OBVIOUS
<1>3. step \in [1..depth -> [X -> X]] /\ \A k \in 1..depth : \A s \in X : step[k][s] = Still(s)
    BY <1>2
<1>4. R \subseteq all
    BY <1>1 DEF Follows
<1>5. ASSUME NEW s, R \subseteq s PROVE R \subseteq Still(s)
    <2> SUFFICES ASSUME NEW p \in R
                 PROVE  AgreeContract(input, input.types[p[1]], types[p[2]], s)
        BY <1>5
    <2>1. p = <<p[1], p[2]>>
        BY <1>4
    <2>2. AgreeContract(input, input.types[p[1]], types[p[2]], R)
        BY <2>1 DEF Follows
    <2>3. \A old, new : AgreeRef(input, old, new, R) => AgreeRef(input, old, new, s)
        BY <1>5 DEF AgreeRef
    <2> QED
        BY <2>2, <2>3 DEF AgreeContract
<1>6. Agreeing = (CHOOSE f : Is(f))[depth]
    BY DEF Agreeing
<1> HIDE DEF X, step, all, depth, Still
<1>7. PICK f : Iterate(f, depth, X, all, step)
    BY <1>1, <1>2, <1>3, Iterates
<1>8. \A k \in 1..depth : f[k] = Still(f[k - 1])
    <2>1. \A k \in 1..depth : f[k - 1] \in X
        BY <1>1, <1>7 DEF Iterate
    <2> QED
        BY <1>3, <1>7, <2>1 DEF Iterate
<1>9. Is(f)
    <2>1. \A k \in 0..depth : f[k] = IF k = 0 THEN all ELSE Still(f[k - 1])
        BY <1>1, <1>7, <1>8 DEF Iterate
    <2> QED
        BY <1>7, <2>1 DEF Iterate
<1> DEFINE agree == CHOOSE g : Is(g)
<1>10. Is(agree)
    BY <1>9
<1> HIDE DEF agree
<1> DEFINE P == {k \in 0..depth : R \subseteq agree[k]}
<1>11. 0 \in P
    BY <1>1, <1>4, <1>10
<1>12. ASSUME NEW k \in 1..depth, k - 1 \in P PROVE k \in P
    <2>1. agree[k] = Still(agree[k - 1])
        BY <1>1, <1>10
    <2> QED
        BY <1>1, <1>5, <1>12, <2>1
<1> HIDE DEF P
<1>13. depth \in P
    <2>1. 0..depth \subseteq P
        BY <1>1, <1>11, <1>12, UpTo
    <2> QED
        BY <1>1, <2>1
<1> QED
    BY <1>6, <1>13 DEF P, agree

(* Merging types and dropping empty payloads keeps the wire contract, for   *)
(* every document: each shape, and the owner of each finding, denotes a     *)
(* contract that unfolds as the one it was lowered to, to any depth.        *)
(* dedup::apply and unit::remove.                                           *)
THEOREM MergingIsSound == Spec => []MergesKeepContracts
<1>1. Init => Faithful
    BY InitFaithful
<1>2. Sound /\ Faithful /\ [Next]_vars => Faithful'
    BY NextFaithful
<1>3. Sound /\ Faithful => MergesKeepContracts
    <2> SUFFICES ASSUME Sound, Faithful, phase \in {"unit", "twin"}
                 PROVE  /\ \A s \in Shapes :
                              AgreeRef(input, input.byShape[s], byShape[s], Agreeing)
                        /\ \A c \in collapses : \E o \in input.collapses :
                              o.at = c.at /\ <<o.owner, c.owner>> \in Agreeing
        BY DEF MergesKeepContracts
    <2>1. PICK R : Follows(R, input, types, byShape, collapses)
        BY DEF Faithful
    <2>2. R \subseteq Agreeing
        BY <2>1, FollowsAgrees
    <2>3. \A old, new : AgreeRef(input, old, new, R) => AgreeRef(input, old, new, Agreeing)
        BY <2>2 DEF AgreeRef
    <2> QED
        BY <2>1, <2>2, <2>3 DEF Follows
<1> QED
    BY <1>1, <1>2, <1>3, AlwaysSound, PTL DEF Spec

=============================================================================
