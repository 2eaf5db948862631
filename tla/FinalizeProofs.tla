-------------------------- MODULE FinalizeProofs --------------------------
(* What the passes that finalize the table establish, for tables of any     *)
(* size: no decoder and no alias goes round in circles, a nullable member   *)
(* still reads null, and the rounds two passes are given suffice: boxing    *)
(* leaves no type of infinite size where there are no more members to box   *)
(* than rounds, and support for derives always settles, so that what the    *)
(* crate asks of every type is given to a type only when everything it      *)
(* holds is given it.                                                       *)
EXTENDS ContractsProofs

-----------------------------------------------------------------------------
(* What boxing and reopening do to a contract.                              *)

\* A reference that names what another one names, and hands on what it does.
SameName(old, new) ==
    /\ new.leaf = old.leaf /\ new.to = old.to
    /\ Forwards(new) <=> Forwards(old)

\* A contract whose members have the roles they had and name what they named.
Rewrapped(c, d) ==
    /\ d.kind = c.kind /\ d.form = c.form
    /\ Len(d.members) = Len(c.members)
    /\ DOMAIN d.members = 1..Len(c.members) /\ DOMAIN c.members = 1..Len(c.members)
    /\ \A k \in 1..Len(c.members) :
          /\ d.members[k].presence = c.members[k].presence
          /\ d.members[k].capture = c.members[k].capture
          /\ SameName(c.members[k].ty, d.members[k].ty)

(* References that name the same make a contract that does.                 *)
LEMMA RetypedRewraps ==
    ASSUME NEW c, NEW n, Fits(c, n), NEW tys,
           \A k \in 1..Len(c.members) : tys[k] \in TypeRef /\ SameName(c.members[k].ty, tys[k])
    PROVE  Rewrapped(c, Retyped(c, tys))
<1> DEFINE d == Retyped(c, tys)
<1>1. c \in Contract
    BY DEF Fits
<1>2. /\ d \in Contract /\ Len(d.members) = Len(c.members)
      /\ d.kind = c.kind /\ d.form = c.form
      /\ \A k \in 1..Len(c.members) : /\ d.members[k].ty = tys[k]
                                      /\ d.members[k].presence = c.members[k].presence
                                      /\ d.members[k].capture = c.members[k].capture
    BY <1>1, RetypedType
<1> HIDE DEF d
<1>3. DOMAIN d.members = 1..Len(c.members) /\ DOMAIN c.members = 1..Len(c.members)
    BY <1>1, <1>2 DEF Contract
<1>4. Rewrapped(c, d)
    BY <1>2, <1>3 DEF Rewrapped
<1> QED
    BY <1>4 DEF d

(* A Box right around the name hands on what it is handed.                  *)
LEMMA BoxedSameName ==
    ASSUME NEW ref \in TypeRef
    PROVE  LET boxed == [ref EXCEPT !.wraps = Append(ref.wraps, "Box")]
           IN  /\ boxed \in TypeRef
               /\ boxed.wraps = Append(ref.wraps, "Box")
               /\ SameName(ref, boxed)
<1> DEFINE ws == Append(ref.wraps, "Box")
           boxed == [ref EXCEPT !.wraps = ws]
           len == Len(ref.wraps)
<1>1. ref.wraps \in Seq(Wrap) /\ len \in Nat
    BY DEF TypeRef
<1>2. "Box" \in Wrap /\ "Box" \in Forwarding
    BY DEF Wrap, Indirecting, Forwarding
<1>3. /\ ws \in Seq(Wrap) /\ DOMAIN ws = 1..(len + 1) /\ DOMAIN ref.wraps = 1..len
      /\ ws[len + 1] = "Box" /\ \A k \in 1..len : ws[k] = ref.wraps[k]
    BY <1>1, <1>2
<1> HIDE DEF ws
<1>4. boxed \in TypeRef /\ boxed.wraps = ws /\ boxed.leaf = ref.leaf /\ boxed.to = ref.to
    BY <1>3 DEF TypeRef
<1> HIDE DEF boxed
<1>5. (\A k \in 1..(len + 1) : ws[k] \in Forwarding)
          <=> (\A k \in 1..len : ref.wraps[k] \in Forwarding)
    <2>1. \A k \in 1..(len + 1) : k \in 1..len \/ k = len + 1
        BY <1>1
    <2>2. \A k \in 1..len : k \in 1..(len + 1)
        BY <1>1
    <2> QED
        BY <1>2, <1>3, <2>1, <2>2
<1>6. Forwards(boxed) <=> Forwards(ref)
    BY <1>3, <1>4, <1>5 DEF Forwards
<1>7. SameName(ref, boxed)
    BY <1>4, <1>6 DEF SameName
<1> QED
    BY <1>4, <1>7 DEF boxed, ws

(* So does an Option around the whole of it.                                *)
LEMMA OptionSameName ==
    ASSUME NEW ref \in TypeRef
    PROVE  /\ Wrapped("Option", ref) \in TypeRef
           /\ Wrapped("Option", ref).wraps = <<"Option">> \o ref.wraps
           /\ SpellsOption(Wrapped("Option", ref))
           /\ SameName(ref, Wrapped("Option", ref))
<1> DEFINE ws == <<"Option">> \o ref.wraps
           opened == Wrapped("Option", ref)
           len == Len(ref.wraps)
<1>1. ref.wraps \in Seq(Wrap) /\ len \in Nat
    BY DEF TypeRef
<1>2. "Option" \in Wrap /\ "Option" \in Forwarding
    BY DEF Wrap, Through, Forwarding
<1>3. /\ ws \in Seq(Wrap) /\ DOMAIN ws = 1..(len + 1) /\ DOMAIN ref.wraps = 1..len
      /\ ws[1] = "Option" /\ ws # << >>
      /\ \A k \in 1..len : ws[k + 1] = ref.wraps[k]
    BY <1>1, <1>2
<1> HIDE DEF ws
<1>4. /\ opened \in TypeRef /\ opened.wraps = ws
      /\ opened.leaf = ref.leaf /\ opened.to = ref.to
    BY <1>3 DEF TypeRef, Wrapped, ws
<1> HIDE DEF opened
<1>5. (\A k \in 1..(len + 1) : ws[k] \in Forwarding)
          <=> (\A k \in 1..len : ref.wraps[k] \in Forwarding)
    <2>1. \A k \in 1..(len + 1) : k = 1 \/ (k - 1 \in 1..len /\ k = (k - 1) + 1)
        BY <1>1
    <2>2. \A k \in 1..len : k + 1 \in 1..(len + 1)
        BY <1>1
    <2>3. ASSUME \A k \in 1..len : ref.wraps[k] \in Forwarding,
                 NEW k \in 1..(len + 1)
          PROVE  ws[k] \in Forwarding
        <3>1. CASE k = 1
            BY <1>2, <1>3, <3>1
        <3>2. CASE k - 1 \in 1..len /\ k = (k - 1) + 1
            BY <1>3, <2>3, <3>2
        <3> QED
            BY <2>1, <3>1, <3>2
    <2> QED
        BY <1>3, <2>2, <2>3
<1>6. Forwards(opened) <=> Forwards(ref)
    BY <1>3, <1>4, <1>5 DEF Forwards
<1>7. SameName(ref, opened) /\ SpellsOption(opened)
    BY <1>3, <1>4, <1>6 DEF SameName, SpellsOption
<1> QED
    BY <1>4, <1>7 DEF opened, ws

(* Boxing a member keeps what a contract names.                             *)
LEMMA BoxFirstRewraps ==
    ASSUME NEW c, NEW n, Fits(c, n), NEW target
    PROVE  Rewrapped(c, BoxFirst(c, target))
<1> DEFINE direct == {k \in DOMAIN c.members :
                        Names(c.members[k].ty, target) /\ Direct(c.members[k].ty)}
           boxed(k) == [c.members[k].ty EXCEPT !.wraps = Append(c.members[k].ty.wraps, "Box")]
           tys == [k \in 1..Len(c.members) |->
                     IF k \in direct /\ \A j \in direct : k <= j
                     THEN boxed(k) ELSE c.members[k].ty]
<1>1. \A k \in 1..Len(c.members) : c.members[k].ty \in TypeRef
    BY FitsTypes
<1>2. BoxFirst(c, target) = Retyped(c, tys)
    BY DEF BoxFirst
<1>3. \A k \in 1..Len(c.members) : tys[k] = boxed(k) \/ tys[k] = c.members[k].ty
    OBVIOUS
<1> HIDE DEF direct, tys
<1>4. ASSUME NEW k \in 1..Len(c.members)
      PROVE  tys[k] \in TypeRef /\ SameName(c.members[k].ty, tys[k])
    <2>1. boxed(k) \in TypeRef /\ SameName(c.members[k].ty, boxed(k))
        BY <1>1, BoxedSameName
    <2>2. SameName(c.members[k].ty, c.members[k].ty)
        BY DEF SameName
    <2> QED
        BY <1>1, <1>3, <2>1, <2>2
<1> QED
    BY <1>2, <1>4, RetypedRewraps

(* Reopening a member keeps what a contract names.                          *)
LEMMA ReopenedRewraps ==
    ASSUME NEW c, NEW n, Fits(c, n), NEW ts
    PROVE  Rewrapped(c, Reopened(ts, c))
<1> DEFINE nullable(k) == /\ c.kind = "Struct"
                          /\ c.members[k].presence = "Nullable"
                          /\ ~SpellsOption(Unaliased(ts, c.members[k].ty))
           opened(k) == Wrapped("Option", c.members[k].ty)
           tys == [k \in 1..Len(c.members) |->
                     IF nullable(k) THEN opened(k) ELSE c.members[k].ty]
<1>1. \A k \in 1..Len(c.members) : c.members[k].ty \in TypeRef
    BY FitsTypes
<1>2. Reopened(ts, c) = Retyped(c, tys)
    BY DEF Reopened
<1>3. \A k \in 1..Len(c.members) : tys[k] = opened(k) \/ tys[k] = c.members[k].ty
    OBVIOUS
<1> HIDE DEF nullable, tys
<1>4. ASSUME NEW k \in 1..Len(c.members)
      PROVE  tys[k] \in TypeRef /\ SameName(c.members[k].ty, tys[k])
    <2>1. opened(k) \in TypeRef /\ SameName(c.members[k].ty, opened(k))
        BY <1>1, OptionSameName
    <2>2. SameName(c.members[k].ty, c.members[k].ty)
        BY DEF SameName
    <2> QED
        BY <1>1, <1>3, <2>1, <2>2
<1> QED
    BY <1>2, <1>4, RetypedRewraps

-----------------------------------------------------------------------------
(* What may be on a cycle.                                                  *)

\* The members a decoder hands the same value it was handed.
HandsOn(c, k) ==
    \/ c.kind \in {"Alias", "Newtype", "Enum", "CarriedTagEnum"}
    \/ c.kind = "Struct" /\ c.members[k].capture = "Union"

(* An edge a decoder follows without consuming input is such a member's.    *)
LEMMA ForwardEdge ==
    ASSUME NEW ts, NEW i, NEW j
    PROVE  <<i, j>> \in ForwardEdges(ts) <=>
              /\ i \in DOMAIN ts /\ j \in DOMAIN ts
              /\ \E k \in DOMAIN ts[i].members :
                    /\ HandsOn(ts[i], k)
                    /\ Forwards(ts[i].members[k].ty)
                    /\ ts[i].members[k].ty.to = j
<1> DEFINE refs == [x \in DOMAIN ts |-> {ref \in Replayed(ts[x]) : Forwards(ref)}]
<1>1. ForwardEdges(ts) = EdgesBy(refs)
    BY DEF ForwardEdges
<1>2. ASSUME NEW x \in DOMAIN ts, NEW y
      PROVE  (\E ref \in refs[x] : Names(ref, y)) <=>
                \E k \in DOMAIN ts[x].members :
                    /\ HandsOn(ts[x], k)
                    /\ Forwards(ts[x].members[k].ty)
                    /\ ts[x].members[k].ty.to = y
    <2>1. refs[x] = {ref \in Replayed(ts[x]) : Forwards(ref)}
        OBVIOUS
    <2>2. \A ref : ref \in Replayed(ts[x]) <=>
              \E k \in DOMAIN ts[x].members : HandsOn(ts[x], k) /\ ref = ts[x].members[k].ty
        BY DEF Replayed, References, HandsOn
    <2>3. \A ref : Forwards(ref) => (Names(ref, y) <=> ref.to = y)
        BY DEF Forwards, Names
    <2> HIDE DEF refs
    <2> QED
        BY <2>1, <2>2, <2>3
<1>3. DOMAIN refs = DOMAIN ts
    OBVIOUS
<1> HIDE DEF refs
<1> QED
    BY <1>1, <1>2, <1>3, EdgeBy

(* An edge between aliases.                                                 *)
LEMMA AliasEdge ==
    ASSUME NEW ts, NEW i, NEW j
    PROVE  <<i, j>> \in AliasEdges(ts) <=>
              /\ i \in DOMAIN ts /\ j \in DOMAIN ts
              /\ ts[i].kind = "Alias" /\ ts[j].kind = "Alias"
              /\ \E k \in DOMAIN ts[i].members :
                    ts[i].members[k].ty.leaf = "Named" /\ ts[i].members[k].ty.to = j
<1> DEFINE refs == [x \in DOMAIN ts |-> References(ts[x])]
<1>1. AllEdges(ts) = EdgesBy(refs)
    BY DEF AllEdges
<1>2. \A x \in DOMAIN ts : refs[x] = {ts[x].members[k].ty : k \in DOMAIN ts[x].members}
    BY DEF References
<1>3. DOMAIN refs = DOMAIN ts
    OBVIOUS
<1> HIDE DEF refs
<1>4. <<i, j>> \in AllEdges(ts) <=>
              /\ i \in DOMAIN ts /\ j \in DOMAIN ts
              /\ \E k \in DOMAIN ts[i].members : Names(ts[i].members[k].ty, j)
    BY <1>1, <1>2, <1>3, EdgeBy
<1> QED
    BY <1>4 DEF AliasEdges, Names

(* Both sets are made of pairs of positions.                                *)
LEMMA EdgePairs ==
    ASSUME NEW ts
    PROVE  /\ ForwardEdges(ts) \subseteq (DOMAIN ts) \X (DOMAIN ts)
           /\ AliasEdges(ts) \subseteq (DOMAIN ts) \X (DOMAIN ts)
<1>1. \A refs : EdgesBy(refs) \subseteq (DOMAIN refs) \X (DOMAIN refs)
    BY DEF EdgesBy
<1>2. ForwardEdges(ts) \subseteq (DOMAIN ts) \X (DOMAIN ts)
    <2> DEFINE refs == [x \in DOMAIN ts |-> {ref \in Replayed(ts[x]) : Forwards(ref)}]
    <2>1. ForwardEdges(ts) = EdgesBy(refs) /\ DOMAIN refs = DOMAIN ts
        BY DEF ForwardEdges
    <2> HIDE DEF refs
    <2> QED
        BY <1>1, <2>1
<1>3. AllEdges(ts) \subseteq (DOMAIN ts) \X (DOMAIN ts)
    <2> DEFINE refs == [x \in DOMAIN ts |-> References(ts[x])]
    <2>1. AllEdges(ts) = EdgesBy(refs) /\ DOMAIN refs = DOMAIN ts
        BY DEF AllEdges
    <2> HIDE DEF refs
    <2> QED
        BY <1>1, <2>1
<1>4. AliasEdges(ts) \subseteq AllEdges(ts)
    BY DEF AliasEdges
<1> QED
    BY <1>2, <1>3, <1>4

(* Wrapping anew adds no edge to either.                                    *)
LEMMA RewrappedEdges ==
    ASSUME NEW n \in Nat, NEW ts, NEW us, DOMAIN ts = 1..n, DOMAIN us = 1..n,
           \A i \in 1..n : us[i] = ts[i] \/ Rewrapped(ts[i], us[i])
    PROVE  /\ ForwardEdges(us) \subseteq ForwardEdges(ts)
           /\ AliasEdges(us) \subseteq AliasEdges(ts)
<1>1. ASSUME NEW i \in 1..n
      PROVE  /\ us[i].kind = ts[i].kind
             /\ DOMAIN us[i].members = DOMAIN ts[i].members
             /\ \A k \in DOMAIN us[i].members :
                   /\ us[i].members[k].capture = ts[i].members[k].capture
                   /\ us[i].members[k].ty.leaf = ts[i].members[k].ty.leaf
                   /\ us[i].members[k].ty.to = ts[i].members[k].ty.to
                   /\ Forwards(us[i].members[k].ty) <=> Forwards(ts[i].members[k].ty)
    BY DEF Rewrapped, SameName
<1>2. ASSUME NEW i, NEW j, <<i, j>> \in ForwardEdges(us)
      PROVE  <<i, j>> \in ForwardEdges(ts)
    <2>1. /\ i \in 1..n /\ j \in 1..n
          /\ \E k \in DOMAIN us[i].members :
                /\ HandsOn(us[i], k)
                /\ Forwards(us[i].members[k].ty)
                /\ us[i].members[k].ty.to = j
        BY <1>2, ForwardEdge
    <2>2. PICK k \in DOMAIN us[i].members : /\ HandsOn(us[i], k)
                                           /\ Forwards(us[i].members[k].ty)
                                           /\ us[i].members[k].ty.to = j
        BY <2>1
    <2>3. HandsOn(ts[i], k)
        BY <1>1, <2>1, <2>2 DEF HandsOn
    <2>4. k \in DOMAIN ts[i].members /\ Forwards(ts[i].members[k].ty)
          /\ ts[i].members[k].ty.to = j
        BY <1>1, <2>1, <2>2
    <2> QED
        BY <2>1, <2>3, <2>4, ForwardEdge
<1>3. ASSUME NEW i, NEW j, <<i, j>> \in AliasEdges(us)
      PROVE  <<i, j>> \in AliasEdges(ts)
    <2>1. /\ i \in 1..n /\ j \in 1..n
          /\ us[i].kind = "Alias" /\ us[j].kind = "Alias"
          /\ \E k \in DOMAIN us[i].members :
                us[i].members[k].ty.leaf = "Named" /\ us[i].members[k].ty.to = j
        BY <1>3, AliasEdge
    <2>2. /\ ts[i].kind = "Alias" /\ ts[j].kind = "Alias"
          /\ \E k \in DOMAIN ts[i].members :
                ts[i].members[k].ty.leaf = "Named" /\ ts[i].members[k].ty.to = j
        BY <1>1, <2>1
    <2> QED
        BY <2>1, <2>2, AliasEdge
<1> QED
    BY <1>2, <1>3, EdgePairs

-----------------------------------------------------------------------------
(* No loops are left.                                                       *)

(* A retyped cycle names nothing, and nothing else gains an edge.           *)
LEMMA NormalizeCuts ==
    ASSUME Sound, Normalize
    PROVE  ~Cyclic(Len(types'), ForwardEdges(types'))
<1> DEFINE n == Len(types)
<1>1. /\ n \in Nat /\ DOMAIN types = 1..n /\ Len(types') = n /\ DOMAIN types' = 1..n
      /\ \A i \in 1..n : Fits(types[i], n)
    BY NormalizeSound DEF Sound, Table, Normalize
<1>2. ASSUME NEW i \in 1..n
      PROVE  \/ i \notin Replaying(types) /\ types'[i] = types[i]
             \/ \E leaf \in {"Unit", "Value"} : types'[i] = AliasOf(types[i], leaf)
    BY DEF Normalize
<1>3. ASSUME NEW i \in 1..n, NEW leaf \in {"Unit", "Value"},
             types'[i] = AliasOf(types[i], leaf), NEW j
      PROVE  <<i, j>> \notin ForwardEdges(types')
    <2>1. types[i] \in Contract
        BY <1>1 DEF Fits
    <2>2. types'[i].members = <<[ty |-> LeafRef(leaf), presence |-> "Required",
                                 capture |-> "None"]>>
        BY <1>3, <2>1 DEF AliasOf, Contract
    <2>3. \A k \in DOMAIN types'[i].members : ~Forwards(types'[i].members[k].ty)
        <3>1. ~Forwards(LeafRef(leaf))
            BY DEF LeafRef, Forwards
        <3> QED
            BY <2>2, <3>1
    <2> QED
        BY <2>3, ForwardEdge
<1>4. ForwardEdges(types') \subseteq ForwardEdges(types)
    <2>1. ASSUME NEW i, NEW j, <<i, j>> \in ForwardEdges(types')
          PROVE  <<i, j>> \in ForwardEdges(types)
        <3>1. /\ i \in 1..n /\ j \in 1..n
              /\ \E k \in DOMAIN types'[i].members :
                    /\ HandsOn(types'[i], k)
                    /\ Forwards(types'[i].members[k].ty)
                    /\ types'[i].members[k].ty.to = j
            BY <1>1, <2>1, ForwardEdge
        <3>2. types'[i] = types[i]
            BY <1>2, <1>3, <2>1, <3>1
        <3> QED
            BY <1>1, <3>1, <3>2, ForwardEdge
    <2> QED
        BY <2>1, EdgePairs
<1>5. ASSUME NEW i \in 1..n, Recursive(Paths(n, ForwardEdges(types)), i),
             NEW e \in ForwardEdges(types')
      PROVE  e[1] # i
    <2>1. i \in Replaying(types)
        BY <1>1, <1>5 DEF Replaying
    <2>2. PICK leaf \in {"Unit", "Value"} : types'[i] = AliasOf(types[i], leaf)
        BY <1>2, <2>1
    <2>3. <<i, e[2]>> \notin ForwardEdges(types')
        BY <1>3, <2>2
    <2>4. e = <<e[1], e[2]>>
        BY EdgePairs
    <2> QED
        BY <2>3, <2>4
<1> QED
    BY <1>1, <1>4, <1>5, CutCycles

(* A newtype is no alias: the recursive ones leave the aliases' edges, and  *)
(* a decoder follows it as it followed the alias.                           *)
LEMMA PromoteCuts ==
    ASSUME Sound, Promote
    PROVE  /\ ForwardEdges(types') \subseteq ForwardEdges(types)
           /\ ~Cyclic(Len(types'), AliasEdges(types'))
<1> DEFINE n == Len(types)
           paths == Paths(n, AliasEdges(types))
<1>1. /\ n \in Nat /\ DOMAIN types = 1..n /\ Len(types') = n /\ DOMAIN types' = 1..n
      /\ \A i \in 1..n : Fits(types[i], n)
    BY PromoteSound DEF Sound, Table, Promote
<1>2. ASSUME NEW i \in 1..n
      PROVE  \/ i \notin RecursiveAliases(types) /\ types'[i] = types[i]
             \/ i \in RecursiveAliases(types)
                   /\ types'[i] = [types[i] EXCEPT !.kind = "Newtype"]
    BY DEF Promote
<1>3. \A i \in RecursiveAliases(types) : types[i].kind = "Alias"
    <2> SUFFICES ASSUME NEW i \in RecursiveAliases(types) PROVE types[i].kind = "Alias"
        OBVIOUS
    <2>1. <<i, i>> \in Paths(n, AliasEdges(types))
        BY DEF RecursiveAliases, Recursive
    <2>2. \E e \in AliasEdges(types) : e[1] = i
        BY <1>1, <2>1, PathStarts
    <2> QED
        BY <2>2 DEF AliasEdges
<1>4. ASSUME NEW i \in 1..n
      PROVE  /\ types'[i].members = types[i].members
             /\ types'[i].kind = types[i].kind
                \/ (types[i].kind = "Alias" /\ types'[i].kind = "Newtype")
             /\ i \in RecursiveAliases(types) => types'[i].kind = "Newtype"
    <2>1. types[i] \in Contract
        BY <1>1 DEF Fits
    <2> QED
        BY <1>2, <1>3, <2>1 DEF Contract
<1>5. ASSUME NEW i, NEW j, <<i, j>> \in ForwardEdges(types')
      PROVE  <<i, j>> \in ForwardEdges(types)
    <2>1. PICK k \in DOMAIN types'[i].members :
              /\ i \in 1..n /\ j \in 1..n
              /\ HandsOn(types'[i], k)
              /\ Forwards(types'[i].members[k].ty)
              /\ types'[i].members[k].ty.to = j
        BY <1>1, <1>5, ForwardEdge
    <2>2. HandsOn(types[i], k)
        BY <1>4, <2>1 DEF HandsOn
    <2> QED
        BY <1>1, <1>4, <2>1, <2>2, ForwardEdge
<1>6. ASSUME NEW i, NEW j, <<i, j>> \in AliasEdges(types')
      PROVE  <<i, j>> \in AliasEdges(types) /\ types'[i].kind = "Alias" /\ i \in 1..n
    <2>1. /\ i \in 1..n /\ j \in 1..n
          /\ types'[i].kind = "Alias" /\ types'[j].kind = "Alias"
          /\ \E k \in DOMAIN types'[i].members :
                types'[i].members[k].ty.leaf = "Named" /\ types'[i].members[k].ty.to = j
        BY <1>1, <1>6, AliasEdge
    <2>2. types[i].kind = "Alias" /\ types[j].kind = "Alias"
        BY <1>4, <2>1
    <2>3. types'[i].members = types[i].members
        BY <1>4, <2>1
    <2>4. \E k \in DOMAIN types[i].members :
                types[i].members[k].ty.leaf = "Named" /\ types[i].members[k].ty.to = j
        BY <2>1, <2>3
    <2> QED
        BY <1>1, <2>1, <2>2, <2>4, AliasEdge
<1>7. ForwardEdges(types') \subseteq ForwardEdges(types)
    BY <1>5, EdgePairs
<1>8. AliasEdges(types') \subseteq AliasEdges(types)
    BY <1>6, EdgePairs
<1>9. ASSUME NEW i \in 1..n, Recursive(paths, i), NEW e \in AliasEdges(types')
      PROVE  e[1] # i
    <2>1. types'[i].kind = "Newtype"
        BY <1>1, <1>4, <1>9 DEF RecursiveAliases
    <2>2. e = <<e[1], e[2]>>
        BY EdgePairs
    <2>3. types'[e[1]].kind = "Alias"
        BY <1>6, <2>2
    <2> QED
        BY <2>1, <2>3
<1>10. ~Cyclic(n, AliasEdges(types'))
    BY <1>1, <1>8, <1>9, CutCycles
<1> QED
    BY <1>1, <1>7, <1>10

(* What a box round and reopening do to every entry.                        *)
LEMMA LaterRewraps ==
    ASSUME Sound, BoxRound \/ Reopen
    PROVE  /\ Len(types) \in Nat /\ DOMAIN types = 1..Len(types)
           /\ Len(types') = Len(types) /\ DOMAIN types' = 1..Len(types)
           /\ \A i \in 1..Len(types) :
                 types'[i] = types[i] \/ Rewrapped(types[i], types'[i])
<1>1. Len(types) \in Nat /\ DOMAIN types = 1..Len(types)
      /\ \A i \in 1..Len(types) : Fits(types[i], Len(types))
    BY DEF Sound, Table
<1>2. CASE BoxRound
    <2> DEFINE edge == SmallestClosingEdge(types)
    <2>1. types' = [types EXCEPT ![edge[1]] = BoxFirst(types[edge[1]], edge[2])]
        BY <1>2 DEF BoxRound
    <2> HIDE DEF edge
    <2>2. DOMAIN types' = 1..Len(types) /\ Len(types') = Len(types)
        BY <1>1, <2>1 DEF Sound, Table
    <2>3. \A i \in 1..Len(types) :
              types'[i] = types[i] \/ types'[i] = BoxFirst(types[i], edge[2])
        BY <1>1, <2>1
    <2> QED
        BY <1>1, <2>2, <2>3, BoxFirstRewraps
<1>3. CASE Reopen
    <2>1. types' = [i \in 1..Len(types) |-> Reopened(types, types[i])]
        BY <1>3 DEF Reopen
    <2>2. DOMAIN types' = 1..Len(types)
        BY <2>1
    <2>3. Len(types') = Len(types)
        <3>1. Sound'
            BY <1>3, ReopenSound
        <3> QED
            BY <1>1, <2>2, <3>1 DEF Sound, Table
    <2>4. \A i \in 1..Len(types) : types'[i] = Reopened(types, types[i])
        BY <2>1
    <2> QED
        BY <1>1, <2>2, <2>3, <2>4, ReopenedRewraps
<1> QED
    BY <1>2, <1>3

(* No step of the layer brings a loop back.                                 *)
LEMMA NextLoops ==
    ASSUME Sound, LoopsAreGone, [Next]_vars PROVE LoopsAreGone'
<1> USE DEF Retyping
<1>1. CASE Tabling
    <2>1. phase' \in Retyping
        BY <1>1 DEF Tabling, DedupRound, DedupEnd, ReachStep, ReachEnd, UnitRun,
           DiffersRound, TwinRun
    <2> QED
        BY <2>1 DEF LoopsAreGone, NothingReplays, AliasesEnd
<1>2. CASE Normalize
    <2>1. phase' = "promote"
        BY <1>2 DEF Normalize
    <2> QED
        BY <1>2, <2>1, NormalizeCuts DEF LoopsAreGone, NothingReplays, AliasesEnd
<1>3. CASE Promote
    <2>1. phase = "promote" /\ Len(types) \in Nat /\ Len(types') = Len(types)
        BY <1>3, PromoteSound DEF Promote, Sound, Table
    <2>2. ~Cyclic(Len(types), ForwardEdges(types))
        BY <2>1 DEF LoopsAreGone, NothingReplays
    <2>3. ~Cyclic(Len(types'), ForwardEdges(types'))
        BY <1>3, <2>1, <2>2, PromoteCuts, FewerCycles
    <2> QED
        BY <1>3, <2>3, PromoteCuts DEF LoopsAreGone, NothingReplays, AliasesEnd
<1>4. CASE BoxRound \/ Reopen
    <2>1. phase \notin Retyping \cup {"promote"}
        BY <1>4 DEF BoxRound, Reopen
    <2>2. /\ ~Cyclic(Len(types), ForwardEdges(types))
          /\ ~Cyclic(Len(types), AliasEdges(types))
        BY <2>1 DEF LoopsAreGone, NothingReplays, AliasesEnd
    <2>3. /\ ForwardEdges(types') \subseteq ForwardEdges(types)
          /\ AliasEdges(types') \subseteq AliasEdges(types)
          /\ Len(types) \in Nat /\ Len(types') = Len(types)
        BY <1>4, LaterRewraps, RewrappedEdges
    <2>4. /\ ~Cyclic(Len(types'), ForwardEdges(types'))
          /\ ~Cyclic(Len(types'), AliasEdges(types'))
        BY <2>2, <2>3, FewerCycles
    <2> QED
        BY <2>4 DEF LoopsAreGone, NothingReplays, AliasesEnd
<1>5. CASE BoxEnd \/ DeriveRound \/ Freeze
    <2>1. phase \notin Retyping \cup {"promote"} /\ types' = types
        BY <1>5 DEF BoxEnd, DeriveRound, Freeze
    <2> QED
        BY <2>1 DEF LoopsAreGone, NothingReplays, AliasesEnd
<1>6. CASE UNCHANGED vars
    BY <1>6 DEF vars, LoopsAreGone, NothingReplays, AliasesEnd
<1> QED
    BY <1>1, <1>2, <1>3, <1>4, <1>5, <1>6 DEF Next, Finalizing, Finished

(* Once the cycles are retyped no decoder goes round one without consuming  *)
(* input, and once the aliases are promoted none names itself: whatever the *)
(* document, and whatever the boxes and reopened members do afterwards.     *)
(* cycle::normalize and promote_recursive_aliases.                          *)
THEOREM LoopsStayGone == Spec => []LoopsAreGone
<1>1. Init => LoopsAreGone
    BY DEF Init, LoopsAreGone, NothingReplays, AliasesEnd, Retyping
<1>2. Sound /\ LoopsAreGone /\ [Next]_vars => LoopsAreGone'
    BY NextLoops
<1> QED
    BY <1>1, <1>2, AlwaysSound, PTL DEF Spec

-----------------------------------------------------------------------------
(* Nullable members.                                                        *)

\* One alias followed.
Followed(ts, at) ==
    IF at.leaf = "Named" /\ at.wraps = << >> /\ ts[at.to].kind = "Alias"
    THEN ts[at.to].members[1].ty ELSE at

\* The references of a table of n entries.
RefsOf(n) == {ref \in TypeRef : InTable(ref, n)}

(* An alias has its one item.                                               *)
LEMMA AliasItem ==
    ASSUME NEW c, NEW n, Fits(c, n), c.kind = "Alias"
    PROVE  1 \in 1..Len(c.members)
<1>1. Shaped(c)
    BY DEF Fits
<1>2. Len(c.members) = 1
    BY <1>1 DEF Shaped
<1> QED
    BY <1>2

(* Following an alias stays in the table.                                   *)
LEMMA FollowedStays ==
    ASSUME NEW ts, Table(ts), NEW at \in RefsOf(Len(ts))
    PROVE  Followed(ts, at) \in RefsOf(Len(ts))
<1> DEFINE n == Len(ts)
           c == ts[at.to]
<1>1. CASE at.leaf = "Named" /\ at.wraps = << >> /\ ts[at.to].kind = "Alias"
    <2>1. at.to \in 1..n /\ c.kind = "Alias"
        BY <1>1 DEF RefsOf, InTable
    <2>2. Fits(c, n)
        BY <2>1 DEF Table
    <2> HIDE DEF c
    <2>3. 1 \in 1..Len(c.members)
        BY <2>1, <2>2, AliasItem
    <2>4. c.members[1].ty \in TypeRef /\ InTable(c.members[1].ty, n)
        BY <2>2, <2>3, FitsTypes DEF Fits
    <2> QED
        BY <1>1, <2>4 DEF RefsOf, Followed, c
<1>2. CASE ~(at.leaf = "Named" /\ at.wraps = << >> /\ ts[at.to].kind = "Alias")
    BY <1>2 DEF Followed
<1> QED
    BY <1>1, <1>2

(* The aliases followed one after the other, the recursion unfolded.        *)
LEMMA UnaliasedUnfold ==
    ASSUME NEW ts, Table(ts), NEW ref \in RefsOf(Len(ts))
    PROVE  \E f : /\ f[0] = ref
                  /\ \A k \in 1..Len(ts) : f[k] = Followed(ts, f[k - 1])
                  /\ Unaliased(ts, ref) = f[Len(ts)]
<1> DEFINE n == Len(ts)
           X == RefsOf(n)
           step == [k \in 1..n |-> [at \in X |-> Followed(ts, at)]]
           Is(f) == f = [k \in 0..n |->
                IF k = 0 THEN ref
                ELSE LET at == f[k - 1]
                     IN  IF at.leaf = "Named" /\ at.wraps = << >>
                            /\ ts[at.to].kind = "Alias"
                         THEN ts[at.to].members[1].ty ELSE at]
<1>1. n \in Nat /\ \A i \in 1..n : Fits(ts[i], n)
    BY DEF Table
<1>2. \A at \in X : Followed(ts, at) \in X
    BY FollowedStays
<1>3. step \in [1..n -> [X -> X]]
    BY <1>2
<1>4. \A k \in 1..n : \A at \in X : step[k][at] = Followed(ts, at)
    OBVIOUS
<1>5. ref \in X
    OBVIOUS
<1> HIDE DEF X, step
<1>6. PICK f : Iterate(f, n, X, ref, step)
    BY <1>1, <1>3, <1>5, Iterates
<1>7. \A k \in 1..n : f[k] = Followed(ts, f[k - 1])
    <2>1. \A k \in 1..n : f[k - 1] \in X
        BY <1>6 DEF Iterate
    <2> QED
        BY <1>4, <1>6, <2>1 DEF Iterate
<1>8. Is(f)
    <2>1. \A k \in 0..n : f[k] = IF k = 0 THEN ref ELSE Followed(ts, f[k - 1])
        BY <1>6, <1>7 DEF Iterate
    <2>2. f = [k \in 0..n |-> IF k = 0 THEN ref ELSE Followed(ts, f[k - 1])]
        BY <1>6, <2>1 DEF Iterate
    <2> QED
        BY <2>2, Zenon DEF Followed
<1> DEFINE via == CHOOSE g : Is(g)
<1>9. Is(via)
    BY <1>8
<1>10. Unaliased(ts, ref) = via[n]
    BY DEF Unaliased
<1> HIDE DEF via
<1>11. via[0] = ref /\ \A k \in 1..n : via[k] = Followed(ts, via[k - 1])
    <2>1. via = [k \in 0..n |-> IF k = 0 THEN ref ELSE Followed(ts, via[k - 1])]
        BY <1>9, Zenon DEF Followed
    <2> QED
        BY <1>1, <2>1
<1> QED
    BY <1>10, <1>11

(* A reference that spells a wrapper is not followed.                       *)
LEMMA UnaliasedWrapped ==
    ASSUME NEW ts, Table(ts), NEW ref \in RefsOf(Len(ts)), ref.wraps # << >>
    PROVE  Unaliased(ts, ref) = ref
<1>1. PICK f : /\ f[0] = ref
               /\ \A k \in 1..Len(ts) : f[k] = Followed(ts, f[k - 1])
               /\ Unaliased(ts, ref) = f[Len(ts)]
    BY UnaliasedUnfold
<1> DEFINE P == {k \in 0..Len(ts) : f[k] = ref}
<1>2. Len(ts) \in Nat
    BY DEF Table
<1>3. 0 \in P
    BY <1>1, <1>2
<1>4. \A k \in 1..Len(ts) : k - 1 \in P => k \in P
    BY <1>1 DEF Followed
<1> HIDE DEF P
<1>5. 0..Len(ts) \subseteq P
    BY <1>2, <1>3, <1>4, UpTo
<1>6. Len(ts) \in P
    BY <1>2, <1>5
<1> QED
    BY <1>1, <1>6 DEF P

(* Two tables with the same aliases follow a reference to the same end.     *)
LEMMA UnaliasedAlike ==
    ASSUME NEW ts, Table(ts), NEW us, Table(us), Len(us) = Len(ts),
           \A i \in 1..Len(ts) :
              /\ us[i].kind = ts[i].kind
              /\ ts[i].kind = "Alias" => us[i].members[1].ty = ts[i].members[1].ty,
           NEW ref \in RefsOf(Len(ts))
    PROVE  Unaliased(us, ref) = Unaliased(ts, ref)
<1> DEFINE n == Len(ts)
<1>1. PICK f : /\ f[0] = ref
               /\ \A k \in 1..n : f[k] = Followed(ts, f[k - 1])
               /\ Unaliased(ts, ref) = f[n]
    BY UnaliasedUnfold
<1>2. PICK g : /\ g[0] = ref
               /\ \A k \in 1..n : g[k] = Followed(us, g[k - 1])
               /\ Unaliased(us, ref) = g[n]
    BY UnaliasedUnfold
<1>3. n \in Nat /\ \A i \in 1..n : Fits(ts[i], n)
    BY DEF Table
<1>4. \A at \in RefsOf(n) : Followed(us, at) = Followed(ts, at)
    BY DEF Followed, RefsOf, InTable
<1>5. \A at \in RefsOf(n) : Followed(ts, at) \in RefsOf(n)
    BY FollowedStays
<1> DEFINE P == {k \in 0..n : f[k] \in RefsOf(n) /\ g[k] = f[k]}
<1>6. 0 \in P
    BY <1>1, <1>2, <1>3
<1>7. \A k \in 1..n : k - 1 \in P => k \in P
    BY <1>1, <1>2, <1>4, <1>5
<1> HIDE DEF P
<1>8. 0..n \subseteq P
    BY <1>3, <1>6, <1>7, UpTo
<1>9. n \in P
    BY <1>3, <1>8
<1> QED
    BY <1>1, <1>2, <1>9 DEF P

(* Reopening gives every nullable member its Option back.                   *)
LEMMA ReopenReads ==
    ASSUME Sound, Reopen PROVE NullableReadsNull'
<1> DEFINE n == Len(types)
<1>1. /\ n \in Nat /\ Table(types) /\ Table(types') /\ Len(types') = n
      /\ DOMAIN types' = 1..n
      /\ \A i \in 1..n : Fits(types[i], n) /\ Fits(types'[i], n)
    BY ReopenSound, LaterRewraps DEF Sound, Table
<1>2. \A i \in 1..n : types'[i] = Reopened(types, types[i])
    BY DEF Reopen
<1>3. ASSUME NEW i \in 1..n
      PROVE  /\ types'[i].kind = types[i].kind
             /\ DOMAIN types'[i].members = 1..Len(types[i].members)
             /\ \A k \in 1..Len(types[i].members) :
                   /\ types[i].members[k].ty \in RefsOf(n)
                   /\ types'[i].members[k].ty \in RefsOf(n)
                   /\ types'[i].members[k].presence = types[i].members[k].presence
                   /\ types'[i].members[k].ty =
                        IF /\ types[i].kind = "Struct"
                           /\ types[i].members[k].presence = "Nullable"
                           /\ ~SpellsOption(Unaliased(types, types[i].members[k].ty))
                        THEN Wrapped("Option", types[i].members[k].ty)
                        ELSE types[i].members[k].ty
    <2> DEFINE c == types[i]
               nullable(k) == /\ c.kind = "Struct"
                              /\ c.members[k].presence = "Nullable"
                              /\ ~SpellsOption(Unaliased(types, c.members[k].ty))
               tys == [k \in 1..Len(c.members) |->
                         IF nullable(k) THEN Wrapped("Option", c.members[k].ty)
                         ELSE c.members[k].ty]
               d == types'[i]
    <2>1. Fits(c, n) /\ c \in Contract
        BY <1>1 DEF Fits
    <2>2. \A k \in 1..Len(c.members) : c.members[k].ty \in RefsOf(n)
        BY <2>1, FitsTypes DEF RefsOf, Fits
    <2>3. d = Retyped(c, tys)
        BY <1>2 DEF Reopened
    <2>4. \A k \in 1..Len(c.members) : tys[k] \in TypeRef
        BY <2>2, OptionSameName DEF RefsOf
    <2>5. \A k \in 1..Len(c.members) :
              tys[k] = IF nullable(k) THEN Wrapped("Option", c.members[k].ty)
                       ELSE c.members[k].ty
        OBVIOUS
    <2>6. Fits(d, n)
        BY <1>1
    <2> HIDE DEF c, d, nullable, tys
    <2>7. /\ Len(d.members) = Len(c.members) /\ d.kind = c.kind
          /\ \A k \in 1..Len(c.members) : /\ d.members[k].ty = tys[k]
                                          /\ d.members[k].presence = c.members[k].presence
        BY <2>1, <2>3, <2>4, RetypedType
    <2>8. DOMAIN d.members = 1..Len(c.members)
          /\ \A k \in 1..Len(c.members) : d.members[k].ty \in RefsOf(n)
        BY <2>6, <2>7, FitsTypes DEF RefsOf, Fits
    <2> QED
        BY <2>2, <2>5, <2>7, <2>8 DEF c, d, nullable
<1>4. \A i \in 1..n : /\ types'[i].kind = types[i].kind
                      /\ types[i].kind = "Alias" =>
                            types'[i].members[1].ty = types[i].members[1].ty
    <2> SUFFICES ASSUME NEW i \in 1..n, types[i].kind = "Alias"
                 PROVE  types'[i].members[1].ty = types[i].members[1].ty
        BY <1>3
    <2>1. 1 \in 1..Len(types[i].members)
        BY <1>1, AliasItem
    <2> QED
        BY <1>3, <2>1
<1>5. ASSUME NEW ref \in RefsOf(n) PROVE Unaliased(types', ref) = Unaliased(types, ref)
    BY <1>1, <1>4, UnaliasedAlike
<1>6. ASSUME NEW i \in 1..n, types'[i].kind = "Struct",
             NEW k \in DOMAIN types'[i].members,
             types'[i].members[k].presence = "Nullable"
      PROVE  SpellsOption(Unaliased(types', types'[i].members[k].ty))
    <2> DEFINE old == types[i].members[k].ty
               new == types'[i].members[k].ty
    <2>1. /\ old \in RefsOf(n) /\ new \in RefsOf(n)
          /\ new = IF ~SpellsOption(Unaliased(types, old)) THEN Wrapped("Option", old) ELSE old
        BY <1>3, <1>6
    <2> HIDE DEF old, new
    <2>2. CASE SpellsOption(Unaliased(types, old))
        <3>1. new = old /\ Unaliased(types', old) = Unaliased(types, old)
            BY <1>5, <2>1, <2>2
        <3> QED
            BY <2>2, <3>1 DEF new
    <2>3. CASE ~SpellsOption(Unaliased(types, old))
        <3>1. new = Wrapped("Option", old) /\ old \in TypeRef
            BY <2>1, <2>3 DEF RefsOf
        <3>2. SpellsOption(new)
            BY <3>1, OptionSameName
        <3>3. new.wraps # << >>
            BY <3>2 DEF SpellsOption
        <3>4. Unaliased(types', new) = new
            BY <1>1, <2>1, <3>3, UnaliasedWrapped
        <3> QED
            BY <3>2, <3>4 DEF new
    <2> QED
        BY <2>2, <2>3
<1> QED
    BY <1>1, <1>6 DEF NullableReadsNull

(* No other step takes an Option from a nullable member that was reopened.  *)
LEMMA NextReads ==
    ASSUME Sound, NullableReadsNull, [Next]_vars PROVE NullableReadsNull'
<1>1. CASE Reopen
    BY <1>1, ReopenReads
<1>2. CASE Tabling \/ Normalize \/ Promote \/ BoxRound \/ BoxEnd
    <2>1. phase' \notin {"derive", "done", "rejected"}
        BY <1>2 DEF Tabling, DedupRound, DedupEnd, ReachStep, ReachEnd, UnitRun,
           DiffersRound, TwinRun, Normalize, Promote, BoxRound, BoxEnd
    <2> QED
        BY <2>1 DEF NullableReadsNull
<1>3. CASE DeriveRound \/ Freeze
    BY <1>3 DEF NullableReadsNull, DeriveRound, Freeze
<1>4. CASE UNCHANGED vars
    BY <1>4 DEF vars, NullableReadsNull
<1> QED
    BY <1>1, <1>2, <1>3, <1>4 DEF Next, Finalizing, Finished

(* A nullable member is read into an Option in the frozen table, whatever   *)
(* became of the alias that spelled it before: what a reference unfolds to  *)
(* does not depend on the members reopened beside it                        *)
(* (reopen_nullable_members).                                               *)
THEOREM NullsStayRead == Spec => []NullableReadsNull
<1>1. Init => NullableReadsNull
    BY DEF Init, NullableReadsNull
<1>2. Sound /\ NullableReadsNull /\ [Next]_vars => NullableReadsNull'
    BY NextReads
<1> QED
    BY <1>1, <1>2, AlwaysSound, PTL DEF Spec


-----------------------------------------------------------------------------
(* Closing edges.                                                           *)

(* Where no edge closes a cycle there is none. *)
LEMMA ClosedByAnEdge ==
    ASSUME NEW ts, Len(ts) \in Nat, DOMAIN ts = 1..Len(ts), ClosingEdges(ts) = {}
    PROVE  ~Cyclic(Len(ts), DirectEdges(ts))
<1> DEFINE n == Len(ts)
           E == DirectEdges(ts)
<1>1. E \in SUBSET ((1..n) \X (1..n))
    BY DirectPairs
<1> SUFFICES ASSUME NEW i \in 1..n, <<i, i>> \in Paths(n, E) PROVE FALSE
    BY DEF Cyclic, Recursive
<1>2. PICK k \in 1..n : <<i, k>> \in E /\ (k = i \/ <<k, i>> \in Paths(n, E))
    BY <1>1, FirstEdge
<1>3. <<i, k>> \in Paths(n, E)
    BY <1>2, EdgesArePaths
<1>4. Together(Paths(n, E), i, k)
    BY <1>2, <1>3 DEF Together
<1>5. <<i, k>> \in ClosingEdges(ts)
    BY <1>2, <1>4 DEF ClosingEdges
<1> QED
    BY <1>5

(* One key comes before another where they first differ. *)
LEMMA FirstDifference ==
    ASSUME NEW a, NEW b, NEW k \in 1..5, a[k] < b[k], \A j \in 1..5 : j < k => a[j] = b[j]
    PROVE  Before(a, b)
<1>1. \A j \in 1..(k - 1) : j \in 1..5 /\ j < k
    OBVIOUS
<1> QED
    BY <1>1 DEF Before

(* There is a smallest edge among those that close a cycle, before all the others. *)
LEMMA SmallestCloses ==
    ASSUME NEW ts, Len(ts) \in Nat, DOMAIN ts = 1..Len(ts),
           \A i \in 1..Len(ts) : ts[i] \in Contract, ClosingEdges(ts) # {}
    PROVE  /\ SmallestClosingEdge(ts) \in ClosingEdges(ts)
           /\ \A g \in ClosingEdges(ts) \ {SmallestClosingEdge(ts)} :
                 Before(EdgeKey(ts, SmallestClosingEdge(ts)), EdgeKey(ts, g))
<1> DEFINE n == Len(ts)
           S == ClosingEdges(ts)
           a == [e \in S |-> IF ts[e[1]].kind = "Alias" THEN 1 ELSE 0]
           b == [e \in S |-> ts[e[1]].origin]
           c == [e \in S |-> ts[e[2]].origin]
           d == [e \in S |-> e[1]]
           f == [e \in S |-> e[2]]
<1>1. S \in SUBSET ((1..n) \X (1..n))
    BY DirectPairs DEF ClosingEdges
<1>2. \A i \in 1..n : ts[i].origin \in Nat
    BY DEF Contract
<1>3. \A e \in S : a[e] \in Nat /\ b[e] \in Nat /\ c[e] \in Nat /\ d[e] \in Nat /\ f[e] \in Nat
    <2>1. \A e \in S : e[1] \in 1..n /\ e[2] \in 1..n
        BY <1>1
    <2> HIDE DEF S
    <2> QED
        BY <1>2, <2>1
<1>4. \A e \in S : /\ EdgeKey(ts, e)[1] = a[e] /\ EdgeKey(ts, e)[2] = b[e]
                   /\ EdgeKey(ts, e)[3] = c[e] /\ EdgeKey(ts, e)[4] = d[e]
                   /\ EdgeKey(ts, e)[5] = f[e]
    BY DEF EdgeKey
<1>5. \A e, g \in S : d[e] = d[g] /\ f[e] = f[g] => e = g
    <2>1. \A e, g \in (1..n) \X (1..n) : e[1] = g[1] /\ e[2] = g[2] => e = g
        OBVIOUS
    <2> HIDE DEF S
    <2> QED
        BY <1>1, <2>1
<1>6. SmallestClosingEdge(ts) = CHOOSE e \in S : \A g \in S \ {e} :
                                    Before(EdgeKey(ts, e), EdgeKey(ts, g))
    BY DEF SmallestClosingEdge
<1> HIDE DEF S, a, b, c, d, f
<1> DEFINE A == Least(S, a)
           B == Least(A, b)
           C == Least(B, c)
           D == Least(C, d)
           F == Least(D, f)
<1>7. S # {}
    BY DEF S
<1>8. /\ A # {} /\ A \subseteq S
      /\ \A m \in A : \A g \in S : a[m] < a[g] \/ (a[m] = a[g] /\ g \in A)
    BY <1>3, <1>7, LeastBy
<1>9. /\ B # {} /\ B \subseteq A
      /\ \A m \in B : \A g \in A : b[m] < b[g] \/ (b[m] = b[g] /\ g \in B)
    BY <1>3, <1>8, LeastBy
<1> HIDE DEF A
<1>10. /\ C # {} /\ C \subseteq B
       /\ \A m \in C : \A g \in B : c[m] < c[g] \/ (c[m] = c[g] /\ g \in C)
    BY <1>3, <1>8, <1>9, LeastBy
<1> HIDE DEF B
<1>11. /\ D # {} /\ D \subseteq C
       /\ \A m \in D : \A g \in C : d[m] < d[g] \/ (d[m] = d[g] /\ g \in D)
    BY <1>3, <1>8, <1>9, <1>10, LeastBy
<1> HIDE DEF C
<1>12. /\ F # {} /\ F \subseteq D
       /\ \A m \in F : \A g \in D : f[m] < f[g] \/ (f[m] = f[g] /\ g \in F)
    BY <1>3, <1>8, <1>9, <1>10, <1>11, LeastBy
<1> HIDE DEF D, F
<1>13. PICK m : m \in F /\ m \in D /\ m \in C /\ m \in B /\ m \in A /\ m \in S
    BY <1>8, <1>9, <1>10, <1>11, <1>12
<1>14. ASSUME NEW g \in S, g # m PROVE Before(EdgeKey(ts, m), EdgeKey(ts, g))
    <2> DEFINE p == EdgeKey(ts, m)
               q == EdgeKey(ts, g)
    <2>1. /\ p[1] = a[m] /\ p[2] = b[m] /\ p[3] = c[m] /\ p[4] = d[m] /\ p[5] = f[m]
          /\ q[1] = a[g] /\ q[2] = b[g] /\ q[3] = c[g] /\ q[4] = d[g] /\ q[5] = f[g]
        BY <1>4, <1>13
    <2>2. /\ a[m] \in Nat /\ b[m] \in Nat /\ c[m] \in Nat /\ d[m] \in Nat /\ f[m] \in Nat
          /\ a[g] \in Nat /\ b[g] \in Nat /\ c[g] \in Nat /\ d[g] \in Nat /\ f[g] \in Nat
        BY <1>3, <1>13
    <2>3. a[m] < a[g] \/ (a[m] = a[g] /\ g \in A)
        BY <1>8, <1>13
    <2>4. g \in A => b[m] < b[g] \/ (b[m] = b[g] /\ g \in B)
        BY <1>9, <1>13
    <2>5. g \in B => c[m] < c[g] \/ (c[m] = c[g] /\ g \in C)
        BY <1>10, <1>13
    <2>6. g \in C => d[m] < d[g] \/ (d[m] = d[g] /\ g \in D)
        BY <1>11, <1>13
    <2>7. g \in D => f[m] < f[g] \/ (f[m] = f[g] /\ g \in F)
        BY <1>12, <1>13
    <2>8. d[m] = d[g] => f[m] # f[g]
        BY <1>5, <1>13, <1>14
    <2> HIDE DEF p, q
    <2>9. \E k \in 1..5 : p[k] < q[k] /\ \A j \in 1..5 : j < k => p[j] = q[j]
        <3>1. CASE a[m] < a[g]
            <4>1. \A j \in 1..5 : ~(j < 1)
                OBVIOUS
            <4> QED
                BY <2>1, <3>1, <4>1
        <3>2. CASE a[m] = a[g] /\ b[m] < b[g]
            <4>1. \A j \in 1..5 : j < 2 => j = 1
                OBVIOUS
            <4> QED
                BY <2>1, <3>2, <4>1
        <3>3. CASE a[m] = a[g] /\ b[m] = b[g] /\ c[m] < c[g]
            <4>1. \A j \in 1..5 : j < 3 => j = 1 \/ j = 2
                OBVIOUS
            <4> QED
                BY <2>1, <3>3, <4>1
        <3>4. CASE a[m] = a[g] /\ b[m] = b[g] /\ c[m] = c[g] /\ d[m] < d[g]
            <4>1. \A j \in 1..5 : j < 4 => j = 1 \/ j = 2 \/ j = 3
                OBVIOUS
            <4> QED
                BY <2>1, <3>4, <4>1
        <3>5. CASE a[m] = a[g] /\ b[m] = b[g] /\ c[m] = c[g] /\ d[m] = d[g] /\ f[m] < f[g]
            <4>1. \A j \in 1..5 : j < 5 => j = 1 \/ j = 2 \/ j = 3 \/ j = 4
                OBVIOUS
            <4> QED
                BY <2>1, <3>5, <4>1
        <3> QED
            BY <2>3, <2>4, <2>5, <2>6, <2>7, <2>8, <3>1, <3>2, <3>3, <3>4, <3>5
    <2> QED
        BY <2>9, FirstDifference DEF p, q
<1>15. \E e \in S : \A g \in S \ {e} : Before(EdgeKey(ts, e), EdgeKey(ts, g))
    BY <1>13, <1>14
<1> DEFINE smallest == SmallestClosingEdge(ts)
<1>16. smallest = CHOOSE e \in S : \A g \in S \ {e} : Before(EdgeKey(ts, e), EdgeKey(ts, g))
    BY <1>6
<1> HIDE DEF smallest
<1>17. smallest \in S /\ \A g \in S \ {smallest} :
           Before(EdgeKey(ts, smallest), EdgeKey(ts, g))
    BY <1>15, <1>16
<1> QED
    BY <1>17 DEF S, smallest

-----------------------------------------------------------------------------
(* Counting the boxes.                                                      *)

\* A member whose size is its type's, unless a box is put in between.
SizedRef(ref) ==
    ref.leaf = "Named" /\ \A k \in DOMAIN ref.wraps : ref.wraps[k] \notin {"Vec", "Map"}

\* The members of a table that may need a box, and those still without one.
SizedIn(ts) ==
    {p \in UNION {{i} \X (DOMAIN ts[i].members) : i \in DOMAIN ts} :
        SizedRef(ts[p[1]].members[p[2]].ty)}
Unboxed(ts) == {p \in SizedIn(ts) : Direct(ts[p[1]].members[p[2]].ty)}

(* Which they are.                                                          *)
LEMMA SizedAt ==
    ASSUME NEW ts
    PROVE  /\ \A p \in SizedIn(ts) : p = <<p[1], p[2]>>
           /\ \A i, k : <<i, k>> \in SizedIn(ts) <=>
                 i \in DOMAIN ts /\ k \in DOMAIN ts[i].members
                 /\ SizedRef(ts[i].members[k].ty)
           /\ \A i, k : <<i, k>> \in Unboxed(ts) <=>
                 <<i, k>> \in SizedIn(ts) /\ Direct(ts[i].members[k].ty)
           /\ Unboxed(ts) \subseteq SizedIn(ts)
<1> DEFINE U == UNION {{i} \X (DOMAIN ts[i].members) : i \in DOMAIN ts}
<1>1. \A p \in U : p = <<p[1], p[2]>>
    OBVIOUS
<1>2. \A i, k : <<i, k>> \in U <=> i \in DOMAIN ts /\ k \in DOMAIN ts[i].members
    OBVIOUS
<1>3. SizedIn(ts) = {p \in U : SizedRef(ts[p[1]].members[p[2]].ty)}
    BY DEF SizedIn
<1> HIDE DEF U
<1>4. /\ \A p \in SizedIn(ts) : p = <<p[1], p[2]>>
      /\ \A i, k : <<i, k>> \in SizedIn(ts) <=>
            <<i, k>> \in U /\ SizedRef(ts[i].members[k].ty)
    BY <1>1, <1>3
<1>5. \A i, k : <<i, k>> \in Unboxed(ts) <=>
            <<i, k>> \in SizedIn(ts) /\ Direct(ts[i].members[k].ty)
    BY DEF Unboxed
<1>6. Unboxed(ts) \subseteq SizedIn(ts)
    BY DEF Unboxed
<1> QED
    BY <1>2, <1>4, <1>5, <1>6

(* There are finitely many.                                                 *)
LEMMA SizedFinite ==
    ASSUME NEW ts, Table(ts)
    PROVE  /\ IsFiniteSet(SizedIn(ts)) /\ Cardinality(SizedIn(ts)) \in Nat
           /\ IsFiniteSet(Unboxed(ts)) /\ Cardinality(Unboxed(ts)) \in Nat
           /\ Cardinality(Unboxed(ts)) <= Cardinality(SizedIn(ts))
<1> DEFINE n == Len(ts)
           upTo(m) == {p \in SizedIn(ts) : p[1] \in 1..m}
           P == {m \in 0..n : IsFiniteSet(upTo(m))}
<1>1. n \in Nat /\ DOMAIN ts = 1..n /\ \A i \in 1..n : Fits(ts[i], n)
    BY DEF Table
<1>2. \A p \in SizedIn(ts) : p = <<p[1], p[2]>> /\ p[1] \in 1..n
                             /\ p[2] \in DOMAIN ts[p[1]].members
    BY <1>1, SizedAt
<1>3. 0 \in P
    <2>1. upTo(0) = {}
        OBVIOUS
    <2> QED
        BY <1>1, <2>1, FS_EmptySet
<1>4. ASSUME NEW m \in 1..n, m - 1 \in P PROVE m \in P
    <2> DEFINE row == {m} \X (1..Len(ts[m].members))
    <2>1. DOMAIN ts[m].members = 1..Len(ts[m].members) /\ Len(ts[m].members) \in Nat
        BY <1>1, FitsTypes
    <2>2. IsFiniteSet(row)
        <3> DEFINE S == {m}
                   T == 1..Len(ts[m].members)
        <3>1. IsFiniteSet(S)
            BY FS_Singleton
        <3>2. IsFiniteSet(T)
            <4>1. T \in SUBSET (1..Len(ts[m].members))
                OBVIOUS
            <4> QED
                BY <2>1, <4>1, FiniteKept
        <3> HIDE DEF S, T
        <3>3. IsFiniteSet(S \X T)
            BY <3>1, <3>2, FS_Product
        <3> QED
            BY <3>3 DEF S, T
    <2>3. upTo(m) \in SUBSET (upTo(m - 1) \cup row)
        <3> SUFFICES ASSUME NEW p \in upTo(m) PROVE p \in upTo(m - 1) \cup row
            OBVIOUS
        <3>1. p \in SizedIn(ts) /\ p[1] \in 1..m
            OBVIOUS
        <3>2. CASE p[1] = m
            BY <1>2, <2>1, <3>1, <3>2
        <3>3. CASE p[1] # m
            <4>1. p[1] \in 1..(m - 1)
                BY <3>1, <3>3
            <4> QED
                BY <3>1, <4>1
        <3> QED
            BY <3>2, <3>3
    <2> HIDE DEF row, upTo
    <2>4. IsFiniteSet(upTo(m - 1))
        BY <1>4
    <2>5. IsFiniteSet(upTo(m))
        BY <2>2, <2>3, <2>4, FS_Union, FS_Subset
    <2> QED
        BY <2>5
<1>5. SizedIn(ts) = upTo(n)
    BY <1>2
<1> HIDE DEF P
<1>6. n \in P
    BY <1>1, <1>3, <1>4, UpTo
<1>7. IsFiniteSet(SizedIn(ts))
    BY <1>5, <1>6 DEF P
<1> QED
    BY <1>7, SizedAt, FS_Subset, FS_CardinalityType

(* A box leaves a member one that may need it, and no longer without one.   *)
LEMMA BoxedRef ==
    ASSUME NEW ref \in TypeRef
    PROVE  LET boxed == [ref EXCEPT !.wraps = Append(ref.wraps, "Box")]
           IN  /\ boxed \in TypeRef
               /\ SizedRef(boxed) <=> SizedRef(ref)
               /\ ~Direct(boxed)
<1> DEFINE ws == Append(ref.wraps, "Box")
           boxed == [ref EXCEPT !.wraps = ws]
           len == Len(ref.wraps)
<1>1. ref.wraps \in Seq(Wrap) /\ len \in Nat
    BY DEF TypeRef
<1>2. boxed \in TypeRef /\ boxed.wraps = ws /\ boxed.leaf = ref.leaf
    BY BoxedSameName DEF SameName
<1>3. /\ DOMAIN ws = 1..(len + 1) /\ DOMAIN ref.wraps = 1..len
      /\ ws[len + 1] = "Box" /\ \A k \in 1..len : ws[k] = ref.wraps[k]
    BY <1>1
<1> HIDE DEF ws, boxed
<1>4. \A k : k \in 1..(len + 1) <=> k \in 1..len \/ k = len + 1
    BY <1>1
<1>5. SizedRef(boxed) <=> SizedRef(ref)
    BY <1>2, <1>3, <1>4 DEF SizedRef
<1>6. ~Direct(boxed)
    BY <1>2, <1>3, <1>4 DEF Direct, Through
<1> QED
    BY <1>2, <1>5, <1>6 DEF boxed, ws

(* An Option leaves it what it was.                                         *)
LEMMA OpenedRef ==
    ASSUME NEW ref \in TypeRef
    PROVE  /\ SizedRef(Wrapped("Option", ref)) <=> SizedRef(ref)
           /\ Direct(Wrapped("Option", ref)) <=> Direct(ref)
<1> DEFINE ws == <<"Option">> \o ref.wraps
           opened == Wrapped("Option", ref)
           len == Len(ref.wraps)
<1>1. ref.wraps \in Seq(Wrap) /\ len \in Nat
    BY DEF TypeRef
<1>2. opened.wraps = ws /\ opened.leaf = ref.leaf
    <2>1. SameName(ref, Wrapped("Option", ref))
        BY OptionSameName
    <2> QED
        BY <2>1, OptionSameName DEF SameName
<1>3. /\ DOMAIN ws = 1..(len + 1) /\ DOMAIN ref.wraps = 1..len
      /\ ws[1] = "Option" /\ \A k \in 1..len : ws[k + 1] = ref.wraps[k]
    BY <1>1
<1> HIDE DEF ws, opened
<1>4. \A k \in 1..(len + 1) : k = 1 \/ (k - 1 \in 1..len /\ k = (k - 1) + 1)
    BY <1>1
<1>5. 1 \in 1..(len + 1) /\ \A k \in 1..len : k + 1 \in 1..(len + 1)
    BY <1>1
<1>6. \A k \in 1..(len + 1) : ws[k] = "Option" \/ \E j \in 1..len : ws[k] = ref.wraps[j]
    BY <1>3, <1>4
<1>7. \A j \in 1..len : \E k \in 1..(len + 1) : ws[k] = ref.wraps[j]
    BY <1>3, <1>5
<1>8. SizedRef(opened) <=> SizedRef(ref)
    <2>1. "Option" \notin {"Vec", "Map"}
        OBVIOUS
    <2>2. (\A k \in 1..(len + 1) : ws[k] \notin {"Vec", "Map"})
              <=> (\A k \in 1..len : ref.wraps[k] \notin {"Vec", "Map"})
        BY <1>6, <1>7, <2>1
    <2> QED
        BY <1>2, <1>3, <2>2 DEF SizedRef
<1>9. Direct(opened) <=> Direct(ref)
    BY <1>2, <1>3, <1>6, <1>7 DEF Direct, Through
<1> QED
    BY <1>8, <1>9 DEF opened

(* Boxing the first direct reference to a target boxes one, if there is one. *)
LEMMA BoxFirstBoxes ==
    ASSUME NEW c, NEW n, Fits(c, n), NEW target
    PROVE  LET d == BoxFirst(c, target)
               old(k) == c.members[k].ty
               new(k) == d.members[k].ty
           IN  /\ DOMAIN d.members = DOMAIN c.members
               /\ \A k \in DOMAIN c.members : /\ SizedRef(new(k)) <=> SizedRef(old(k))
                                              /\ Direct(new(k)) => Direct(old(k))
               /\ (\E k \in DOMAIN c.members : Names(old(k), target) /\ Direct(old(k)))
                     => \E k \in DOMAIN c.members :
                            SizedRef(old(k)) /\ Direct(old(k)) /\ ~Direct(new(k))
<1> DEFINE d == BoxFirst(c, target)
           len == Len(c.members)
           direct == {k \in DOMAIN c.members :
                        Names(c.members[k].ty, target) /\ Direct(c.members[k].ty)}
           boxed(k) == [c.members[k].ty EXCEPT !.wraps = Append(c.members[k].ty.wraps, "Box")]
           tys == [k \in 1..len |->
                     IF k \in direct /\ \A j \in direct : k <= j
                     THEN boxed(k) ELSE c.members[k].ty]
<1>1. /\ c \in Contract /\ len \in Nat /\ DOMAIN c.members = 1..len
      /\ \A k \in 1..len : c.members[k].ty \in TypeRef
    BY FitsTypes DEF Fits
<1>2. d = Retyped(c, tys)
    BY DEF BoxFirst
<1>3. \A k \in 1..len : tys[k] = IF k \in direct /\ \A j \in direct : k <= j
                                 THEN boxed(k) ELSE c.members[k].ty
    OBVIOUS
<1>4. direct \in SUBSET (1..len)
    BY <1>1
<1>5. \A k \in 1..len : k \in direct <=> Names(c.members[k].ty, target)
                                         /\ Direct(c.members[k].ty)
    BY <1>1
<1> HIDE DEF tys, direct, d
<1>6. \A k \in 1..len : /\ boxed(k) \in TypeRef /\ ~Direct(boxed(k))
                        /\ SizedRef(boxed(k)) <=> SizedRef(c.members[k].ty)
    BY <1>1, BoxedRef
<1> HIDE DEF boxed
<1>7. \A k \in 1..len : tys[k] \in TypeRef
    BY <1>1, <1>3, <1>6
<1>8. d \in Contract /\ Len(d.members) = len /\ \A k \in 1..len : d.members[k].ty = tys[k]
    BY <1>1, <1>2, <1>7, RetypedType
<1>9. DOMAIN d.members = 1..len
    BY <1>8 DEF Contract
<1>10. \A k \in 1..len : /\ SizedRef(tys[k]) <=> SizedRef(c.members[k].ty)
                         /\ Direct(tys[k]) => Direct(c.members[k].ty)
    BY <1>3, <1>6
<1>11. ASSUME direct # {}
       PROVE  \E k \in 1..len : /\ SizedRef(c.members[k].ty) /\ Direct(c.members[k].ty)
                                /\ ~Direct(tys[k])
    <2>1. PICK k \in direct : \A j \in direct : k <= j
        BY <1>1, <1>4, <1>11, LeastPosition
    <2>2. k \in 1..len /\ tys[k] = boxed(k)
        BY <1>3, <1>4, <2>1
    <2>3. Names(c.members[k].ty, target) /\ Direct(c.members[k].ty)
        BY <1>5, <2>1, <2>2
    <2>4. SizedRef(c.members[k].ty)
        BY <2>3 DEF SizedRef, Names, Direct, Through
    <2> QED
        BY <1>6, <2>2, <2>3, <2>4
<1> QED
    BY <1>1, <1>5, <1>8, <1>9, <1>10, <1>11 DEF d

(* A round boxes a member: one less may still need it, and none is new.     *)
LEMMA BoxRoundBoxes ==
    ASSUME Sound, BoxRound
    PROVE  /\ SizedIn(types') = SizedIn(types)
           /\ Cardinality(Unboxed(types')) < Cardinality(Unboxed(types))
<1> DEFINE n == Len(types)
           edge == SmallestClosingEdge(types)
           i == edge[1]
           j == edge[2]
           Old(x, k) == types[x].members[k].ty
           New(x, k) == types'[x].members[k].ty
<1>1. /\ Table(types) /\ Table(types') /\ n \in Nat /\ DOMAIN types = 1..n
      /\ DOMAIN types' = 1..n /\ \A x \in 1..n : Fits(types[x], n)
    BY BoxRoundSound, LaterRewraps DEF Sound, Table
<1>2. edge \in ClosingEdges(types)
    <2>1. ClosingEdges(types) # {} /\ \A x \in 1..n : types[x] \in Contract
        BY <1>1 DEF BoxRound, Fits
    <2> QED
        BY <1>1, <2>1, SmallestCloses
<1>3. <<i, j>> \in DirectEdges(types)
    <2>1. edge \in DirectEdges(types)
        BY <1>2 DEF ClosingEdges
    <2> HIDE DEF edge
    <2>2. edge = <<edge[1], edge[2]>>
        BY <2>1, DirectPairs
    <2> QED
        BY <2>1, <2>2
<1>4. types' = [types EXCEPT ![i] = BoxFirst(types[i], j)]
    BY DEF BoxRound
<1> HIDE DEF edge, i, j
<1>5. /\ i \in 1..n
      /\ \E k \in DOMAIN types[i].members :
            Names(types[i].members[k].ty, j) /\ Direct(types[i].members[k].ty)
    BY <1>1, <1>3, DirectEdge
<1>6. types'[i] = BoxFirst(types[i], j) /\ \A x \in 1..n : x # i => types'[x] = types[x]
    BY <1>1, <1>4, <1>5
<1>7. /\ DOMAIN types'[i].members = DOMAIN types[i].members
      /\ \A k \in DOMAIN types[i].members : /\ SizedRef(New(i, k)) <=> SizedRef(Old(i, k))
                                            /\ Direct(New(i, k)) => Direct(Old(i, k))
      /\ \E k \in DOMAIN types[i].members :
            SizedRef(Old(i, k)) /\ Direct(Old(i, k)) /\ ~Direct(New(i, k))
    BY <1>1, <1>5, <1>6, BoxFirstBoxes
<1>8. ASSUME NEW x \in 1..n
      PROVE  /\ DOMAIN types'[x].members = DOMAIN types[x].members
             /\ \A k \in DOMAIN types[x].members : /\ SizedRef(New(x, k)) <=> SizedRef(Old(x, k))
                                                   /\ Direct(New(x, k)) => Direct(Old(x, k))
    BY <1>6, <1>7
<1>9. \A x, k : <<x, k>> \in SizedIn(types') <=> <<x, k>> \in SizedIn(types)
    BY <1>1, <1>8, SizedAt
<1>10. SizedIn(types') = SizedIn(types)
    <2>1. /\ \A p \in SizedIn(types) : p = <<p[1], p[2]>>
          /\ \A p \in SizedIn(types') : p = <<p[1], p[2]>>
        BY SizedAt
    <2>2. SizedIn(types') \subseteq SizedIn(types) /\ SizedIn(types) \subseteq SizedIn(types')
        BY <1>9, <2>1, PairsWithin
    <2> QED
        BY <2>2
<1>11. Unboxed(types') \in SUBSET Unboxed(types)
    <2> SUFFICES ASSUME NEW p \in Unboxed(types') PROVE p \in Unboxed(types)
        OBVIOUS
    <2>1. p \in SizedIn(types') /\ p = <<p[1], p[2]>>
        BY SizedAt
    <2>2. <<p[1], p[2]>> \in Unboxed(types') /\ <<p[1], p[2]>> \in SizedIn(types)
        BY <1>10, <2>1
    <2>3. Direct(New(p[1], p[2])) /\ p[1] \in 1..n /\ p[2] \in DOMAIN types[p[1]].members
        BY <1>1, <2>2, SizedAt
    <2>4. Direct(Old(p[1], p[2]))
        BY <1>8, <2>3
    <2> QED
        BY <2>1, <2>2, <2>4, SizedAt
<1>12. PICK k \in DOMAIN types[i].members :
            SizedRef(Old(i, k)) /\ Direct(Old(i, k)) /\ ~Direct(New(i, k))
    BY <1>7
<1>13. <<i, k>> \in Unboxed(types) /\ <<i, k>> \notin Unboxed(types')
    BY <1>1, <1>5, <1>12, SizedAt
<1>14. /\ IsFiniteSet(Unboxed(types)) /\ Cardinality(Unboxed(types)) \in Nat
       /\ Cardinality(Unboxed(types')) \in Nat
    BY <1>1, SizedFinite
<1>15. /\ Cardinality(Unboxed(types')) <= Cardinality(Unboxed(types))
       /\ Cardinality(Unboxed(types')) # Cardinality(Unboxed(types))
    BY <1>11, <1>13, <1>14, FS_Subset
<1> QED
    BY <1>10, <1>14, <1>15

(* Reopening boxes nothing and unboxes nothing.                             *)
LEMMA ReopenKeepsSizes ==
    ASSUME Sound, Reopen
    PROVE  /\ SizedIn(types') = SizedIn(types)
           /\ DirectEdges(types') = DirectEdges(types)
<1> DEFINE n == Len(types)
           Old(x, k) == types[x].members[k].ty
           New(x, k) == types'[x].members[k].ty
<1>1. /\ n \in Nat /\ DOMAIN types = 1..n /\ DOMAIN types' = 1..n
      /\ \A x \in 1..n : Fits(types[x], n)
    BY LaterRewraps DEF Sound, Table
<1>2. \A x \in 1..n : types'[x] = Reopened(types, types[x])
    BY DEF Reopen
<1>3. ASSUME NEW x \in 1..n
      PROVE  /\ DOMAIN types'[x].members = DOMAIN types[x].members
             /\ \A k \in DOMAIN types[x].members :
                   /\ SizedRef(New(x, k)) <=> SizedRef(Old(x, k))
                   /\ Direct(New(x, k)) <=> Direct(Old(x, k))
                   /\ \A y : Names(New(x, k), y) <=> Names(Old(x, k), y)
    <2> DEFINE c == types[x]
               d == types'[x]
               opens(k) == /\ c.kind = "Struct" /\ c.members[k].presence = "Nullable"
                           /\ ~SpellsOption(Unaliased(types, c.members[k].ty))
               tys == [k \in 1..Len(c.members) |->
                         IF opens(k) THEN Wrapped("Option", c.members[k].ty)
                         ELSE c.members[k].ty]
    <2>1. /\ c \in Contract /\ DOMAIN c.members = 1..Len(c.members)
          /\ \A k \in 1..Len(c.members) : c.members[k].ty \in TypeRef
        BY <1>1, FitsTypes DEF Fits
    <2>2. d = Retyped(c, tys)
        BY <1>2 DEF Reopened
    <2>3. \A k \in 1..Len(c.members) :
              tys[k] = Wrapped("Option", c.members[k].ty) \/ tys[k] = c.members[k].ty
        OBVIOUS
    <2> HIDE DEF c, d, tys
    <2>4. ASSUME NEW k \in 1..Len(c.members)
          PROVE  /\ tys[k] \in TypeRef
                 /\ SizedRef(tys[k]) <=> SizedRef(c.members[k].ty)
                 /\ Direct(tys[k]) <=> Direct(c.members[k].ty)
                 /\ \A y : Names(tys[k], y) <=> Names(c.members[k].ty, y)
        <3> DEFINE ref == c.members[k].ty
        <3>1. ref \in TypeRef
            BY <2>1
        <3> HIDE DEF ref
        <3>2. /\ Wrapped("Option", ref) \in TypeRef
              /\ SizedRef(Wrapped("Option", ref)) <=> SizedRef(ref)
              /\ Direct(Wrapped("Option", ref)) <=> Direct(ref)
              /\ SameName(ref, Wrapped("Option", ref))
            BY <3>1, OpenedRef, OptionSameName
        <3>3. \A y : Names(Wrapped("Option", ref), y) <=> Names(ref, y)
            BY <3>2 DEF SameName, Names
        <3> QED
            BY <2>3, <3>1, <3>2, <3>3 DEF ref
    <2>5. d \in Contract /\ Len(d.members) = Len(c.members)
          /\ \A k \in 1..Len(c.members) : d.members[k].ty = tys[k]
        BY <2>1, <2>2, <2>4, RetypedType
    <2>6. DOMAIN d.members = 1..Len(c.members)
        BY <2>5 DEF Contract
    <2> QED
        BY <2>1, <2>4, <2>5, <2>6 DEF c, d
<1>4. \A x, k : <<x, k>> \in SizedIn(types') <=> <<x, k>> \in SizedIn(types)
    BY <1>1, <1>3, SizedAt
<1>5. SizedIn(types') = SizedIn(types)
    <2>1. /\ \A p \in SizedIn(types) : p = <<p[1], p[2]>>
          /\ \A p \in SizedIn(types') : p = <<p[1], p[2]>>
        BY SizedAt
    <2>2. SizedIn(types') \subseteq SizedIn(types) /\ SizedIn(types) \subseteq SizedIn(types')
        BY <1>4, <2>1, PairsWithin
    <2> QED
        BY <2>2
<1>6. ASSUME NEW x, NEW y
      PROVE  <<x, y>> \in DirectEdges(types') <=> <<x, y>> \in DirectEdges(types)
    <2>1. <<x, y>> \in DirectEdges(types') <=>
             /\ x \in 1..n /\ y \in 1..n
             /\ \E k \in DOMAIN types'[x].members : Names(New(x, k), y) /\ Direct(New(x, k))
        BY <1>1, DirectEdge
    <2>2. <<x, y>> \in DirectEdges(types) <=>
             /\ x \in 1..n /\ y \in 1..n
             /\ \E k \in DOMAIN types[x].members : Names(Old(x, k), y) /\ Direct(Old(x, k))
        BY <1>1, DirectEdge
    <2> HIDE DEF New, Old
    <2> QED
        BY <1>3, <2>1, <2>2
<1>7. DirectEdges(types') = DirectEdges(types)
    <2>1. /\ \A p \in DirectEdges(types') : p = <<p[1], p[2]>>
          /\ \A p \in DirectEdges(types) : p = <<p[1], p[2]>>
        BY DirectPairs
    <2>2. /\ DirectEdges(types') \subseteq DirectEdges(types)
          /\ DirectEdges(types) \subseteq DirectEdges(types')
        BY <1>6, <2>1, PairsWithin
    <2> QED
        BY <2>2
<1> QED
    BY <1>5, <1>7

\* Every round has boxed a member, and rounds are counted from none.
Boxing ==
    /\ phase \in {"reach", "unit", "twin", "normalize", "promote"} => round = 0
    /\ phase = "box" =>
          Cardinality(Unboxed(types)) + round <= Cardinality(SizedIn(types))

(* The members that may need a box are those of the table.                  *)
LEMMA SizedMembersAre == SizedMembers = SizedIn(types)
BY DEF SizedMembers, SizedIn, SizedRef

(* Where none is unboxed the table has no direct edge.                      *)
LEMMA NoneUnboxed ==
    ASSUME Table(types), Unboxed(types) = {} PROVE DirectEdges(types) = {}
<1> SUFFICES ASSUME NEW e \in DirectEdges(types) PROVE FALSE
    OBVIOUS
<1>1. <<e[1], e[2]>> \in DirectEdges(types)
    BY DirectPairs
<1>2. PICK k \in DOMAIN types[e[1]].members :
          Names(types[e[1]].members[k].ty, e[2]) /\ Direct(types[e[1]].members[k].ty)
    BY <1>1, DirectEdge
<1>3. e[1] \in DOMAIN types
    BY <1>1, DirectEdge
<1>4. SizedRef(types[e[1]].members[k].ty)
    BY <1>2 DEF SizedRef, Names, Direct, Through
<1>5. <<e[1], k>> \in Unboxed(types)
    BY <1>2, <1>3, <1>4, SizedAt
<1> QED
    BY <1>5

(* The rounds end without an edge that closes a cycle, if there were enough. *)
LEMMA BoxEndBreaks ==
    ASSUME Sound, Boxing, BoxEnd, Cardinality(SizedIn(types)) <= Len(types) + 1
    PROVE  ~Cyclic(Len(types), DirectEdges(types))
<1> DEFINE n == Len(types)
           u == Cardinality(Unboxed(types))
           s == Cardinality(SizedIn(types))
<1>1. Table(types) /\ n \in Nat /\ DOMAIN types = 1..n /\ round \in Nat
    BY DEF Sound, Table, Outcome
<1>2. ClosingEdges(types) = {}
    <2>1. CASE round > n
        <3>1. u + round <= s /\ s <= n + 1
            BY DEF Boxing, BoxEnd
        <3>2. u \in Nat /\ s \in Nat /\ IsFiniteSet(Unboxed(types))
            BY <1>1, SizedFinite
        <3> HIDE DEF u, s, n
        <3>3. u = 0
            BY <1>1, <2>1, <3>1, <3>2
        <3>4. Unboxed(types) = {}
            BY <3>2, <3>3, FS_EmptySet DEF u
        <3>5. DirectEdges(types) = {}
            BY <1>1, <3>4, NoneUnboxed
        <3> QED
            BY <3>5 DEF ClosingEdges
    <2> QED
        BY <2>1 DEF BoxEnd
<1> QED
    BY <1>1, <1>2, ClosedByAnEdge

(* No step spends a round without a box, or brings a direct cycle back.     *)
LEMMA NextBoxes ==
    ASSUME Sound, Boxing, FiniteSizeWithinRounds, [Next]_vars
    PROVE  Boxing' /\ FiniteSizeWithinRounds'
<1>1. CASE Tabling
    <2>1. /\ phase' \notin Sized \cup {"box"}
          /\ phase' \in {"reach", "unit", "twin", "normalize", "promote"} => round' = 0
        BY <1>1 DEF Tabling, DedupRound, DedupEnd, ReachStep, ReachEnd, UnitRun,
                    DiffersRound, TwinRun, Sized, Boxing
    <2> QED
        BY <2>1 DEF Boxing, FiniteSizeWithinRounds, FiniteSize
<1>2. CASE Normalize
    <2>1. phase = "normalize" /\ phase' = "promote" /\ round' = round
        BY <1>2 DEF Normalize
    <2> QED
        BY <2>1 DEF Boxing, FiniteSizeWithinRounds, FiniteSize, Sized
<1>3. CASE Promote
    <2>1. phase = "promote" /\ phase' = "box" /\ round' = round /\ round = 0
        BY <1>3 DEF Promote, Boxing
    <2>2. Table(types')
        BY <1>3, PromoteSound DEF Sound
    <2>3. Cardinality(Unboxed(types')) + round' <= Cardinality(SizedIn(types'))
        BY <2>1, <2>2, SizedFinite
    <2>4. Boxing'
        BY <2>1, <2>3 DEF Boxing
    <2> QED
        BY <2>1, <2>4 DEF FiniteSizeWithinRounds, FiniteSize, Sized
<1>4. CASE BoxRound
    <2>1. phase = "box" /\ phase' = "box" /\ round' = round + 1 /\ round \in Nat
        BY <1>4 DEF BoxRound, Sound, Outcome
    <2>2. /\ SizedIn(types') = SizedIn(types)
          /\ Cardinality(Unboxed(types')) < Cardinality(Unboxed(types))
        BY <1>4, BoxRoundBoxes
    <2>3. /\ Cardinality(Unboxed(types)) \in Nat /\ Cardinality(Unboxed(types')) \in Nat
          /\ Cardinality(SizedIn(types)) \in Nat
        BY <1>4, BoxRoundSound, SizedFinite DEF Sound
    <2>4. Cardinality(Unboxed(types)) + round <= Cardinality(SizedIn(types))
        BY <2>1 DEF Boxing
    <2>5. Cardinality(Unboxed(types')) + round' <= Cardinality(SizedIn(types'))
        BY <2>1, <2>2, <2>3, <2>4
    <2>6. Boxing'
        BY <2>1, <2>5 DEF Boxing
    <2> QED
        BY <2>1, <2>6 DEF FiniteSizeWithinRounds, FiniteSize, Sized
<1>5. CASE BoxEnd
    <2>1. phase' = "reopen" /\ types' = types
        BY <1>5 DEF BoxEnd
    <2>2. Cardinality(SizedMembers) <= Len(types) + 1
              => ~Cyclic(Len(types), DirectEdges(types))
        BY <1>5, BoxEndBreaks, SizedMembersAre
    <2>3. SizedMembers' = SizedMembers
        BY <2>1 DEF SizedMembers
    <2> QED
        BY <2>1, <2>2, <2>3 DEF Boxing, FiniteSizeWithinRounds, FiniteSize
<1>6. CASE Reopen
    <2>1. phase = "reopen" /\ phase' = "derive"
        BY <1>6 DEF Reopen
    <2>2. /\ SizedIn(types') = SizedIn(types) /\ Len(types') = Len(types)
          /\ DirectEdges(types') \subseteq DirectEdges(types) /\ Len(types) \in Nat
        BY <1>6, ReopenKeepsSizes, LaterRewraps
    <2>3. ~Cyclic(Len(types), DirectEdges(types)) => ~Cyclic(Len(types'), DirectEdges(types'))
        BY <2>2, FewerCycles
    <2>4. SizedMembers' = SizedIn(types')
        BY DEF SizedMembers, SizedIn, SizedRef
    <2>5. SizedMembers' = SizedMembers
        BY <2>2, <2>4, SizedMembersAre
    <2> QED
        BY <2>1, <2>2, <2>3, <2>5 DEF Boxing, FiniteSizeWithinRounds, FiniteSize, Sized
<1>7. CASE DeriveRound \/ Freeze \/ UNCHANGED vars
    <2>1. /\ types' = types /\ (phase \in Sized <=> phase' \in Sized)
          /\ (phase' \notin Sized => phase' = phase /\ round' = round)
        BY <1>7 DEF DeriveRound, Freeze, vars, Sized
    <2>2. SizedMembers' = SizedMembers
        BY <2>1 DEF SizedMembers
    <2> QED
        BY <2>1, <2>2 DEF Boxing, FiniteSizeWithinRounds, FiniteSize, Sized
<1> QED
    BY <1>1, <1>2, <1>3, <1>4, <1>5, <1>6, <1>7 DEF Next, Finalizing, Finished

(* No type has infinite size once the boxes are placed, for every table     *)
(* with no more members to box than there are rounds: each round finds an   *)
(* edge that closes a cycle and boxes it, and without one no cycle is left   *)
(* (break_cycles).                                                          *)
THEOREM SizesAreFinite == Spec => []FiniteSizeWithinRounds
<1>1. Init => Boxing /\ FiniteSizeWithinRounds
    BY DEF Init, Boxing, FiniteSizeWithinRounds, FiniteSize, Sized
<1>2. Sound /\ Boxing /\ FiniteSizeWithinRounds /\ [Next]_vars
          => Boxing' /\ FiniteSizeWithinRounds'
    BY NextBoxes
<1> QED
    BY <1>1, <1>2, AlwaysSound, PTL DEF Spec

-----------------------------------------------------------------------------
(* Derives.                                                                 *)


\* What a sweep has not taken yet: who has what it needs still has the derive.
Open(sup) ==
    \A i \in 1..Len(types) : \A d \in Derive : Supports(d, types[i], sup) => d \in sup[i]

\* A derive no further sweep takes from any type.
Settled(d, sup) ==
    \A i \in 1..Len(types) : d \in sup[i] <=> Supports(d, types[i], sup)

\* The types that still have a derive.
Carrying(d, sup) == {i \in 1..Len(types) : d \in sup[i]}

\* Each round that does not settle a derive takes it from a type.
Settling ==
    /\ phase = "reopen" => round = 0
    /\ phase = "derive" =>
          /\ DOMAIN supported = 1..Len(types)
          /\ Open(supported)
          /\ \A d \in Derive : \/ Settled(d, supported)
                               \/ Cardinality(Carrying(d, supported)) + round <= Len(types)

-----------------------------------------------------------------------------
(* Support only grows with what the others support.                         *)

(* A reference carries whatever it carried when more types have the derive. *)
LEMMA CarriesMore ==
    ASSUME NEW d, NEW s, NEW t, NEW n, \A j \in 1..n : d \in s[j] => d \in t[j],
           NEW ref, InTable(ref, n), Carries(d, ref, s)
    PROVE  Carries(d, ref, t)
<1>1. LeafCarries(d, ref, s) => LeafCarries(d, ref, t)
    BY DEF LeafCarries, InTable
<1> QED
    BY <1>1 DEF Carries

(* So does a contract.                                                      *)
LEMMA SupportsMore ==
    ASSUME NEW d, NEW s, NEW t, NEW n, \A j \in 1..n : d \in s[j] => d \in t[j],
           NEW c, Fits(c, n), Supports(d, c, s)
    PROVE  Supports(d, c, t)
<1>1. \A ref \in References(c) : InTable(ref, n)
    BY FitsTypes DEF References, Fits
<1>2. \A ref \in Fallback(c) : InTable(ref, n)
    BY DEF Fallback, LeafRef, InTable
<1>3. \A ref \in References(c) \cup Fallback(c) : Carries(d, ref, t)
    <2>1. \A ref \in References(c) \cup Fallback(c) : Carries(d, ref, s)
        BY DEF Supports
    <2> QED
        BY <1>1, <1>2, <2>1, CarriesMore
<1> QED
    BY <1>3 DEF Supports

-----------------------------------------------------------------------------
(* One sweep.                                                               *)

\* The states of a sweep: the k-th has judged the first k types, each against
\* what the sweep left of the others, and only took derives away.
Sweeping(f) ==
    /\ f[0] = supported /\ f[Len(types)] = Swept
    /\ \A k \in 0..Len(types) :
          /\ DOMAIN f[k] = 1..Len(types) /\ Open(f[k])
          /\ \A i \in 1..Len(types) : f[k][i] \subseteq supported[i]
    /\ \A k \in 1..Len(types) : \A i \in 1..Len(types) :
          f[k][i] = IF i = k THEN {d \in Derive : Supports(d, types[k], f[k - 1])}
                    ELSE f[k - 1][i]

(* A sweep takes derives and gives none, type by type.                      *)
LEMMA SweepDescends ==
    ASSUME Sound, DOMAIN supported = 1..Len(types), Open(supported)
    PROVE  \E f : Sweeping(f)
<1> DEFINE n == Len(types)
<1>1. n \in Nat /\ \A i \in 1..n : Fits(types[i], n)
    BY DEF Sound, Table
<1>2. PICK f : /\ f[0] = supported
               /\ \A k \in 1..n : f[k] = Judged(f[k - 1], k)
               /\ \A k \in 0..n : f[k] \in Seq(SUBSET Derive)
               /\ Swept = f[n]
    BY SweptUnfold
<1> DEFINE Judge(k) == {d \in Derive : Supports(d, types[k], f[k - 1])}
           Down(k) == /\ DOMAIN f[k] = 1..n /\ Open(f[k])
                      /\ \A i \in 1..n : f[k][i] \subseteq supported[i]
           P == {k \in 0..n : Down(k)}
<1>3. ASSUME NEW k \in 1..n, DOMAIN f[k - 1] = 1..n
      PROVE  /\ DOMAIN f[k] = 1..n
             /\ \A i \in 1..n : f[k][i] = IF i = k THEN Judge(k) ELSE f[k - 1][i]
    <2> DEFINE e == Judge(k)
    <2>1. f[k] = [f[k - 1] EXCEPT ![k] = e]
        BY <1>2 DEF Judged
    <2> HIDE DEF e
    <2>2. /\ DOMAIN f[k] = 1..n
          /\ \A i \in 1..n : f[k][i] = IF i = k THEN e ELSE f[k - 1][i]
        BY <1>3, <2>1
    <2> QED
        BY <2>2 DEF e
<1>4. 0 \in P
    BY <1>1, <1>2
<1>5. ASSUME NEW k \in 1..n, k - 1 \in P PROVE k \in P
    <2>1. /\ DOMAIN f[k - 1] = 1..n /\ Open(f[k - 1])
          /\ \A i \in 1..n : f[k - 1][i] \subseteq supported[i]
        BY <1>5
    <2>2. /\ DOMAIN f[k] = 1..n
          /\ \A i \in 1..n : f[k][i] = IF i = k THEN Judge(k) ELSE f[k - 1][i]
        BY <1>3, <2>1
    <2>3. Judge(k) \subseteq f[k - 1][k]
        BY <1>1, <2>1 DEF Open
    <2>4. \A i \in 1..n : f[k][i] \subseteq f[k - 1][i]
        BY <2>2, <2>3
    <2>5. ASSUME NEW i \in 1..n, NEW d \in Derive, Supports(d, types[i], f[k])
          PROVE  d \in f[k][i]
        <3>1. Supports(d, types[i], f[k - 1])
            BY <1>1, <2>4, <2>5, SupportsMore
        <3>2. CASE i = k
            BY <2>2, <3>1, <3>2
        <3>3. CASE i # k
            <4>1. d \in f[k - 1][i]
                BY <1>1, <2>1, <3>1 DEF Open
            <4> QED
                BY <2>2, <3>3, <4>1
        <3> QED
            BY <3>2, <3>3
    <2>6. Open(f[k])
        BY <1>1, <2>5 DEF Open
    <2>7. \A i \in 1..n : f[k][i] \subseteq supported[i]
        BY <2>1, <2>4
    <2> QED
        BY <2>2, <2>6, <2>7
<1> HIDE DEF P
<1>6. 0..n \subseteq P
    BY <1>1, <1>4, <1>5, UpTo
<1>7. \A k \in 0..n : Down(k)
    BY <1>6 DEF P
<1>8. \A k \in 1..n : \A i \in 1..n : f[k][i] = IF i = k THEN Judge(k) ELSE f[k - 1][i]
    <2>1. \A k \in 1..n : k - 1 \in 0..n
        BY <1>1
    <2> QED
        BY <1>3, <1>7, <2>1
<1>9. /\ f[0] = supported /\ f[n] = Swept
    BY <1>2
<1> HIDE DEF n
<1>10. \A k \in 0..n : /\ DOMAIN f[k] = 1..n /\ Open(f[k])
                      /\ \A i \in 1..n : f[k][i] \subseteq supported[i]
    BY <1>7
<1>11. \A k \in 1..n : \A i \in 1..n :
           f[k][i] = IF i = k THEN {d \in Derive : Supports(d, types[k], f[k - 1])}
                     ELSE f[k - 1][i]
    BY <1>8
<1> HIDE DEF Down
<1>12. Sweeping(f)
    BY <1>9, <1>10, <1>11 DEF Sweeping, n
<1> QED
    BY <1>12

(* What a sweep leaves is open to the next one.                             *)
LEMMA SweepOpen ==
    ASSUME Sound, DOMAIN supported = 1..Len(types), Open(supported)
    PROVE  /\ DOMAIN Swept = 1..Len(types) /\ Open(Swept)
           /\ \A i \in 1..Len(types) : Swept[i] \subseteq supported[i]
<1>1. Len(types) \in 0..Len(types)
    BY DEF Sound, Table
<1>2. PICK f : Sweeping(f)
    BY SweepDescends
<1> QED
    BY <1>1, <1>2 DEF Sweeping

(* A derive that is settled stays with every type that has it.              *)
LEMMA SweepKeeps ==
    ASSUME Sound, DOMAIN supported = 1..Len(types), Open(supported),
           NEW d \in Derive, Settled(d, supported)
    PROVE  /\ \A i \in 1..Len(types) : d \in Swept[i] <=> d \in supported[i]
           /\ Settled(d, Swept)
<1> DEFINE n == Len(types)
<1>1. n \in Nat /\ \A i \in 1..n : Fits(types[i], n)
    BY DEF Sound, Table
<1>0. PICK f : Sweeping(f)
    BY SweepDescends
<1>2. /\ f[0] = supported /\ f[n] = Swept
      /\ \A k \in 1..n : \A i \in 1..n :
            f[k][i] = IF i = k THEN {x \in Derive : Supports(x, types[k], f[k - 1])}
                      ELSE f[k - 1][i]
    BY <1>0 DEF Sweeping
<1>3. \A i \in 1..n : \A s, t : (\A j \in 1..n : d \in s[j] <=> d \in t[j]) =>
          (Supports(d, types[i], s) <=> Supports(d, types[i], t))
    BY <1>1, SupportsMore
<1> DEFINE P == {k \in 0..n : \A i \in 1..n : d \in f[k][i] <=> d \in supported[i]}
<1>4. 0 \in P
    BY <1>1, <1>2
<1>5. ASSUME NEW k \in 1..n, k - 1 \in P PROVE k \in P
    <2>1. \A i \in 1..n : d \in f[k - 1][i] <=> d \in supported[i]
        BY <1>5
    <2>2. Supports(d, types[k], f[k - 1]) <=> Supports(d, types[k], supported)
        BY <1>3, <2>1
    <2>3. d \in f[k][k] <=> d \in supported[k]
        BY <1>2, <2>2 DEF Settled
    <2>4. \A i \in 1..n : d \in f[k][i] <=> d \in supported[i]
        BY <1>2, <2>1, <2>3
    <2> QED
        BY <2>4
<1> HIDE DEF P
<1>6. 0..n \subseteq P
    BY <1>1, <1>4, <1>5, UpTo
<1>7. n \in P
    BY <1>1, <1>6
<1>8. \A i \in 1..n : d \in Swept[i] <=> d \in supported[i]
    BY <1>2, <1>7 DEF P
<1>9. \A i \in 1..n : Supports(d, types[i], Swept) <=> Supports(d, types[i], supported)
    BY <1>3, <1>8
<1> QED
    BY <1>8, <1>9 DEF Settled

(* One that is not settled is taken from some type.                         *)
LEMMA SweepTakes ==
    ASSUME Sound, DOMAIN supported = 1..Len(types), Open(supported),
           NEW d \in Derive, ~Settled(d, supported)
    PROVE  \E i \in 1..Len(types) : d \in supported[i] /\ d \notin Swept[i]
<1> DEFINE n == Len(types)
<1>1. n \in Nat /\ \A i \in 1..n : Fits(types[i], n)
    BY DEF Sound, Table
<1>0. PICK f : Sweeping(f)
    BY SweepDescends
<1>2. /\ f[0] = supported /\ f[n] = Swept
      /\ \A k \in 0..n : \A i \in 1..n : f[k][i] \subseteq supported[i]
      /\ \A k \in 0..n : Open(f[k])
      /\ \A k \in 1..n : \A i \in 1..n :
            f[k][i] = IF i = k THEN {x \in Derive : Supports(x, types[k], f[k - 1])}
                      ELSE f[k - 1][i]
    BY <1>0 DEF Sweeping
<1>3. PICK i \in 1..n : d \in supported[i] /\ ~Supports(d, types[i], supported)
    BY DEF Settled, Open
<1>4. ~Supports(d, types[i], f[i - 1])
    <2>1. i - 1 \in 0..n
        BY <1>1
    <2>2. \A j \in 1..n : d \in f[i - 1][j] => d \in supported[j]
        BY <1>2, <2>1
    <2> QED
        BY <1>1, <1>3, <2>2, SupportsMore
<1> DEFINE P == {k \in 0..n : i <= k => d \notin f[k][i]}
<1>5. 0 \in P
    BY <1>1
<1>6. ASSUME NEW k \in 1..n, k - 1 \in P PROVE k \in P
    <2>1. CASE k = i
        <3>1. f[k][i] = {x \in Derive : Supports(x, types[i], f[i - 1])}
            BY <1>2, <2>1
        <3> QED
            BY <1>4, <3>1
    <2>2. CASE k # i
        <3>1. f[k][i] = f[k - 1][i]
            BY <1>2, <2>2
        <3>2. i <= k => i <= k - 1
            BY <1>1, <2>2
        <3> QED
            BY <1>6, <3>1, <3>2
    <2> QED
        BY <2>1, <2>2
<1> HIDE DEF P
<1>7. 0..n \subseteq P
    BY <1>1, <1>5, <1>6, UpTo
<1>8. n \in P
    BY <1>1, <1>7
<1>9. d \notin Swept[i]
    BY <1>1, <1>2, <1>8 DEF P
<1> QED
    BY <1>3, <1>9

-----------------------------------------------------------------------------
(* The rounds.                                                              *)

(* A round settles a derive or takes it from one type more.                 *)
LEMMA DeriveRoundSettles ==
    ASSUME Sound, Settling, DeriveRound PROVE Settling'
<1> DEFINE n == Len(types)
<1>1. /\ phase = "derive" /\ phase' = "derive" /\ supported' = Swept /\ round' = round + 1
      /\ types' = types /\ input' = input
    BY DEF DeriveRound
<1>2. n \in Nat /\ round \in Nat
    BY DEF Sound, Table, Outcome
<1>3. DOMAIN supported = 1..n /\ Open(supported)
    BY <1>1 DEF Settling
<1>4. /\ DOMAIN Swept = 1..n /\ Open(Swept)
      /\ \A i \in 1..n : Swept[i] \subseteq supported[i]
    BY <1>3, SweepOpen
<1>5. ASSUME NEW d \in Derive
      PROVE  Settled(d, Swept) \/ Cardinality(Carrying(d, Swept)) + round + 1 <= n
    <2>1. CASE Settled(d, supported)
        BY <1>3, <2>1, SweepKeeps
    <2>2. CASE ~Settled(d, supported)
        <3> DEFINE A == Carrying(d, Swept)
                   B == Carrying(d, supported)
        <3>1. PICK i \in 1..n : d \in supported[i] /\ d \notin Swept[i]
            BY <1>3, <2>2, SweepTakes
        <3>2. A \in SUBSET B /\ i \in B /\ i \notin A /\ B \in SUBSET (1..n)
            BY <1>4, <3>1 DEF Carrying
        <3>3. Cardinality(B) + round <= n
            BY <1>1, <2>2 DEF Settling
        <3> HIDE DEF A, B
        <3>4. IsFiniteSet(B) /\ Cardinality(B) \in Nat
            BY <1>2, <3>2, FiniteKept
        <3>5. /\ IsFiniteSet(A) /\ Cardinality(A) <= Cardinality(B)
              /\ Cardinality(A) # Cardinality(B)
            BY <3>2, <3>4, FS_Subset
        <3>6. Cardinality(A) \in Nat
            BY <3>5, FS_CardinalityType
        <3>7. Cardinality(A) + round + 1 <= n
            BY <1>2, <3>3, <3>4, <3>5, <3>6
        <3> QED
            BY <3>7 DEF A
    <2> QED
        BY <2>1, <2>2
<1>6. ASSUME NEW d, NEW i \in 1..n
      PROVE  Supports(d, types[i], supported)' <=> Supports(d, types[i], Swept)
    <2>1. PICK c : c = types[i] /\ c = types'[i]
        BY <1>1
    <2>2. \A ref : LeafCarries(d, ref, supported') <=> LeafCarries(d, ref, Swept)
        BY <1>1
    <2>3. \A ref : Carries(d, ref, supported)' <=> Carries(d, ref, Swept)
        BY <1>1, <2>2 DEF Carries, LeafCarries
    <2>4. Supports(d, c, supported)' <=> Supports(d, c, Swept)
        BY <2>3 DEF Supports
    <2> QED
        BY <2>1, <2>4
<1>7. Open(supported)'
    BY <1>1, <1>4, <1>6 DEF Open
<1>8. \A d \in Derive : Settled(d, supported)' <=> Settled(d, Swept)
    BY <1>1, <1>6 DEF Settled
<1>9. \A d \in Derive : Carrying(d, supported)' = Carrying(d, Swept)
    BY <1>1 DEF Carrying
<1>10. ASSUME NEW d \in Derive
       PROVE  \/ Settled(d, supported)'
              \/ Cardinality(Carrying(d, supported)') + round' <= Len(types')
    <2>1. CASE Settled(d, Swept)
        BY <1>8, <2>1
    <2>2. CASE ~Settled(d, Swept)
        <3>1. Cardinality(Carrying(d, Swept)) + round + 1 <= n
            BY <1>5, <2>2
        <3> DEFINE c == Cardinality(Carrying(d, Swept))
        <3>2. c \in Nat
            <4>1. Carrying(d, Swept) \in SUBSET (1..n)
                BY DEF Carrying
            <4> QED
                BY <1>2, <4>1, FiniteKept
        <3>3. Cardinality(Carrying(d, supported)') = c
            BY <1>9
        <3> HIDE DEF c
        <3>4. c + (round + 1) <= n
            BY <1>2, <3>1, <3>2 DEF c
        <3> QED
            BY <1>1, <3>3, <3>4
    <2> QED
        BY <2>1, <2>2
<1> QED
    BY <1>1, <1>4, <1>7, <1>10 DEF Settling

(* The sweeps start from every derive for every type, and no round is spent. *)
LEMMA ReopenSettles ==
    ASSUME Sound, Settling, Reopen PROVE Settling'
<1> DEFINE n == Len(types)
<1>1. n \in Nat /\ round = 0
    BY DEF Sound, Table, Settling, Reopen
<1>2. /\ phase' = "derive" /\ round' = round
      /\ types' = [i \in 1..n |-> Reopened(types, types[i])]
      /\ supported' = [i \in 1..n |-> Derive]
    BY DEF Reopen
<1>3. Len(types') = n
    BY <1>1, <1>2
<1>4. DOMAIN supported' = 1..n /\ \A i \in 1..n : supported'[i] = Derive
    BY <1>2
<1>5. Open(supported)'
    BY <1>3, <1>4 DEF Open
<1>6. ASSUME NEW d \in Derive
      PROVE  Cardinality(Carrying(d, supported)') + round' <= n
    <2>1. Carrying(d, supported)' = 1..n
        BY <1>3, <1>4 DEF Carrying
    <2>2. Cardinality(1..n) = n
        <3> HIDE DEF n
        <3>1. n \in Int /\ 1 \in Int
            BY <1>1
        <3>2. Cardinality(1..n) = IF 1 > n THEN 0 ELSE n - 1 + 1
            BY <3>1, FS_Interval
        <3> QED
            BY <1>1, <3>2
    <2> QED
        BY <1>1, <1>2, <2>1, <2>2
<1> QED
    BY <1>2, <1>3, <1>4, <1>5, <1>6 DEF Settling

(* When the rounds end, every derive is settled.                            *)
LEMMA RoundsSuffice ==
    ASSUME Sound, Settling, Freeze PROVE \A d \in Derive : Settled(d, supported)
<1> DEFINE n == Len(types)
<1>1. n \in Nat /\ round \in Nat /\ phase = "derive"
    BY DEF Sound, Table, Outcome, Freeze
<1>2. DOMAIN supported = 1..n /\ Open(supported)
    BY <1>1 DEF Settling
<1> SUFFICES ASSUME NEW d \in Derive, ~Settled(d, supported) PROVE FALSE
    OBVIOUS
<1>3. Swept # supported
    BY <1>2, SweepTakes
<1>4. round > n
    BY <1>3 DEF Freeze
<1>5. Cardinality(Carrying(d, supported)) + round <= n
    BY <1>1 DEF Settling
<1>6. Cardinality(Carrying(d, supported)) \in Nat
    <2>1. Carrying(d, supported) \in SUBSET (1..n)
        BY DEF Carrying
    <2> QED
        BY <1>1, <2>1, FiniteKept
<1> QED
    BY <1>1, <1>4, <1>5, <1>6

(* What a frozen type carries of the crate's derives, all it holds carries. *)
LEMMA FreezeCompiles ==
    ASSUME Sound, Settling, Freeze PROVE CrateDerivesCompile'
<1> DEFINE n == Len(types)
<1>1. n \in Nat /\ \A i \in 1..n : Fits(types[i], n)
    BY DEF Sound, Table
<1>2. DOMAIN types = 1..n /\ types' = types /\ input' = input
    BY <1>1 DEF Freeze, Sound, Table
<1> SUFFICES ASSUME phase' = "done", input.named = {},
                    NEW i \in 1..n, NEW d \in derives'[i], d \in input.wanted
             PROVE  Compiles(i, d)'
    BY <1>2 DEF CrateDerivesCompile
<1>3. input.wanted \in SUBSET Derive
    BY InputsAssumption DEF Sound, WellFormed
<1>4. derives' = [j \in 1..n |-> AutoDerives(j) \cup (Requested(j) \cap supported[j])]
    BY DEF Freeze
<1>5. \A j \in 1..n : Requested(j) = input.wanted
    BY DEF Requested, IsNamed
<1>6. \A j \in 1..n : d \in supported[j] => d \in derives'[j]
    BY <1>4, <1>5
<1>7. d \in supported[i]
    BY <1>4 DEF AutoDerives
<1>8. Supports(d, types[i], supported)
    BY <1>3, <1>7, RoundsSuffice DEF Settled
<1>9. \E s : s = derives' /\ \A j \in 1..n : d \in supported[j] => d \in s[j]
    BY <1>6
<1>10. PICK s : s = derives' /\ \A j \in 1..n : d \in supported[j] => d \in s[j]
    BY <1>9
<1>11. Supports(d, types[i], s)
    BY <1>1, <1>8, <1>10, SupportsMore
<1>12. \A ref \in References(types[i]) \cup Fallback(types[i]) : Carries(d, ref, s)
    BY <1>11 DEF Supports
<1>13. \A ref : Carries(d, ref, s) => Carries(d, ref, derives)'
    BY <1>2, <1>10 DEF Carries, LeafCarries
<1> QED
    BY <1>2, <1>12, <1>13 DEF Compiles

-----------------------------------------------------------------------------
(* Every behaviour.                                                         *)

(* Only the derive rounds and the step before them touch support.           *)
LEMMA NextSettles ==
    ASSUME Sound, Settling, CrateDerivesCompile, [Next]_vars
    PROVE  Settling' /\ CrateDerivesCompile'
<1>1. CASE Tabling
    <2>1. phase' \notin {"reopen", "derive", "done"}
        BY <1>1 DEF Tabling, DedupRound, DedupEnd, ReachStep, ReachEnd, UnitRun,
                    DiffersRound, TwinRun
    <2> QED
        BY <2>1 DEF Settling, CrateDerivesCompile
<1>2. CASE Normalize \/ Promote \/ BoxRound
    <2>1. phase' \notin {"reopen", "derive", "done"}
        BY <1>2 DEF Normalize, Promote, BoxRound
    <2> QED
        BY <2>1 DEF Settling, CrateDerivesCompile
<1>3. CASE BoxEnd
    BY <1>3 DEF BoxEnd, Settling, CrateDerivesCompile
<1>4. CASE Reopen
    <2>1. CrateDerivesCompile'
        BY <1>4 DEF Reopen, CrateDerivesCompile
    <2> QED
        BY <1>4, <2>1, ReopenSettles
<1>5. CASE DeriveRound
    <2>1. CrateDerivesCompile'
        BY <1>5 DEF DeriveRound, CrateDerivesCompile
    <2> QED
        BY <1>5, <2>1, DeriveRoundSettles
<1>6. CASE Freeze
    <2>1. Settling'
        BY <1>6 DEF Freeze, Settling
    <2> QED
        BY <1>6, <2>1, FreezeCompiles
<1>7. CASE UNCHANGED vars
    <2>1. Settling'
        BY <1>7 DEF vars, Settling, Open, Settled, Carrying, Supports, Carries, LeafCarries
    <2>2. CrateDerivesCompile'
        BY <1>7 DEF vars, CrateDerivesCompile, Compiles, Carries, LeafCarries
    <2> QED
        BY <2>1, <2>2
<1> QED
    BY <1>1, <1>2, <1>3, <1>4, <1>5, <1>6, <1>7 DEF Next, Finalizing, Finished

(* Whatever derives the crate asks for, and however its types hold one      *)
(* another, a frozen type carries one only if all it holds carries it too:  *)
(* the rounds are enough for support to settle (supported_derives).         *)
THEOREM CrateDerivesHold == Spec => []CrateDerivesCompile
<1>1. Init => Settling /\ CrateDerivesCompile
    BY DEF Init, Settling, CrateDerivesCompile
<1>2. Sound /\ Settling /\ CrateDerivesCompile /\ [Next]_vars
          => Settling' /\ CrateDerivesCompile'
    BY NextSettles
<1> QED
    BY <1>1, <1>2, AlwaysSound, PTL DEF Spec

=============================================================================
