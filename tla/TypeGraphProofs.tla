-------------------------- MODULE TypeGraphProofs --------------------------
(* Facts about the operators on type tables, used wherever a pass renumbers *)
(* or rewrites one.                                                         *)
EXTENDS TypeGraph, FiniteSetTheorems, TLAPS

(* A subset of the first n positions is finite, with a natural cardinality. *)
LEMMA FiniteKept ==
    ASSUME NEW n \in Nat, NEW kept \in SUBSET (1..n)
    PROVE  IsFiniteSet(kept) /\ Cardinality(kept) \in Nat
<1>1. IsFiniteSet(1..n)
    BY FS_Interval
<1>2. IsFiniteSet(kept)
    BY <1>1, FS_Subset
<1> QED
    BY <1>2, FS_CardinalityType

(* A rank counts kept positions: it is at most their number, whatever is ranked. *)
LEMMA RankBound ==
    ASSUME NEW n \in Nat, NEW kept \in SUBSET (1..n), NEW i \in Nat
    PROVE  Rank(kept, i) \in 0..Cardinality(kept)
<1> DEFINE below == {j \in kept : j <= i}
<1>1. IsFiniteSet(kept) /\ Cardinality(kept) \in Nat
    BY FiniteKept
<1>2. IsFiniteSet(below) /\ Cardinality(below) <= Cardinality(kept)
    BY <1>1, FS_Subset
<1>3. Cardinality(below) \in Nat
    BY <1>2, FS_CardinalityType
<1> QED
    BY <1>1, <1>2, <1>3 DEF Rank

(* A rank is a natural number. *)
LEMMA RankNatural ==
    ASSUME NEW n \in Nat, NEW kept \in SUBSET (1..n), NEW i \in Nat
    PROVE  Rank(kept, i) \in Nat
<1>1. Cardinality(kept) \in Nat
    BY FiniteKept
<1>2. Rank(kept, i) \in 0..Cardinality(kept)
    BY RankBound
<1> QED
    BY <1>1, <1>2

(* The ranks of kept positions are positions of the smaller table. *)
LEMMA RankInRange ==
    ASSUME NEW n \in Nat, NEW kept \in SUBSET (1..n), NEW i \in kept
    PROVE  Rank(kept, i) \in 1..Cardinality(kept)
<1> DEFINE below == {j \in kept : j <= i}
<1>1. IsFiniteSet(kept) /\ Cardinality(kept) \in Nat
    BY FiniteKept
<1>2. IsFiniteSet(below)
    BY <1>1, FS_Subset
<1>3. i \in below
    OBVIOUS
<1>4. Cardinality(below) # 0
    BY <1>2, <1>3, FS_EmptySet
<1>5. i \in Nat
    OBVIOUS
<1>6. Rank(kept, i) \in 0..Cardinality(kept)
    BY <1>5, RankBound
<1> QED
    BY <1>1, <1>4, <1>6 DEF Rank

(* A later kept position has a greater rank. *)
LEMMA RankIncreases ==
    ASSUME NEW n \in Nat, NEW kept \in SUBSET (1..n),
           NEW i \in kept, NEW j \in kept, i < j
    PROVE  Rank(kept, i) < Rank(kept, j)
<1> DEFINE below(k) == {x \in kept : x <= k}
<1>0. \A x \in kept : x \in Nat
    OBVIOUS
<1>1. IsFiniteSet(below(j))
    <2>1. IsFiniteSet(kept)
        BY FiniteKept
    <2>2. below(j) \in SUBSET kept
        OBVIOUS
    <2> QED
        BY <2>1, <2>2, FS_Subset
<1>2. below(i) \in SUBSET below(j)
    <2>1. \A x \in kept : x <= i => x <= j
        BY <1>0
    <2> QED
        BY <2>1
<1>3. j \in below(j) /\ j \notin below(i)
    OBVIOUS
<1>4. Cardinality(below(i)) <= Cardinality(below(j))
    BY <1>1, <1>2, FS_Subset
<1>5. Cardinality(below(i)) # Cardinality(below(j))
    <2>1. below(j) # below(i)
        BY <1>3
    <2> QED
        BY <1>1, <1>2, <2>1, FS_Subset
<1>6. Rank(kept, i) \in Nat /\ Rank(kept, j) \in Nat
    BY <1>0, RankNatural
<1> QED
    BY <1>4, <1>5, <1>6 DEF Rank

(* Every position of the smaller table is the rank of some kept position. *)
LEMMA RankOnto ==
    ASSUME NEW n \in Nat, NEW kept \in SUBSET (1..n), NEW k \in 1..Cardinality(kept)
    PROVE  \E i \in kept : Rank(kept, i) = k
<1> DEFINE c == Cardinality(kept)
           rank == [i \in kept |-> Rank(kept, i)]
<1>1. IsFiniteSet(kept) /\ c \in Nat
    BY FiniteKept
<1>2. rank \in [kept -> 1..c]
    BY RankInRange
<1>3. \A i, j \in kept : rank[i] = rank[j] => i = j
    <2> SUFFICES ASSUME NEW i \in kept, NEW j \in kept, i # j
                 PROVE  rank[i] # rank[j]
        OBVIOUS
    <2>1. i < j \/ j < i
        OBVIOUS
    <2>2. Rank(kept, i) \in Nat /\ Rank(kept, j) \in Nat
        <3>1. i \in Nat /\ j \in Nat
            OBVIOUS
        <3> QED
            BY <3>1, RankNatural
    <2>3. Rank(kept, i) < Rank(kept, j) \/ Rank(kept, j) < Rank(kept, i)
        BY <2>1, RankIncreases
    <2> QED
        BY <2>2, <2>3
<1>4. rank \in Injection(kept, 1..c)
    BY <1>2, <1>3 DEF Injection, IsInjective
<1>5. IsFiniteSet(1..c) /\ Cardinality(1..c) = c
    BY <1>1, FS_Interval
<1>6. rank \in Surjection(kept, 1..c)
    BY <1>4, <1>5, FS_Injection
<1> HIDE DEF c
<1>7. PICK i \in kept : rank[i] = k
    BY <1>6 DEF Surjection, c
<1> QED
    BY <1>7

(* The smaller table holds kept entries of the larger one and nothing else. *)
LEMMA KeepAt ==
    ASSUME NEW n \in Nat, NEW kept \in SUBSET (1..n), NEW ts, NEW k \in 1..Cardinality(kept)
    PROVE  \E i \in kept : Keep(ts, kept)[k] = ts[i]
<1>1. \E i \in kept : Rank(kept, i) = k
    BY RankOnto
<1>2. (CHOOSE i \in kept : Rank(kept, i) = k) \in kept
    BY <1>1
<1> QED
    BY <1>2 DEF Keep

\* Positions of a table of n entries.
PartOf(kept, n) == n \in Nat /\ kept \in SUBSET (1..n)

(* An entry of the smaller table is the kept entry whose rank it has. *)
LEMMA KeepRank ==
    ASSUME NEW n, NEW kept, PartOf(kept, n), NEW ts, NEW k \in 1..Cardinality(kept)
    PROVE  \E i \in kept : Rank(kept, i) = k /\ Keep(ts, kept)[k] = ts[i]
<1> DEFINE i == CHOOSE x \in kept : Rank(kept, x) = k
<1>1. n \in Nat /\ kept \in SUBSET (1..n)
    BY DEF PartOf
<1>2. \E x \in kept : Rank(kept, x) = k
    BY <1>1, RankOnto
<1>3. i \in kept /\ Rank(kept, i) = k
    BY <1>2
<1>4. Keep(ts, kept)[k] = ts[i]
    BY DEF Keep
<1> QED
    BY <1>3, <1>4

(* Two kept positions do not have one rank. *)
LEMMA RankInjective ==
    ASSUME NEW n, NEW kept, PartOf(kept, n), NEW i \in kept, NEW j \in kept,
           Rank(kept, i) = Rank(kept, j)
    PROVE  i = j
<1>1. n \in Nat /\ kept \in SUBSET (1..n)
    BY DEF PartOf
<1>2. i \in Nat /\ j \in Nat
    BY <1>1
<1>3. Rank(kept, i) \in Nat /\ Rank(kept, j) \in Nat
    BY <1>1, <1>2, RankNatural
<1>4. CASE i < j
    <2>1. Rank(kept, i) < Rank(kept, j)
        BY <1>1, <1>4, RankIncreases
    <2> QED
        BY <1>3, <2>1
<1>5. CASE j < i
    <2>1. Rank(kept, j) < Rank(kept, i)
        BY <1>1, <1>5, RankIncreases
    <2> QED
        BY <1>3, <2>1
<1> QED
    BY <1>2, <1>4, <1>5

(* A kept entry is found at its rank. *)
LEMMA KeepOf ==
    ASSUME NEW n, NEW kept, PartOf(kept, n), NEW ts, NEW i \in kept
    PROVE  /\ Rank(kept, i) \in 1..Cardinality(kept)
           /\ Keep(ts, kept)[Rank(kept, i)] = ts[i]
<1>1. Rank(kept, i) \in 1..Cardinality(kept)
    <2>1. n \in Nat /\ kept \in SUBSET (1..n)
        BY DEF PartOf
    <2> QED
        BY <2>1, RankInRange
<1>2. PICK j \in kept : Rank(kept, j) = Rank(kept, i)
                        /\ Keep(ts, kept)[Rank(kept, i)] = ts[j]
    BY <1>1, KeepRank
<1>3. i = j
    BY <1>2, RankInjective
<1> QED
    BY <1>1, <1>2, <1>3

(* The smaller table is a sequence of as many entries as are kept. *)
LEMMA KeepSeq ==
    ASSUME NEW n, NEW kept, PartOf(kept, n), NEW ts
    PROVE  /\ Cardinality(kept) \in Nat
           /\ Len(Keep(ts, kept)) = Cardinality(kept)
           /\ DOMAIN Keep(ts, kept) = 1..Cardinality(kept)
<1> DEFINE c == Cardinality(kept)
           S == {Keep(ts, kept)[k] : k \in 1..c}
<1>1. c \in Nat
    BY FiniteKept DEF PartOf
<1>2. Keep(ts, kept) = [k \in 1..c |-> Keep(ts, kept)[k]]
    BY DEF Keep
<1>3. Keep(ts, kept) \in [1..c -> S]
    BY <1>2
<1> HIDE DEF c, S
<1>4. Keep(ts, kept) \in Seq(S) /\ Len(Keep(ts, kept)) = c
    BY <1>1, <1>3
<1> QED
    BY <1>1, <1>3, <1>4 DEF c

(* The smaller table has as many entries as are kept. *)
LEMMA KeepLength ==
    ASSUME NEW n \in Nat, NEW kept \in SUBSET (1..n), NEW ts, NEW S,
           \A i \in kept : ts[i] \in S
    PROVE  /\ Keep(ts, kept) \in Seq(S)
           /\ Len(Keep(ts, kept)) = Cardinality(kept)
<1>1. Cardinality(kept) \in Nat
    BY FiniteKept
<1>2. \A k \in 1..Cardinality(kept) : Keep(ts, kept)[k] \in S
    <2>1. \A k \in 1..Cardinality(kept) : \E i \in kept : Keep(ts, kept)[k] = ts[i]
        BY KeepAt
    <2> QED
        BY <2>1
<1>3. Keep(ts, kept) = [k \in 1..Cardinality(kept) |-> Keep(ts, kept)[k]]
    BY DEF Keep
<1>4. Keep(ts, kept) \in [1..Cardinality(kept) -> S]
    BY <1>2, <1>3
<1> QED
    BY <1>1, <1>4

(* A non-empty set of positions has a least one. *)
LEMMA LeastPosition ==
    ASSUME NEW n \in Nat, NEW S \in SUBSET (1..n), S # {}
    PROVE  \E i \in S : \A j \in S : i <= j
<1>1. IsFiniteSet(S) /\ Cardinality(S) \in Nat
    BY FiniteKept
<1>2. 1 \in 1..Cardinality(S)
    BY <1>1, FS_EmptySet
<1>3. PICK i \in S : Rank(S, i) = 1
    BY <1>2, RankOnto
<1>4. ASSUME NEW j \in S, j < i PROVE FALSE
    <2>1. Rank(S, j) < 1
        BY <1>3, <1>4, RankIncreases
    <2>2. Rank(S, j) \in 1..Cardinality(S)
        BY RankInRange
    <2> QED
        BY <1>1, <2>1, <2>2
<1>5. \A j \in S : i <= j
    BY <1>4
<1> QED
    BY <1>5

(* A wrapper around a reference names what the reference names. *)
LEMMA WrappedType ==
    ASSUME NEW w \in Wrap, NEW ref \in TypeRef
    PROVE  /\ Wrapped(w, ref) \in TypeRef
           /\ Wrapped(w, ref).leaf = ref.leaf
           /\ Wrapped(w, ref).to = ref.to
<1>1. <<w>> \o ref.wraps \in Seq(Wrap)
    BY DEF TypeRef
<1> QED
    BY <1>1 DEF Wrapped, TypeRef

(* Renumbering moves what a reference names and leaves the rest of it. *)
LEMMA RemapType ==
    ASSUME NEW ref \in TypeRef, NEW moved, \A i \in DOMAIN moved : moved[i] \in Nat
    PROVE  /\ Remap(ref, moved) \in TypeRef
           /\ Remap(ref, moved).leaf = ref.leaf
           /\ ref.leaf = "Named" /\ ref.to \in DOMAIN moved =>
                 Remap(ref, moved).to = moved[ref.to]
           /\ ~(ref.leaf = "Named" /\ ref.to \in DOMAIN moved) => Remap(ref, moved) = ref
BY DEF Remap, TypeRef

(* Giving the members of a contract other types keeps everything else. *)
LEMMA RetypedType ==
    ASSUME NEW c \in Contract, NEW tys, \A k \in 1..Len(c.members) : tys[k] \in TypeRef
    PROVE  /\ Retyped(c, tys) \in Contract
           /\ Len(Retyped(c, tys).members) = Len(c.members)
           /\ Retyped(c, tys).kind = c.kind
           /\ Retyped(c, tys).form = c.form
           /\ \A k \in 1..Len(c.members) :
                 /\ Retyped(c, tys).members[k].ty = tys[k]
                 /\ Retyped(c, tys).members[k].presence = c.members[k].presence
                 /\ Retyped(c, tys).members[k].capture = c.members[k].capture
<1> DEFINE n == Len(c.members)
           ms == [k \in 1..n |-> [c.members[k] EXCEPT !.ty = tys[k]]]
<1>1. n \in Nat /\ c.members \in [1..n -> Member]
    BY DEF Contract
<1>2. \A k \in 1..n : [c.members[k] EXCEPT !.ty = tys[k]] \in Member
    BY <1>1 DEF Member
<1>3. ms \in [1..n -> Member]
    BY <1>2
<1>4. ms \in Seq(Member) /\ Len(ms) = n
    BY <1>1, <1>3
<1>5. Retyped(c, tys) = [c EXCEPT !.members = ms]
    BY DEF Retyped
<1>6. Retyped(c, tys).members = ms
    BY <1>5 DEF Contract
<1>7. Retyped(c, tys) \in Contract
    BY <1>4, <1>5 DEF Contract
<1>8. Retyped(c, tys).kind = c.kind /\ Retyped(c, tys).form = c.form
    BY <1>5 DEF Contract
<1>9. \A k \in 1..n : /\ ms[k].ty = tys[k]
                      /\ ms[k].presence = c.members[k].presence
                      /\ ms[k].capture = c.members[k].capture
    BY <1>1 DEF Member
<1> QED
    BY <1>4, <1>6, <1>7, <1>8, <1>9

(* Everything but the members of a contract is what it was. *)
LEMMA RemapKeeps ==
    ASSUME NEW c \in Contract, NEW moved
    PROVE  LET d == RemapContract(c, moved)
           IN  /\ d.origin = c.origin /\ d.naming = c.naming /\ d.unknown = c.unknown
               /\ d.kind = c.kind /\ d.form = c.form
BY DEF RemapContract, Retyped, Contract

-----------------------------------------------------------------------------
(* Functions on 0..n that are defined by recursion.                         *)

(* A set of numbers that has 0 and each successor up to n has all up to n.  *)
LEMMA UpTo ==
    ASSUME NEW n \in Nat, NEW P, 0 \in P, \A k \in 1..n : k - 1 \in P => k \in P
    PROVE  0..n \subseteq P
<1> DEFINE bad == {k \in 1..n : k \notin P}
<1>1. CASE bad = {}
    <2>1. \A k \in 0..n : k = 0 \/ k \in 1..n
        OBVIOUS
    <2> QED
        BY <1>1, <2>1
<1>2. CASE bad # {}
    <2>1. bad \in SUBSET (1..n)
        OBVIOUS
    <2>2. PICK k \in bad : \A j \in bad : k <= j
        BY <1>2, <2>1, LeastPosition
    <2>3. k \in 1..n /\ k \notin P
        OBVIOUS
    <2>4. k - 1 = 0 \/ k - 1 \in 1..n
        BY <2>3
    <2>5. k - 1 \notin bad
        BY <2>2, <2>3, <2>4
    <2> QED
        BY <2>3, <2>4, <2>5
<1> QED
    BY <1>1, <1>2

\* The function that starts at a value and takes one step after the other.
Iterate(f, n, X, a, step) ==
    /\ f \in [0..n -> X]
    /\ f[0] = a
    /\ \A k \in 1..n : f[k] = step[k][f[k - 1]]

(* It exists, whatever the steps. *)
LEMMA Iterates ==
    ASSUME NEW n \in Nat, NEW X, NEW a \in X, NEW step \in [1..n -> [X -> X]]
    PROVE  \E f : Iterate(f, n, X, a, step)
<1> DEFINE Good(m, f) == Iterate(f, m, X, a, step)
           P == {m \in 0..n : \E f : Good(m, f)}
<1>1. 0 \in P
    <2> DEFINE f == [k \in 0..0 |-> a]
    <2>1. Good(0, f)
        BY DEF Iterate
    <2>2. 0 \in 0..n
        OBVIOUS
    <2> HIDE DEF f, Good
    <2> QED
        BY <2>1, <2>2
<1>2. ASSUME NEW m \in 1..n, m - 1 \in P PROVE m \in P
    <2>1. PICK g : Good(m - 1, g)
        BY <1>2
    <2> USE DEF Iterate
    <2> DEFINE f == [k \in 0..m |-> IF k = m THEN step[m][g[m - 1]] ELSE g[k]]
    <2>2. m - 1 \in 0..(m - 1) /\ g[m - 1] \in X
        BY <2>1
    <2>3. \A k \in 0..m : f[k] \in X
        <3>1. step[m][g[m - 1]] \in X
            BY <2>2
        <3>2. \A k \in 0..m : k = m \/ k \in 0..(m - 1)
            OBVIOUS
        <3> QED
            BY <2>1, <3>1, <3>2
    <2>4. f[0] = a
        BY <2>1
    <2>5. ASSUME NEW k \in 1..m PROVE f[k] = step[k][f[k - 1]]
        <3>1. f[k - 1] = g[k - 1]
            OBVIOUS
        <3>2. k = m \/ k \in 1..(m - 1)
            OBVIOUS
        <3> QED
            BY <2>1, <3>1, <3>2
    <2>6. Good(m, f)
        BY <2>3, <2>4, <2>5
    <2> HIDE DEF f
    <2> QED
        BY <2>6
<1> HIDE DEF P
<1>3. 0..n \subseteq P
    BY <1>1, <1>2, UpTo
<1>4. n \in P
    BY <1>3
<1> QED
    BY <1>4 DEF P

(* The paths through ever more positions, the recursion unfolded.           *)
LEMMA PathsUnfold ==
    ASSUME NEW n \in Nat, NEW E
    PROVE  \E via : /\ via[0] = E
                    /\ \A k \in 1..n : via[k] = Joined(via[k - 1], n, k)
                    /\ Paths(n, E) = via[n]
<1> DEFINE X == SUBSET (E \cup ((1..n) \X (1..n)))
           step == [k \in 1..n |-> [s \in X |-> Joined(s, n, k)]]
           Is(f) == f = [k \in 0..n |-> IF k = 0 THEN E ELSE Joined(f[k - 1], n, k)]
<1>1. E \in X
    OBVIOUS
<1>2. ASSUME NEW k \in 1..n, NEW s \in X PROVE Joined(s, n, k) \in X
    BY DEF Joined
<1>3. step \in [1..n -> [X -> X]]
    BY <1>2
<1>4. \A k \in 1..n : \A s \in X : step[k][s] = Joined(s, n, k)
    OBVIOUS
<1> HIDE DEF X, step
<1>5. PICK f : Iterate(f, n, X, E, step)
    BY <1>1, <1>3, Iterates
<1>6. \A k \in 1..n : f[k] = Joined(f[k - 1], n, k)
    <2>1. \A k \in 1..n : f[k - 1] \in X
        BY <1>5 DEF Iterate
    <2> QED
        BY <1>4, <1>5, <2>1 DEF Iterate
<1>7. Is(f)
    <2>1. \A k \in 0..n : f[k] = IF k = 0 THEN E ELSE Joined(f[k - 1], n, k)
        BY <1>5, <1>6 DEF Iterate
    <2> QED
        BY <1>5, <2>1 DEF Iterate
<1> DEFINE via == CHOOSE g : Is(g)
<1>8. Is(via)
    BY <1>7
<1>9. Paths(n, E) = via[n]
    BY DEF Paths
<1> HIDE DEF via
<1>10. via[0] = E /\ \A k \in 1..n : via[k] = Joined(via[k - 1], n, k)
    BY <1>8
<1> QED
    BY <1>9, <1>10

(* A path begins with an edge. *)
LEMMA PathStarts ==
    ASSUME NEW n \in Nat, NEW E, NEW i, NEW j, <<i, j>> \in Paths(n, E)
    PROVE  \E e \in E : e[1] = i
<1>1. PICK via : /\ via[0] = E
                 /\ \A k \in 1..n : via[k] = Joined(via[k - 1], n, k)
                 /\ Paths(n, E) = via[n]
    BY PathsUnfold
<1> DEFINE Starts(S) == \A x, y : <<x, y>> \in S => \E e \in E : e[1] = x
           P == {k \in 0..n : Starts(via[k])}
<1>2. 0 \in P
    <2>1. Starts(E)
        OBVIOUS
    <2> QED
        BY <1>1, <2>1
<1>3. ASSUME NEW k \in 1..n, k - 1 \in P PROVE k \in P
    <2>1. Starts(via[k - 1])
        BY <1>3
    <2>2. Starts(Joined(via[k - 1], n, k))
        BY <2>1 DEF Joined
    <2> QED
        BY <1>1, <2>2
<1> HIDE DEF P
<1>4. n \in P
    BY <1>2, <1>3, UpTo
<1> QED
    BY <1>1, <1>4 DEF P

(* More edges, more paths. *)
LEMMA PathsMonotone ==
    ASSUME NEW n \in Nat, NEW E, NEW F, E \subseteq F
    PROVE  Paths(n, E) \subseteq Paths(n, F)
<1>1. PICK via : /\ via[0] = E
                 /\ \A k \in 1..n : via[k] = Joined(via[k - 1], n, k)
                 /\ Paths(n, E) = via[n]
    BY PathsUnfold
<1>2. PICK wia : /\ wia[0] = F
                 /\ \A k \in 1..n : wia[k] = Joined(wia[k - 1], n, k)
                 /\ Paths(n, F) = wia[n]
    BY PathsUnfold
<1> DEFINE P == {k \in 0..n : via[k] \subseteq wia[k]}
<1>3. 0 \in P
    BY <1>1, <1>2
<1>4. ASSUME NEW k \in 1..n, k - 1 \in P PROVE k \in P
    <2>1. via[k - 1] \subseteq wia[k - 1]
        BY <1>4
    <2>2. Joined(via[k - 1], n, k) \subseteq Joined(wia[k - 1], n, k)
        BY <2>1 DEF Joined
    <2> QED
        BY <1>1, <1>2, <2>2
<1> HIDE DEF P
<1>5. n \in P
    BY <1>3, <1>4, UpTo
<1> QED
    BY <1>1, <1>2, <1>5 DEF P

(* Every edge is a path. *)
LEMMA EdgesArePaths ==
    ASSUME NEW n \in Nat, NEW E PROVE E \subseteq Paths(n, E)
<1>1. PICK via : /\ via[0] = E
                 /\ \A k \in 1..n : via[k] = Joined(via[k - 1], n, k)
                 /\ Paths(n, E) = via[n]
    BY PathsUnfold
<1> DEFINE P == {k \in 0..n : E \subseteq via[k]}
<1>2. 0 \in P
    BY <1>1
<1>3. ASSUME NEW k \in 1..n, k - 1 \in P PROVE k \in P
    <2>1. E \subseteq via[k - 1] /\ via[k] = Joined(via[k - 1], n, k)
        BY <1>1, <1>3
    <2>2. via[k - 1] \subseteq Joined(via[k - 1], n, k)
        BY DEF Joined
    <2>3. E \subseteq via[k]
        BY <2>1, <2>2
    <2> QED
        BY <2>3
<1> HIDE DEF P
<1>4. n \in P
    BY <1>2, <1>3, UpTo
<1> QED
    BY <1>1, <1>4 DEF P

(* A path is an edge, or an edge and a path from where it leads. *)
LEMMA FirstEdge ==
    ASSUME NEW n \in Nat, NEW E \in SUBSET ((1..n) \X (1..n)),
           NEW i, NEW j, <<i, j>> \in Paths(n, E)
    PROVE  \E k \in 1..n : <<i, k>> \in E /\ (k = j \/ <<k, j>> \in Paths(n, E))
<1>1. PICK via : /\ via[0] = E
                 /\ \A m \in 1..n : via[m] = Joined(via[m - 1], n, m)
                 /\ Paths(n, E) = via[n]
    BY PathsUnfold
<1> DEFINE Starts(S) == \A x, y : <<x, y>> \in S =>
               /\ y \in 1..n
               /\ \E k \in 1..n : <<x, k>> \in E /\ (k = y \/ <<k, y>> \in S)
           P == {m \in 0..n : Starts(via[m])}
<1>2. 0 \in P
    <2>1. Starts(E)
        OBVIOUS
    <2> QED
        BY <1>1, <2>1
<1>3. ASSUME NEW m \in 1..n, m - 1 \in P PROVE m \in P
    <2> DEFINE S == via[m - 1]
               T == Joined(S, n, m)
    <2>1. Starts(S)
        BY <1>3
    <2>2. T = via[m]
        BY <1>1
    <2> HIDE DEF S
    <2>3. \A x, y : <<x, y>> \in T <=>
              \/ <<x, y>> \in S
              \/ x \in 1..n /\ y \in 1..n /\ <<x, m>> \in S /\ <<m, y>> \in S
        BY DEF Joined
    <2> HIDE DEF T
    <2>4. Starts(T)
        <3> SUFFICES ASSUME NEW x, NEW y, <<x, y>> \in T
                     PROVE  /\ y \in 1..n
                            /\ \E k \in 1..n : <<x, k>> \in E /\ (k = y \/ <<k, y>> \in T)
            OBVIOUS
        <3>1. CASE <<x, y>> \in S
            BY <2>1, <2>3, <3>1
        <3>2. CASE x \in 1..n /\ y \in 1..n /\ <<x, m>> \in S /\ <<m, y>> \in S
            <4>1. PICK k \in 1..n : <<x, k>> \in E /\ (k = m \/ <<k, m>> \in S)
                BY <2>1, <3>2
            <4>2. <<k, y>> \in T
                BY <2>3, <3>2, <4>1
            <4> QED
                BY <3>2, <4>1, <4>2
        <3> QED
            BY <2>3, <3>1, <3>2
    <2> QED
        BY <2>2, <2>4
<1> HIDE DEF P
<1>4. n \in P
    BY <1>2, <1>3, UpTo
<1> QED
    BY <1>1, <1>4 DEF P

(* Fewer edges close no new cycle, and a position without edges is on none. *)
LEMMA CutCycles ==
    ASSUME NEW n \in Nat, NEW E, NEW F, F \subseteq E,
           \A i \in 1..n : Recursive(Paths(n, E), i) => \A e \in F : e[1] # i
    PROVE  ~Cyclic(n, F)
<1> SUFFICES ASSUME NEW i \in 1..n, <<i, i>> \in Paths(n, F)
             PROVE  FALSE
    BY DEF Cyclic, Recursive
<1>1. <<i, i>> \in Paths(n, E)
    BY PathsMonotone
<1>2. \E e \in F : e[1] = i
    BY PathStarts
<1> QED
    BY <1>1, <1>2 DEF Recursive

(* The same without any edge cut: a smaller set of edges has no more cycles. *)
LEMMA FewerCycles ==
    ASSUME NEW n \in Nat, NEW E, NEW F, F \subseteq E, ~Cyclic(n, E)
    PROVE  ~Cyclic(n, F)
<1>1. \A i \in 1..n : ~Recursive(Paths(n, E), i)
    BY DEF Cyclic
<1> QED
    BY <1>1, CutCycles

(* Paths can be joined: what is found by way of the positions up to k is    *)
(* joined with what is found by way of them at any of those positions.      *)
LEMMA PathsJoin ==
    ASSUME NEW n \in Nat, NEW E \in SUBSET ((1..n) \X (1..n)),
           NEW i, NEW m, NEW j, <<i, m>> \in Paths(n, E), <<m, j>> \in Paths(n, E)
    PROVE  <<i, j>> \in Paths(n, E) /\ i \in 1..n /\ m \in 1..n /\ j \in 1..n
<1>1. PICK via : /\ via[0] = E
                 /\ \A k \in 1..n : via[k] = Joined(via[k - 1], n, k)
                 /\ Paths(n, E) = via[n]
    BY PathsUnfold
<1> DEFINE Closed(S, k) ==
               /\ \A x, y : <<x, y>> \in S => x \in 1..n /\ y \in 1..n
               /\ \A x, y, z : z \in 1..k /\ <<x, z>> \in S /\ <<z, y>> \in S =>
                                  <<x, y>> \in S
           P == {k \in 0..n : Closed(via[k], k)}
<1>2. 0 \in P
    <2>1. Closed(E, 0)
        OBVIOUS
    <2> QED
        BY <1>1, <2>1
<1>3. ASSUME NEW k \in 1..n, k - 1 \in P PROVE k \in P
    <2> DEFINE S == via[k - 1]
               T == Joined(S, n, k)
    <2>1. Closed(S, k - 1)
        BY <1>3
    <2>2. T = via[k]
        BY <1>1
    <2> HIDE DEF S
    <2>3. \A x, y : <<x, y>> \in T <=>
              \/ <<x, y>> \in S
              \/ x \in 1..n /\ y \in 1..n /\ <<x, k>> \in S /\ <<k, y>> \in S
        BY DEF Joined
    <2> HIDE DEF T
    <2>4. ASSUME NEW x, NEW y, NEW z, z \in 1..k, <<x, z>> \in T, <<z, y>> \in T
          PROVE  <<x, y>> \in T
        <3>1. x \in 1..n /\ y \in 1..n /\ z \in 1..n
            BY <2>1, <2>3, <2>4
        <3>2. CASE z = k
            <4>1. <<x, k>> \in S /\ <<k, y>> \in S
                BY <2>3, <2>4, <3>2
            <4> QED
                BY <2>3, <3>1, <4>1
        <3>3. CASE z # k
            <4>1. z \in 1..(k - 1)
                BY <2>4, <3>3
            <4>2. \A a, b : <<a, z>> \in S /\ <<z, b>> \in S => <<a, b>> \in S
                BY <2>1, <4>1
            <4>3. CASE <<x, z>> \in S /\ <<z, y>> \in S
                BY <2>3, <4>2, <4>3
            <4>4. CASE <<x, z>> \notin S
                <5>1. <<x, k>> \in S /\ <<k, z>> \in S
                    BY <2>3, <2>4, <4>4
                <5>2. <<k, y>> \in S
                    BY <2>3, <2>4, <4>2, <5>1
                <5> QED
                    BY <2>3, <3>1, <5>1, <5>2
            <4>5. CASE <<z, y>> \notin S
                <5>1. <<z, k>> \in S /\ <<k, y>> \in S
                    BY <2>3, <2>4, <4>5
                <5>2. <<x, k>> \in S
                    BY <2>3, <2>4, <4>2, <5>1
                <5> QED
                    BY <2>3, <3>1, <5>1, <5>2
            <4> QED
                BY <4>3, <4>4, <4>5
        <3> QED
            BY <3>2, <3>3
    <2>5. Closed(T, k)
        BY <2>1, <2>3, <2>4
    <2> QED
        BY <2>2, <2>5
<1> HIDE DEF P
<1>4. n \in P
    BY <1>2, <1>3, UpTo
<1>5. Closed(via[n], n)
    BY <1>4 DEF P
<1> QED
    BY <1>1, <1>5

(* And they are the least that can: whatever joins the edges holds them.    *)
LEMMA PathsLeast ==
    ASSUME NEW n \in Nat, NEW E, NEW R, E \subseteq R,
           \A x, y, z : <<x, z>> \in R /\ <<z, y>> \in R => <<x, y>> \in R
    PROVE  Paths(n, E) \subseteq R
<1>1. PICK via : /\ via[0] = E
                 /\ \A k \in 1..n : via[k] = Joined(via[k - 1], n, k)
                 /\ Paths(n, E) = via[n]
    BY PathsUnfold
<1> DEFINE P == {k \in 0..n : via[k] \subseteq R}
<1>2. 0 \in P
    BY <1>1
<1>3. ASSUME NEW k \in 1..n, k - 1 \in P PROVE k \in P
    <2>1. via[k - 1] \subseteq R
        BY <1>3
    <2>2. Joined(via[k - 1], n, k) \subseteq R
        <3>1. ASSUME NEW p \in (1..n) \X (1..n),
                     <<p[1], k>> \in via[k - 1], <<k, p[2]>> \in via[k - 1]
              PROVE  p \in R
            <4>1. <<p[1], p[2]>> \in R
                BY <2>1, <3>1
            <4> QED
                BY <4>1
        <3> QED
            BY <2>1, <3>1 DEF Joined
    <2> QED
        BY <1>1, <2>2
<1> HIDE DEF P
<1>4. n \in P
    BY <1>2, <1>3, UpTo
<1> QED
    BY <1>1, <1>4 DEF P

(* Two positions on one cycle are together with the same others.            *)
LEMMA SameCycle ==
    ASSUME NEW n \in Nat, NEW E \in SUBSET ((1..n) \X (1..n)),
           NEW i, NEW j, Together(Paths(n, E), i, j), NEW m
    PROVE  Together(Paths(n, E), i, m) <=> Together(Paths(n, E), j, m)
BY PathsJoin DEF Together

(* An edge leads from a position to one that a reference chosen there names. *)
LEMMA EdgeBy ==
    ASSUME NEW refs, NEW i, NEW j
    PROVE  <<i, j>> \in EdgesBy(refs) <=>
              /\ i \in DOMAIN refs /\ j \in DOMAIN refs
              /\ \E ref \in refs[i] : Names(ref, j)
BY DEF EdgesBy

(* An edge the size of a value sees is a member's.                          *)
LEMMA DirectEdge ==
    ASSUME NEW ts, NEW i, NEW j
    PROVE  <<i, j>> \in DirectEdges(ts) <=>
              /\ i \in DOMAIN ts /\ j \in DOMAIN ts
              /\ \E k \in DOMAIN ts[i].members :
                    Names(ts[i].members[k].ty, j) /\ Direct(ts[i].members[k].ty)
<1> DEFINE refs == [x \in DOMAIN ts |-> {ref \in References(ts[x]) : Direct(ref)}]
<1>1. DirectEdges(ts) = EdgesBy(refs)
    BY DEF DirectEdges
<1>2. \A x \in DOMAIN ts : \A ref : ref \in refs[x] <=>
          \E k \in DOMAIN ts[x].members : ref = ts[x].members[k].ty /\ Direct(ref)
    BY DEF References
<1>3. DOMAIN refs = DOMAIN ts
    OBVIOUS
<1> HIDE DEF refs
<1> QED
    BY <1>1, <1>2, <1>3, EdgeBy

(* They are pairs of positions.                                             *)
LEMMA DirectPairs ==
    ASSUME NEW ts PROVE DirectEdges(ts) \subseteq (DOMAIN ts) \X (DOMAIN ts)
<1> DEFINE refs == [x \in DOMAIN ts |-> {ref \in References(ts[x]) : Direct(ref)}]
<1>1. DirectEdges(ts) = EdgesBy(refs) /\ DOMAIN refs = DOMAIN ts
    BY DEF DirectEdges
<1> HIDE DEF refs
<1> QED
    BY <1>1 DEF EdgesBy

-----------------------------------------------------------------------------
(* Numbers and pairs.                                                       *)

(* A set of numbers has a least one. *)
LEMMA LeastNumber ==
    ASSUME NEW S \in SUBSET Nat, S # {}
    PROVE  \E m \in S : \A x \in S : m <= x
<1>1. PICK n \in S : TRUE
    OBVIOUS
<1> SUFFICES ASSUME \A m \in S : \E x \in S : ~(m <= x) PROVE FALSE
    OBVIOUS
<1> DEFINE P == {k \in 0..n : \A x \in S : k < x}
<1>2. \A x \in S : x \in Nat
    OBVIOUS
<1>3. 0 \in P
    <2> SUFFICES ASSUME NEW x \in S PROVE 0 < x
        BY <1>2
    <2>1. CASE x = 0
        BY <1>2, <2>1
    <2> QED
        BY <1>2, <2>1
<1>4. ASSUME NEW k \in 1..n, k - 1 \in P PROVE k \in P
    <2>1. \A x \in S : k <= x
        BY <1>2, <1>4
    <2>2. k \notin S
        BY <2>1
    <2> QED
        BY <1>2, <2>1, <2>2
<1> HIDE DEF P
<1>5. 0..n \subseteq P
    BY <1>2, <1>3, <1>4, UpTo
<1>6. n \in P
    BY <1>2, <1>5
<1> QED
    BY <1>1, <1>2, <1>6 DEF P

\* The things of a set with the least number.
Least(S, f) == {e \in S : \A g \in S : f[e] <= f[g]}

(* There is always one, and it is strictly below the rest.                  *)
LEMMA LeastBy ==
    ASSUME NEW S, NEW f, \A e \in S : f[e] \in Nat
    PROVE  /\ S # {} => Least(S, f) # {}
           /\ Least(S, f) \subseteq S
           /\ \A m \in Least(S, f) : \A g \in S :
                 f[m] < f[g] \/ (f[m] = f[g] /\ g \in Least(S, f))
<1>1. ASSUME S # {} PROVE Least(S, f) # {}
    <2> DEFINE T == {f[e] : e \in S}
    <2>1. PICK t \in T : \A x \in T : t <= x
        <3>1. T \in SUBSET Nat /\ T # {}
            BY <1>1
        <3> HIDE DEF T
        <3> QED
            BY <3>1, LeastNumber
    <2>2. PICK m \in S : t = f[m]
        BY <2>1
    <2> QED
        BY <2>1, <2>2 DEF Least
<1>2. Least(S, f) \subseteq S
    BY DEF Least
<1>3. ASSUME NEW m \in Least(S, f), NEW g \in S
      PROVE  f[m] < f[g] \/ (f[m] = f[g] /\ g \in Least(S, f))
    <2>1. m \in S /\ \A x \in S : f[m] <= f[x]
        BY DEF Least
    <2>2. f[m] \in Nat /\ f[g] \in Nat /\ f[m] <= f[g]
        BY <2>1
    <2>3. CASE f[m] = f[g]
        BY <2>1, <2>3 DEF Least
    <2> QED
        BY <2>2, <2>3
<1> QED
    BY <1>1, <1>2, <1>3

(* Sets of pairs with the same pairs.                                       *)
LEMMA PairsWithin ==
    ASSUME NEW S, NEW T, \A p \in S : p = <<p[1], p[2]>>,
           \A x, y : <<x, y>> \in S => <<x, y>> \in T
    PROVE  S \subseteq T
<1> SUFFICES ASSUME NEW p \in S PROVE p \in T
    OBVIOUS
<1>1. <<p[1], p[2]>> \in S
    OBVIOUS
<1>2. <<p[1], p[2]>> \in T
    BY <1>1
<1> QED
    BY <1>2

=============================================================================
