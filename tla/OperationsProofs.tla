-------------------------- MODULE OperationsProofs --------------------------
(* Proofs about Operations: whatever the document declares, the routes that *)
(* are served go into one router together, and none is left out without a   *)
(* reason that still stands when all have been asked about.                 *)
EXTENDS Operations, TLAPS

\* A template the router holds, and one it would not take.
Holding(taken, r) == \E t \in taken : t.route = r
Refusing(taken, r) ==
    OldCapture(r) \/ RouterRefuses(r) \/ \E t \in taken : Conflict(t.route, r)

\* What is true of the operations and the router once the first m of them were asked
\* about: an operation that is not served has a template the router neither holds nor
\* will ever take, and the router holds only what served operations put there.
Decided(m, operations, taken) ==
    /\ \A o \in DOMAIN operations : o > m => ~operations[o].served
    /\ \A o \in 1..m : operations[o].served => Holding(taken, operations[o].route)
    /\ \A o \in 1..m : ~operations[o].served /\ ~operations[o].variant =>
            ~Holding(taken, operations[o].route) /\ Refusing(taken, operations[o].route)
    /\ \A t \in taken : \E o \in 1..m : operations[o].served /\ operations[o].route = t.route
    /\ \A t \in taken : ~OldCapture(t.route) /\ ~RouterRefuses(t.route)
    /\ \A s, t \in taken : Conflict(s.route, t.route) => s.route = t.route

\* An operation of the model is a record of its seven parts.
Entry(b) ==
    b = [name |-> b.name, route |-> b.route, method |-> b.method, variant |-> b.variant,
         arms |-> b.arms, security |-> b.security, served |-> b.served]

Entries(operations) ==
    /\ Len(operations) \in Nat
    /\ operations = [o \in 1..Len(operations) |-> operations[o]]
    /\ \A o \in 1..Len(operations) : Entry(operations[o])

\* The operations behind the first m.
Behind(m, n) == [k \in 1..(n - m) |-> m + k]

\* What every state keeps: nothing is served before the router is asked, and from then
\* on the operations fall into those it was asked about, in order, and the rest.
Registering ==
    /\ Entries(built)
    /\ stage \in {"walk", "headers", "modelled"}
    /\ stage = "walk" => router = {} /\ \A o \in 1..Len(built) : ~built[o].served
    /\ stage # "walk" => \E m \in 0..Len(built) :
            unasked = Behind(m, Len(built)) /\ Decided(m, built, router)
    /\ stage = "modelled" => unasked = << >>

-----------------------------------------------------------------------------
(* Operations that differ in other respects.                                *)

(* Where only other parts of the operations changed, what was decided       *)
(* stands.                                                                  *)
LEMMA StillDecided ==
    ASSUME NEW m, NEW before, NEW after, NEW taken, m \in 0..Len(before),
           Entries(before), Entries(after), Len(after) = Len(before),
           \A o \in 1..Len(before) : /\ after[o].route = before[o].route
                                     /\ after[o].variant = before[o].variant
                                     /\ after[o].served = before[o].served,
           Decided(m, before, taken)
    PROVE  Decided(m, after, taken)
<1>1. DOMAIN before = 1..Len(before) /\ DOMAIN after = 1..Len(before)
    BY DEF Entries
<1>2. \A o \in 1..m : o \in 1..Len(before)
    BY DEF Entries
<1> QED
    BY <1>1, <1>2 DEF Decided

(* An operation more.                                                       *)
LEMMA Longer ==
    ASSUME NEW n \in Nat, NEW f, f = [k \in 1..n |-> f[k]], NEW x
    PROVE  /\ Len(Append(f, x)) = n + 1
           /\ Append(f, x) = [k \in 1..(n + 1) |-> Append(f, x)[k]]
           /\ Append(f, x)[n + 1] = x
           /\ \A k \in 1..n : Append(f, x)[k] = f[k]
<1> DEFINE S == {f[k] : k \in 1..n} \cup {x}
           g == Append(f, x)
<1>1. f \in Seq(S)
    OBVIOUS
<1>2. Len(f) = n
    OBVIOUS
<1>3. x \in S
    OBVIOUS
<1> HIDE DEF S
<1>4. g \in Seq(S) /\ Len(g) = n + 1 /\ g[n + 1] = x /\ \A k \in 1..n : g[k] = f[k]
    BY <1>1, <1>2, <1>3
<1> HIDE DEF g
<1>5. g = [k \in 1..(n + 1) |-> g[k]]
    BY <1>4
<1> QED
    BY <1>4, <1>5 DEF g

\* The operations with the types of one arm named.
WithTypes(operations, o, a, types) == [operations EXCEPT ![o].arms[a].types = types]

(* Naming the header types of an arm changes that arm alone.                *)
LEMMA OneArm ==
    ASSUME NEW before, Entries(before), NEW o, NEW a, NEW types, NEW after,
           after = WithTypes(before, o, a, types)
    PROVE  /\ Entries(after) /\ Len(after) = Len(before)
           /\ \A p \in 1..Len(before) : /\ after[p].route = before[p].route
                                        /\ after[p].variant = before[p].variant
                                        /\ after[p].served = before[p].served
<1> DEFINE n == Len(before)
<1>1. n \in Nat /\ DOMAIN before = 1..n /\ \A p \in 1..n : Entry(before[p])
    BY DEF Entries
<1> HIDE DEF n
<1>2. /\ after = [p \in 1..n |-> after[p]]
      /\ \A p \in 1..n : p # o => after[p] = before[p]
      /\ o \in 1..n => after[o] = [before[o] EXCEPT !.arms[a].types = types]
    BY <1>1 DEF WithTypes
<1>3. Len(after) = n
    BY <1>1, <1>2
<1>4. ASSUME NEW p \in 1..n
      PROVE  /\ Entry(after[p]) /\ after[p].route = before[p].route
             /\ after[p].variant = before[p].variant /\ after[p].served = before[p].served
    <2>1. CASE p # o
        BY <1>1, <1>2, <2>1
    <2>2. CASE p = o
        BY <1>1, <1>2, <2>2 DEF Entry
    <2> QED
        BY <2>1, <2>2
<1>5. Entries(after)
    BY <1>1, <1>2, <1>3, <1>4 DEF Entries
<1> QED
    BY <1>3, <1>4, <1>5 DEF n

-----------------------------------------------------------------------------
(* One lemma per action that touches the operations or the router.          *)

(* An operation enters the model unserved.                                  *)
LEMMA ClaimRegisters == ASSUME Registering, Claim PROVE Registering'
<1> DEFINE n == Len(built)
           claim == Head(claims)
           given == FirstFree(methods, claim.wanted)
           entry == [name |-> given, route |-> claim.route,
                     method |-> claim.operation.method, variant |-> claim.variant,
                     arms |-> Arms(claim.operation),
                     security |-> Requirement(claim.operation), served |-> FALSE]
<1>1. stage = "walk" /\ stage' = stage /\ router' = router /\ unasked' = unasked
      /\ (built' = built \/ built' = Append(built, entry))
    BY DEF Claim
<1>2. Entry(entry) /\ ~entry.served
    BY DEF Entry
<1> HIDE DEF entry
<1>3. n \in Nat /\ built = [o \in 1..n |-> built[o]] /\ \A o \in 1..n : Entry(built[o])
    BY DEF Registering, Entries
<1>4. CASE built' = built
    BY <1>1, <1>4 DEF Registering
<1>5. CASE built' = Append(built, entry)
    <2>1. /\ Len(built') = n + 1 /\ built' = [o \in 1..(n + 1) |-> built'[o]]
          /\ built'[n + 1] = entry /\ \A o \in 1..n : built'[o] = built[o]
        <3> HIDE DEF n
        <3> QED
            BY <1>3, <1>5, Longer
    <2>2. \A o \in 1..(n + 1) : o \in 1..n \/ o = n + 1
        BY <1>3
    <2>3. \A o \in 1..(n + 1) : Entry(built'[o]) /\ ~built'[o].served
        <3>1. \A o \in 1..n : Entry(built[o]) /\ ~built[o].served
            BY <1>1, <1>3 DEF Registering
        <3> QED
            BY <1>2, <2>1, <2>2, <3>1
    <2>4. Entries(built')
        BY <1>3, <2>1, <2>3 DEF Entries
    <2>5. Entries(built)'
        BY <2>4
    <2> QED
        BY <1>1, <2>1, <2>3, <2>5 DEF Registering
<1> QED
    BY <1>1, <1>4, <1>5

(* When the walk ends the router has been asked nothing.                    *)
LEMMA WalkedRegisters == ASSUME Registering, Walked PROVE Registering'
<1> DEFINE n == Len(built)
<1>1. /\ stage = "walk" /\ stage' = "headers" /\ router' = router /\ built' = built
      /\ unasked' = [o \in DOMAIN built |-> o]
    BY DEF Walked
<1>2. n \in Nat /\ DOMAIN built = 1..n /\ router = {} /\ \A o \in 1..n : ~built[o].served
    BY <1>1 DEF Registering, Entries
<1>3. unasked' = Behind(0, n)
    <2>1. \A k \in 1..n : 0 + k = k
        BY <1>2
    <2>2. n - 0 = n
        BY <1>2
    <2> QED
        BY <1>1, <1>2, <2>1, <2>2 DEF Behind
<1>4. Decided(0, built, {})
    BY <1>2 DEF Decided
<1>5. 0 \in 0..n
    BY <1>2
<1>6. \E m \in 0..Len(built') : unasked' = Behind(m, Len(built')) /\ Decided(m, built', router')
    BY <1>1, <1>2, <1>3, <1>4, <1>5
<1> QED
    BY <1>1, <1>6 DEF Registering

(* Naming header types decides nothing.                                     *)
LEMMA NameHeadersRegisters == ASSUME Registering, NameHeaders PROVE Registering'
<1> DEFINE n == Len(built)
           o == Head(unnamed)[1]
           a == Head(unnamed)[2]
           types == FirstPair(StemOf(built[o]), built[o].arms[a], TakenTypes)
<1>1. /\ stage = "headers" /\ stage' = stage /\ router' = router /\ unasked' = unasked
      /\ (built' = built \/ built' = [built EXCEPT ![o].arms[a].types = types])
    BY DEF NameHeaders
<1>2. Entries(built)
    BY DEF Registering
<1>3. PICK m \in 0..n : unasked = Behind(m, n) /\ Decided(m, built, router)
    BY <1>1 DEF Registering
<1> HIDE DEF o, a, types
<1>4. /\ Entries(built') /\ Len(built') = n
      /\ \A p \in 1..n : /\ built'[p].route = built[p].route
                         /\ built'[p].variant = built[p].variant
                         /\ built'[p].served = built[p].served
    <2>1. CASE built' = built
        BY <1>2, <2>1
    <2>2. CASE built' = [built EXCEPT ![o].arms[a].types = types]
        <3>1. built' = WithTypes(built, o, a, types)
            BY <2>2 DEF WithTypes
        <3> QED
            BY <1>2, <3>1, OneArm
    <2> QED
        BY <1>1, <2>1, <2>2
<1>5. Decided(m, built', router)
    BY <1>2, <1>3, <1>4, StillDecided
<1>6. \E k \in 0..Len(built') : unasked' = Behind(k, Len(built')) /\ Decided(k, built', router')
    BY <1>1, <1>3, <1>4, <1>5
<1> QED
    BY <1>1, <1>4, <1>6 DEF Registering

(* The next operation asked about is decided, and no earlier answer becomes *)
(* wrong: a template the router took conflicts with none it holds, and is   *)
(* none of those refused before, because whatever refused them still does.  *)
LEMMA AskRouterRegisters == ASSUME Registering, AskRouter PROVE Registering'
<1> DEFINE n == Len(built)
<1>1. Entries(built) /\ n \in Nat /\ DOMAIN built = 1..n
    BY DEF Registering, Entries
<1>2. stage = "headers" /\ stage' = stage /\ unasked # << >> /\ unasked' = Tail(unasked)
    BY DEF AskRouter
<1>3. PICK m \in 0..n : unasked = Behind(m, n) /\ Decided(m, built, router)
    BY <1>2 DEF Registering
<1> DEFINE o == m + 1
<1>4. Head(unasked) = o /\ Tail(unasked) = Behind(o, n) /\ o \in 1..n
    BY <1>1, <1>2, <1>3 DEF Behind
<1> DEFINE r == built[o].route
           inserted == ~Known(r) /\ ~OldCapture(r) /\ Insertable(built[o])
           new == [route |-> r, method |-> built[o].method]
<1>5. IF built[o].variant THEN built' = built /\ router' = router
      ELSE /\ built' = [built EXCEPT ![o].served = inserted \/ Known(r)]
           /\ router' = IF inserted THEN router \cup {new} ELSE router
    BY <1>4 DEF AskRouter
<1>6. ~built[o].served
    BY <1>1, <1>3, <1>4 DEF Decided
<1>7. \A p \in 1..o : p \in 1..m \/ p = o
    BY <1>3
<1>8. o \in 0..n /\ m \in Nat
    BY <1>1, <1>3, <1>4
<1>9. CASE built[o].variant
    <2>1. Decided(o, built, router)
        <3>1. \A p \in 1..n : p > o => p > m
            BY <1>8
        <3>2. \A p \in 1..m : p \in 1..o
            BY <1>8
        <3> HIDE DEF o
        <3> QED
            BY <1>1, <1>3, <1>6, <1>7, <1>9, <3>1, <3>2 DEF Decided
    <2>2. \E k \in 0..Len(built') : unasked' = Behind(k, Len(built')) /\ Decided(k, built', router')
        BY <1>2, <1>4, <1>5, <1>8, <1>9, <2>1
    <2> QED
        BY <1>1, <1>2, <1>5, <1>9, <2>2 DEF Registering
<1>10. CASE ~built[o].variant
    <2> DEFINE yes == inserted \/ Known(r)
    <2>1. built' = [built EXCEPT ![o].served = yes]
        BY <1>5, <1>10
    <2>2. router' = IF inserted THEN router \cup {new} ELSE router
        BY <1>5, <1>10
    <2>3. Known(r) <=> Holding(router, r)
        BY DEF Known, Holding
    <2>4. inserted <=> ~Holding(router, r) /\ ~Refusing(router, r)
        BY <2>3 DEF Insertable, Refusing
    <2>5. new.route = r
        OBVIOUS
    <2> HIDE DEF yes, inserted, new
    <2>6. /\ Entries(built') /\ Len(built') = n
          /\ \A p \in 1..n : /\ built'[p].route = built[p].route
                             /\ built'[p].variant = built[p].variant
                             /\ p # o => built'[p].served = built[p].served
          /\ built'[o].served = yes
        <3>1. /\ built' = [p \in 1..n |-> built'[p]]
              /\ \A p \in 1..n : p # o => built'[p] = built[p]
              /\ built'[o] = [built[o] EXCEPT !.served = yes]
            BY <1>1, <1>4, <2>1
        <3>2. Len(built') = n
            BY <1>1, <3>1
        <3>3. Entry(built[o])
            BY <1>1, <1>4 DEF Entries
        <3>4. /\ Entry(built'[o]) /\ built'[o].route = built[o].route
              /\ built'[o].variant = built[o].variant /\ built'[o].served = yes
            BY <3>1, <3>3 DEF Entry
        <3>5. \A p \in 1..n : Entry(built'[p])
            BY <1>1, <3>1, <3>4 DEF Entries
        <3>6. Entries(built')
            BY <1>1, <3>1, <3>2, <3>5 DEF Entries
        <3> QED
            BY <3>1, <3>2, <3>4, <3>6
    <2>7. yes <=> inserted \/ Holding(router, r)
        BY <2>3 DEF yes
    <2>8. DOMAIN built' = 1..n
        BY <2>6 DEF Entries
    <2>9. \A p \in 1..m : p \in 1..n /\ p # o /\ p \in 1..o
        BY <1>1, <1>3
    <2> DEFINE taken == router'
    <2>10. \A t \in router : t \in taken
        BY <2>2
    <2>11. \A t \in taken : t \in router \/ (inserted /\ t = new)
        BY <2>2
    <2>12. inserted => new \in taken
        BY <2>2
    <2> HIDE DEF o, taken
    <2>13. \A p \in 1..n : p > o => ~built'[p].served
        <3>1. \A p \in 1..n : p > o => p > m /\ p # o
            BY <1>8 DEF o
        <3> QED
            BY <1>1, <1>3, <2>6, <3>1 DEF Decided
    <2>14. ASSUME NEW p \in 1..o, built'[p].served PROVE Holding(taken, built'[p].route)
        <3>1. CASE p \in 1..m
            <4>1. built[p].served /\ built'[p].route = built[p].route
                BY <2>6, <2>9, <2>14, <3>1
            <4>2. Holding(router, built[p].route)
                BY <1>3, <3>1, <4>1 DEF Decided
            <4> QED
                BY <2>10, <4>1, <4>2 DEF Holding
        <3>2. CASE p = o
            <4>1. built'[p].route = r /\ (inserted \/ Holding(router, r))
                BY <1>4, <2>6, <2>7, <2>14, <3>2
            <4> QED
                BY <2>5, <2>10, <2>12, <4>1 DEF Holding
        <3> QED
            BY <1>7, <3>1, <3>2
    <2>15. ASSUME NEW p \in 1..o, ~built'[p].served, ~built'[p].variant
           PROVE  ~Holding(taken, built'[p].route) /\ Refusing(taken, built'[p].route)
        <3>1. /\ built'[p].route = built[p].route
              /\ ~Holding(router, built[p].route) /\ Refusing(router, built[p].route)
            <4>1. CASE p \in 1..m
                <5>1. /\ ~built[p].served /\ ~built[p].variant
                      /\ built'[p].route = built[p].route
                    BY <2>6, <2>9, <2>15, <4>1
                <5> QED
                    BY <1>3, <4>1, <5>1 DEF Decided
            <4>2. CASE p = o
                BY <1>4, <2>4, <2>6, <2>7, <2>15, <4>2
            <4> QED
                BY <1>7, <4>1, <4>2
        <3>2. inserted => r # built[p].route
            BY <2>4, <3>1
        <3>3. ~Holding(taken, built[p].route)
            BY <2>5, <2>11, <3>1, <3>2 DEF Holding
        <3>4. Refusing(taken, built[p].route)
            BY <2>10, <3>1 DEF Refusing
        <3> QED
            BY <3>1, <3>3, <3>4
    <2>16. ASSUME NEW t \in taken
           PROVE  \E p \in 1..o : built'[p].served /\ built'[p].route = t.route
        <3>1. CASE t \in router
            <4>1. PICK p \in 1..m : built[p].served /\ built[p].route = t.route
                BY <1>3, <3>1 DEF Decided
            <4> QED
                BY <2>6, <2>9, <4>1
        <3>2. CASE inserted /\ t = new
            <4>1. built'[o].served /\ built'[o].route = t.route /\ o \in 1..o
                BY <1>4, <2>5, <2>6, <2>7, <3>2
            <4> QED
                BY <4>1
        <3> QED
            BY <2>11, <3>1, <3>2
    <2>17. \A t \in taken : ~OldCapture(t.route) /\ ~RouterRefuses(t.route)
        BY <1>3, <2>4, <2>5, <2>11 DEF Decided, Refusing
    <2>18. ASSUME NEW s \in taken, NEW t \in taken, Conflict(s.route, t.route)
           PROVE  s.route = t.route
        <3>1. CASE s \in router /\ t \in router
            BY <1>3, <2>18, <3>1 DEF Decided
        <3>2. CASE s \in router /\ inserted /\ t = new
            BY <2>4, <2>5, <2>18, <3>2 DEF Refusing
        <3>3. CASE t \in router /\ inserted /\ s = new
            BY <2>4, <2>5, <2>18, <3>3 DEF Refusing, Conflict
        <3> QED
            BY <2>11, <3>1, <3>2, <3>3
    <2>19. Decided(o, built', taken)
        BY <2>8, <2>13, <2>14, <2>15, <2>16, <2>17, <2>18 DEF Decided
    <2>20. \E k \in 0..Len(built') : unasked' = Behind(k, Len(built')) /\ Decided(k, built', router')
        BY <1>2, <1>4, <1>8, <2>6, <2>19 DEF taken
    <2> QED
        BY <1>2, <2>6, <2>20 DEF Registering
<1> QED
    BY <1>9, <1>10

(* The other actions leave operations and router as they are.               *)
LEMMA RestRegisters ==
    ASSUME Registering,
           Visit \/ NameSetter \/ Modelled \/ Rest \/ UNCHANGED operationVars
    PROVE  Registering'
<1>1. /\ built' = built /\ router' = router /\ unasked' = unasked
      /\ \/ stage' = stage
         \/ stage = "headers" /\ unasked = << >> /\ stage' = "modelled"
    BY DEF Visit, NameSetter, Modelled, Rest, operationVars
<1> QED
    BY <1>1 DEF Registering

-----------------------------------------------------------------------------
(* The theorems.                                                            *)

(* The invariant of the questions the router is asked, for every document.  *)
THEOREM AlwaysRegistering == OperationsSpec => []Registering
<1>1. OperationsInit => Registering
    <2> SUFFICES ASSUME OperationsInit PROVE Registering
        OBVIOUS
    <2>1. built = << >> /\ router = {} /\ stage = "walk"
        BY DEF OperationsInit
    <2>2. Entries(<< >>)
        BY DEF Entries
    <2> QED
        BY <2>1, <2>2 DEF Registering
<1>2. Registering /\ [OperationsNext]_operationVars => Registering'
    BY ClaimRegisters, WalkedRegisters, NameHeadersRegisters, AskRouterRegisters,
       RestRegisters DEF OperationsNext
<1> QED
    BY <1>1, <1>2, PTL DEF OperationsSpec

(* Whatever a document's paths, one router takes all the routes that are    *)
(* served, and refuses every route that is not, also when asked last        *)
(* (registrable::classify).                                                 *)
THEOREM ServedTogether == OperationsSpec => []RoutesServed
<1>1. Registering => RoutesServed
    <2> SUFFICES ASSUME Registering, stage = "modelled" PROVE RoutesServed
        BY DEF RoutesServed
    <2> DEFINE n == Len(built)
               served == {built[o].route : o \in {p \in DOMAIN built : built[p].served}}
    <2>1. n \in Nat /\ DOMAIN built = 1..n
        BY DEF Registering, Entries
    <2>2. PICK m \in 0..n : unasked = Behind(m, n) /\ Decided(m, built, router)
        BY DEF Registering
    <2>3. m = n
        <3>1. unasked = << >>
            BY DEF Registering
        <3>2. DOMAIN Behind(m, n) = 1..(n - m)
            BY DEF Behind
        <3>3. DOMAIN Behind(m, n) = {}
            BY <2>2, <3>1
        <3>4. m < n => 1 \in 1..(n - m)
            BY <2>1, <2>2
        <3>5. ~(m < n)
            BY <3>2, <3>3, <3>4
        <3>6. m \in 0..n
            BY <2>2
        <3> HIDE DEF n
        <3> QED
            BY <2>1, <3>5, <3>6
    <2>4. Decided(n, built, router)
        BY <2>2, <2>3
    <2> HIDE DEF n
    <2>5. \A r \in served : Holding(router, r)
        BY <2>1, <2>4 DEF Decided
    <2>6. \A t \in router : t.route \in served
        BY <2>1, <2>4 DEF Decided
    <2>7. ASSUME NEW r \in served PROVE ~OldCapture(r) /\ ~RouterRefuses(r)
        <3>1. PICK q \in router : q.route = r
            BY <2>5 DEF Holding
        <3> QED
            BY <2>4, <3>1 DEF Decided
    <2>8. ASSUME NEW r \in served, NEW t \in served, Conflict(r, t) PROVE r = t
        <3>1. PICK q \in router : q.route = r
            BY <2>5 DEF Holding
        <3>2. PICK u \in router : u.route = t
            BY <2>5 DEF Holding
        <3> QED
            BY <2>4, <2>8, <3>1, <3>2 DEF Decided
    <2>9. \A o \in DOMAIN built : built[o].served =>
              \A p \in DOMAIN built : built[p].route = built[o].route =>
                  built[p].served \/ built[p].variant
        BY <2>1, <2>4 DEF Decided
    <2>10. \A o \in DOMAIN built : ~built[o].served =>
              \/ built[o].variant
              \/ OldCapture(built[o].route) \/ RouterRefuses(built[o].route)
              \/ \E r \in served : Conflict(r, built[o].route)
        BY <2>1, <2>4, <2>6 DEF Decided, Refusing
    <2> QED
        BY <2>7, <2>8, <2>9, <2>10 DEF RoutesServed
<1> QED
    BY <1>1, AlwaysRegistering, PTL

==========================================================================
