--------------------------- MODULE MultipartProofs ---------------------------
(* Proofs about Multipart: whatever the parts hold, and however many        *)
(* boundaries their texts spell, the boundary that is chosen stands in the  *)
(* body once before each part and once at its end. (TypeGraphProofs lends   *)
(* its induction up to a number and its functions defined by recursion.)    *)
EXTENDS Multipart, TypeGraphProofs

\* What makes a text a boundary a reader can find: it starts with a token it holds
\* nowhere else, and holds none of those that separate what is framed.
Boundary(text) ==
    /\ text \in Seq(Letter)
    /\ Len(text) >= 1
    /\ text[1] = St
    /\ \A k \in 2..Len(text) : text[k] # St
    /\ \A k \in 1..Len(text) : text[k] # Break /\ text[k] # Other

-----------------------------------------------------------------------------
(* Texts put together.                                                      *)

(* Where the letters of two texts are when one continues the other.         *)
LEMMA Concatenated ==
    ASSUME NEW a \in Seq(Letter), NEW b \in Seq(Letter)
    PROVE  /\ a \o b \in Seq(Letter)
           /\ Len(a \o b) = Len(a) + Len(b)
           /\ DOMAIN (a \o b) = 1..(Len(a) + Len(b))
           /\ \A i \in 1..Len(a) : (a \o b)[i] = a[i]
           /\ \A i \in 1..Len(b) : (a \o b)[Len(a) + i] = b[i]
    OBVIOUS

-----------------------------------------------------------------------------
(* Numbers and their digits.                                                *)

(* The digits of a number are digits.                                       *)
LEMMA DecimalDigits ==
    ASSUME NEW n \in Nat PROVE Decimal(n) \in Seq(0..(Radix - 1))
<1> DEFINE D == 0..(Radix - 1)
           step(f, k) == IF k < Radix THEN <<k>> ELSE Append(f[k \div Radix], k % Radix)
           Is(f, m) == f = [k \in 0..m |-> step(f, k)]
           Holds1(f, m) == Is(f, m) /\ \A k \in 0..m : f[k] \in Seq(D)
           P == {m \in 0..n : \E f : Holds1(f, m)}
<1>1. Radix \in Nat /\ Radix > 1
    BY WidthAssumption
<1>2. ASSUME NEW k \in Nat, k >= Radix PROVE k \div Radix \in 0..(k - 1) /\ k % Radix \in D
    BY <1>1, <1>2
<1>3. ASSUME NEW f, NEW k \in Nat, \A j \in 0..(k - 1) : f[j] \in Seq(D)
      PROVE  step(f, k) \in Seq(D)
    <2>1. CASE k < Radix
        BY <1>1, <2>1
    <2>2. CASE k >= Radix
        <3>1. f[k \div Radix] \in Seq(D) /\ k % Radix \in D
            BY <1>2, <1>3, <2>2
        <3> HIDE DEF D
        <3>2. Append(f[k \div Radix], k % Radix) \in Seq(D)
            BY <3>1
        <3> QED
            BY <1>1, <2>2, <3>2
    <2> QED
        BY <1>1, <2>1, <2>2
<1> HIDE DEF step
<1>4. 0 \in P
    <2> DEFINE f == [k \in 0..0 |-> <<k>>]
    <2>1. Is(f, 0)
        BY <1>1 DEF step
    <2>2. \A k \in 0..0 : f[k] \in Seq(D)
        BY <1>1
    <2> HIDE DEF f, Is, D
    <2>3. \E g : Holds1(g, 0)
        BY <2>1, <2>2
    <2> QED
        BY <2>3
<1>5. ASSUME NEW m \in 1..n, m - 1 \in P PROVE m \in P
    <2>1. PICK g : Holds1(g, m - 1)
        BY <1>5
    <2> DEFINE f == [k \in 0..m |-> IF k = m THEN step(g, m) ELSE g[k]]
    <2>2. \A k \in 0..(m - 1) : f[k] = g[k]
        OBVIOUS
    <2>3. f[m] = step(g, m)
        OBVIOUS
    <2>4. \A k \in 0..(m - 1) : g[k] = step(g, k)
        BY <2>1
    <2>5. ASSUME NEW k \in 0..m PROVE step(f, k) = step(g, k)
        <3>1. CASE k < Radix
            BY <3>1 DEF step
        <3>2. CASE k >= Radix
            <4>1. k \div Radix \in 0..(k - 1)
                BY <1>2, <3>2
            <4>2. f[k \div Radix] = g[k \div Radix]
                BY <2>2, <4>1
            <4> HIDE DEF f
            <4> QED
                BY <1>1, <3>2, <4>2 DEF step
        <3> QED
            BY <1>1, <3>1, <3>2
    <2>6. Is(f, m)
        <3>1. \A k \in 0..m : f[k] = step(f, k)
            <4> SUFFICES ASSUME NEW k \in 0..m PROVE f[k] = step(f, k)
                OBVIOUS
            <4>1. CASE k = m
                BY <2>3, <2>5, <4>1
            <4>2. CASE k # m
                <5>1. k \in 0..(m - 1)
                    BY <4>2
                <5> QED
                    BY <2>2, <2>4, <2>5, <5>1
            <4> QED
                BY <4>1, <4>2
        <3>2. f = [k \in 0..m |-> f[k]]
            OBVIOUS
        <3> HIDE DEF f
        <3> QED
            BY <3>1, <3>2
    <2>7. \A k \in 0..m : f[k] \in Seq(D)
        <3>1. \A k \in 0..(m - 1) : f[k] \in Seq(D)
            BY <2>1, <2>2
        <3>2. step(g, m) \in Seq(D)
            <4>1. m \in Nat /\ \A j \in 0..(m - 1) : g[j] \in Seq(D)
                BY <2>1
            <4> HIDE DEF D, Is
            <4> QED
                BY <1>3, <4>1
        <3>3. f[m] \in Seq(D)
            BY <2>3, <3>2
        <3> HIDE DEF f
        <3> QED
            BY <3>1, <3>3
    <2> HIDE DEF f, Is
    <2> QED
        BY <2>6, <2>7
<1> HIDE DEF P
<1>6. n \in P
    BY <1>4, <1>5, UpTo
<1>7. \E f : Holds1(f, n)
    BY <1>6 DEF P
<1> DEFINE digits == CHOOSE f : Is(f, n)
<1>8. Is(digits, n)
    BY <1>7
<1>9. Decimal(n) = digits[n]
    BY DEF Decimal, step
<1> HIDE DEF digits
<1> DEFINE Q == {m \in 0..n : \A k \in 0..m : digits[k] \in Seq(D)}
<1>10. \A k \in 0..n : digits[k] = step(digits, k)
    BY <1>8
<1>11. 0 \in Q
    <2>1. digits[0] = <<0>>
        <3>1. 0 \in 0..n /\ 0 < Radix
            BY <1>1
        <3>2. digits[0] = step(digits, 0)
            BY <1>10, <3>1
        <3> QED
            BY <3>1, <3>2 DEF step
    <2>2. <<0>> \in Seq(D)
        BY <1>1
    <2>3. \A k \in 0..0 : k = 0
        OBVIOUS
    <2>4. 0 \in 0..n
        OBVIOUS
    <2> HIDE DEF D
    <2>5. \A k \in 0..0 : digits[k] \in Seq(D)
        BY <2>1, <2>2, <2>3
    <2> QED
        BY <2>4, <2>5
<1>12. ASSUME NEW m \in 1..n, m - 1 \in Q PROVE m \in Q
    <2>1. digits[m] = step(digits, m)
        BY <1>10
    <2>2. step(digits, m) \in Seq(D)
        <3>1. m \in Nat /\ \A j \in 0..(m - 1) : digits[j] \in Seq(D)
            BY <1>12
        <3> HIDE DEF D
        <3> QED
            BY <1>3, <3>1
    <2>3. \A k \in 0..m : k \in 0..(m - 1) \/ k = m
        OBVIOUS
    <2> QED
        BY <1>12, <2>1, <2>2, <2>3
<1> HIDE DEF Q
<1>13. n \in Q
    BY <1>11, <1>12, UpTo
<1>14. digits[n] \in Seq(D)
    BY <1>13 DEF Q
<1> QED
    BY <1>9, <1>14

(* Every candidate is a boundary.                                           *)
LEMMA CandidateBoundary ==
    ASSUME NEW n \in Nat PROVE Boundary(Candidate(n))
<1>1. Radix \in Nat /\ Radix > 1
    BY WidthAssumption
<1>2. /\ Stem \in Seq(Letter) /\ Len(Stem) = 2 /\ Stem[1] = St /\ Stem[2] = Em
      /\ Em # St /\ Em # Break /\ Em # Other /\ St # Break /\ St # Other
      /\ Dash # St /\ Dash # Break /\ Dash # Other
      /\ St \in Letter /\ Dash \in Letter /\ Em \in Letter
    BY <1>1 DEF Stem, Letter, St, Em, Dash, Break, Other
<1>3. \A d \in 0..(Radix - 1) : d \in Letter /\ d # St /\ d # Break /\ d # Other
    BY <1>1 DEF Letter, St, Break, Other
<1> DEFINE s == Stem
<1> HIDE DEF s
<1>4. CASE n = 0
    <2>1. Candidate(n) = s
        BY <1>4 DEF Candidate, s
    <2>2. s \in Seq(Letter) /\ Len(s) = 2 /\ s[1] = St /\ s[2] = Em
        BY <1>2 DEF s
    <2>3. \A k \in 1..Len(s) : k = 1 \/ k = 2
        BY <2>2
    <2>4. \A k \in 2..Len(s) : k = 2
        BY <2>2
    <2>5. \A k \in 1..Len(s) : s[k] # Break /\ s[k] # Other
        BY <1>2, <2>2, <2>3
    <2>6. \A k \in 2..Len(s) : s[k] # St
        BY <1>2, <2>2, <2>4
    <2>7. Boundary(s)
        <3>1. Len(s) >= 1
            BY <2>2
        <3> QED
            BY <2>2, <2>5, <2>6, <3>1 DEF Boundary
    <2> QED
        BY <2>1, <2>7
<1>5. CASE n # 0
    <2> DEFINE S == 0..(Radix - 1)
               d == Decimal(n)
               c == Stem \o <<Dash>> \o d
               len == Len(d)
    <2>1. d \in Seq(S)
        BY DecimalDigits
    <2> HIDE DEF d
    <2>2. len \in Nat /\ \A k \in 1..len : d[k] \in S
        <3> HIDE DEF S
        <3> QED
            BY <2>1
    <2>3. d \in Seq(Letter)
        BY <1>3, <2>1, <2>2
    <2>4. Stem \o <<Dash>> \in Seq(Letter) /\ Len(Stem \o <<Dash>>) = 3
          /\ (Stem \o <<Dash>>)[1] = St /\ (Stem \o <<Dash>>)[2] = Em
          /\ (Stem \o <<Dash>>)[3] = Dash
        <3> DEFINE dash == <<Dash>>
        <3>1. dash \in Seq(Letter) /\ Len(dash) = 1 /\ dash[1] = Dash
            BY <1>2
        <3>2. s \in Seq(Letter) /\ Len(s) = 2 /\ s[1] = St /\ s[2] = Em
            BY <1>2 DEF s
        <3> HIDE DEF dash
        <3>3. /\ s \o dash \in Seq(Letter) /\ Len(s \o dash) = 2 + 1
              /\ \A i \in 1..2 : (s \o dash)[i] = s[i]
              /\ \A i \in 1..1 : (s \o dash)[2 + i] = dash[i]
            <4>1. Len(s) = 2 /\ Len(dash) = 1 /\ s \in Seq(Letter) /\ dash \in Seq(Letter)
                BY <3>1, <3>2
            <4>2. /\ s \o dash \in Seq(Letter) /\ Len(s \o dash) = Len(s) + Len(dash)
                  /\ \A i \in 1..Len(s) : (s \o dash)[i] = s[i]
                  /\ \A i \in 1..Len(dash) : (s \o dash)[Len(s) + i] = dash[i]
                BY <4>1, Concatenated
            <4> QED
                BY <4>1, <4>2
        <3>4. (s \o dash)[1] = s[1] /\ (s \o dash)[2] = s[2] /\ (s \o dash)[3] = dash[1]
            <4>1. 1 \in 1..2 /\ 2 \in 1..2 /\ 1 \in 1..1 /\ 2 + 1 = 3
                OBVIOUS
            <4> QED
                BY <3>3, <4>1
        <3>5. s \o dash = Stem \o <<Dash>>
            BY DEF s, dash
        <3> QED
            BY <3>1, <3>2, <3>3, <3>4, <3>5
    <2>5. /\ c \in Seq(Letter) /\ Len(c) = 3 + len
          /\ c[1] = St /\ c[2] = Em /\ c[3] = Dash
          /\ \A k \in 1..len : c[3 + k] = d[k]
        BY <2>2, <2>3, <2>4
    <2>6. \A k \in 1..(3 + len) : k = 1 \/ k = 2 \/ k = 3 \/ (k - 3 \in 1..len /\ k = 3 + (k - 3))
        BY <2>2
    <2> HIDE DEF c
    <2>7. \A k \in 1..(3 + len) : c[k] = St \/ c[k] = Em \/ c[k] = Dash \/ c[k] \in 0..(Radix - 1)
        BY <2>2, <2>5, <2>6
    <2>8. ASSUME NEW k \in 2..(3 + len) PROVE c[k] # St
        <3>1. k \in 1..(3 + len) /\ k # 1
            BY <2>2
        <3>2. k = 2 \/ k = 3 \/ (k - 3 \in 1..len /\ k = 3 + (k - 3))
            BY <2>6, <3>1
        <3>3. CASE k = 2 \/ k = 3
            BY <1>2, <2>5, <3>3
        <3>4. CASE k - 3 \in 1..len /\ k = 3 + (k - 3)
            <4>1. c[k] = d[k - 3] /\ d[k - 3] \in S
                BY <2>2, <2>5, <3>4
            <4> QED
                BY <1>3, <4>1
        <3> QED
            BY <3>2, <3>3, <3>4
    <2>9. Candidate(n) = c
        BY <1>5 DEF Candidate, c, d
    <2>10. \A k \in 1..Len(c) : c[k] # Break /\ c[k] # Other
        BY <1>2, <1>3, <2>5, <2>7
    <2> QED
        BY <2>2, <2>5, <2>8, <2>9, <2>10 DEF Boundary
<1> QED
    BY <1>4, <1>5

-----------------------------------------------------------------------------
(* Where a boundary stands in a text that is put together.                  *)

\* The occurrences of a text in the second of two texts, counted from the first.
Shifted(n, at) == {n + i : i \in at}

(* A boundary in a text that was continued stands in one of the two, if the *)
(* first ends with a token no boundary holds.                               *)
LEMMA Continued ==
    ASSUME NEW c, Boundary(c), NEW a \in Seq(Letter), NEW b \in Seq(Letter),
           a # << >> => a[Len(a)] \in {Break, Other}
    PROVE  Occurrences(c, a \o b) = Occurrences(c, a) \cup Shifted(Len(a), Occurrences(c, b))
<1> DEFINE t == a \o b
           m == Len(a)
           n == Len(b)
           len == Len(c)
<1>1. /\ m \in Nat /\ n \in Nat /\ len \in Nat /\ len >= 1
      /\ DOMAIN a = 1..m /\ DOMAIN b = 1..n /\ DOMAIN c = 1..len
    BY DEF Boundary
<1>2. /\ Len(t) = m + n /\ DOMAIN t = 1..(m + n)
      /\ \A i \in 1..m : t[i] = a[i]
      /\ \A i \in 1..n : t[m + i] = b[i]
    BY <1>1
<1>3. \A k \in 1..len : c[k] # Break /\ c[k] # Other
    BY DEF Boundary
<1> HIDE DEF t, m, n, len
<1>4. \A x : /\ x \in Occurrences(c, a) <=>
                    x \in 1..m /\ x + len - 1 <= m /\ \A k \in 1..len : a[x + k - 1] = c[k]
             /\ x \in Occurrences(c, b) <=>
                    x \in 1..n /\ x + len - 1 <= n /\ \A k \in 1..len : b[x + k - 1] = c[k]
             /\ x \in Occurrences(c, t) <=>
                    /\ x \in 1..(m + n) /\ x + len - 1 <= m + n
                    /\ \A k \in 1..len : t[x + k - 1] = c[k]
    BY <1>1, <1>2 DEF Occurrences, OccursAt, m, n, len
<1>5. ASSUME NEW x \in Occurrences(c, a) PROVE x \in Occurrences(c, t)
    <2>1. x \in 1..m /\ x + len - 1 <= m /\ \A k \in 1..len : a[x + k - 1] = c[k]
        BY <1>4
    <2>2. \A k \in 1..len : x + k - 1 \in 1..m
        BY <1>1, <2>1
    <2>3. \A k \in 1..len : t[x + k - 1] = c[k]
        BY <1>2, <2>1, <2>2
    <2>4. x \in 1..(m + n) /\ x + len - 1 <= m + n
        BY <1>1, <2>1
    <2> QED
        BY <1>4, <2>3, <2>4
<1>6. ASSUME NEW y \in Occurrences(c, b) PROVE m + y \in Occurrences(c, t)
    <2>1. y \in 1..n /\ y + len - 1 <= n /\ \A k \in 1..len : b[y + k - 1] = c[k]
        BY <1>4
    <2>2. \A k \in 1..len : y + k - 1 \in 1..n
        BY <1>1, <2>1
    <2>5. \A k \in 1..len : (m + y) + k - 1 = m + (y + k - 1)
        BY <1>1, <2>1
    <2>3. \A k \in 1..len : t[(m + y) + k - 1] = c[k]
        BY <1>2, <2>1, <2>2, <2>5
    <2>4. m + y \in 1..(m + n) /\ (m + y) + len - 1 <= m + n
        BY <1>1, <2>1
    <2> QED
        BY <1>4, <2>3, <2>4
<1>7. ASSUME NEW x \in Occurrences(c, t)
      PROVE  x \in Occurrences(c, a) \/ \E y \in Occurrences(c, b) : x = m + y
    <2>1. /\ x \in 1..(m + n) /\ x + len - 1 <= m + n
          /\ \A k \in 1..len : t[x + k - 1] = c[k]
        BY <1>4
    <2>2. CASE x + len - 1 <= m
        <3>1. \A k \in 1..len : x + k - 1 \in 1..m
            BY <1>1, <2>1, <2>2
        <3>2. x \in 1..m
            BY <1>1, <2>1, <2>2
        <3>3. \A k \in 1..len : a[x + k - 1] = c[k]
            BY <1>2, <2>1, <3>1
        <3> QED
            BY <1>4, <2>2, <3>2, <3>3
    <2>3. CASE x > m
        <3> DEFINE y == x - m
        <3>1. /\ y \in 1..n /\ x = m + y /\ y + len - 1 <= n
              /\ \A k \in 1..len : y + k - 1 \in 1..n /\ x + k - 1 = m + (y + k - 1)
            BY <1>1, <2>1, <2>3
        <3>2. \A k \in 1..len : b[y + k - 1] = c[k]
            BY <1>2, <2>1, <3>1
        <3> HIDE DEF y
        <3>3. y \in Occurrences(c, b)
            BY <1>4, <3>1, <3>2
        <3> QED
            BY <3>1, <3>3
    <2>4. CASE x <= m /\ x + len - 1 > m
        <3> DEFINE k == m - x + 1
        <3>1. k \in 1..len /\ x + k - 1 = m /\ m \in 1..m
            BY <1>1, <2>1, <2>4
        <3>2. t[m] = c[k]
            BY <2>1, <3>1
        <3>3. t[m] = a[m]
            BY <1>2, <3>1
        <3>4. a # << >>
            BY <1>1, <3>1 DEF m
        <3>5. a[m] \in {Break, Other}
            BY <3>4 DEF m
        <3> HIDE DEF k
        <3> QED
            BY <1>3, <3>1, <3>2, <3>3, <3>5
    <2> QED
        BY <1>1, <2>1, <2>2, <2>3, <2>4
<1>8. \A x : x \in Occurrences(c, t) <=>
          x \in Occurrences(c, a) \/ x \in Shifted(m, Occurrences(c, b))
    BY <1>5, <1>6, <1>7 DEF Shifted
<1> QED
    BY <1>8 DEF t, m

(* A separator after a text starts no boundary there.                       *)
LEMMA Separated ==
    ASSUME NEW c, Boundary(c), NEW a \in Seq(Letter), NEW x \in {Break, Other}
    PROVE  /\ a \o <<x>> \in Seq(Letter)
           /\ a \o <<x>> # << >>
           /\ (a \o <<x>>)[Len(a \o <<x>>)] = x
           /\ Occurrences(c, a \o <<x>>) = Occurrences(c, a)
<1> DEFINE t == a \o <<x>>
           m == Len(a)
           len == Len(c)
           one == <<x>>
<1>1. x \in Letter
    BY WidthAssumption DEF Letter, Break, Other
<1>2. one \in Seq(Letter) /\ Len(one) = 1 /\ one[1] = x
    BY <1>1
<1>3. m \in Nat /\ len \in Nat /\ len >= 1 /\ DOMAIN a = 1..m /\ DOMAIN c = 1..len
    BY DEF Boundary
<1> HIDE DEF one
<1>4. /\ a \o one \in Seq(Letter) /\ Len(a \o one) = m + 1 /\ DOMAIN (a \o one) = 1..(m + 1)
      /\ \A i \in 1..m : (a \o one)[i] = a[i]
      /\ \A i \in 1..1 : (a \o one)[m + i] = one[i]
    BY <1>2, Concatenated
<1>5. t = a \o one
    BY DEF one
<1> HIDE DEF t
<1>6. /\ t \in Seq(Letter) /\ Len(t) = m + 1 /\ DOMAIN t = 1..(m + 1)
      /\ \A i \in 1..m : t[i] = a[i]
      /\ t[m + 1] = x
    <2>1. 1 \in 1..1
        OBVIOUS
    <2> QED
        BY <1>2, <1>4, <1>5, <2>1
<1>7. \A k \in 1..len : c[k] # x
    BY <1>3 DEF Boundary
<1> HIDE DEF m, len
<1>8. \A i : /\ i \in Occurrences(c, a) <=>
                    i \in 1..m /\ i + len - 1 <= m /\ \A k \in 1..len : a[i + k - 1] = c[k]
             /\ i \in Occurrences(c, t) <=>
                    /\ i \in 1..(m + 1) /\ i + len - 1 <= m + 1
                    /\ \A k \in 1..len : t[i + k - 1] = c[k]
    BY <1>3, <1>6 DEF Occurrences, OccursAt, m, len
<1>9. ASSUME NEW i \in Occurrences(c, a) PROVE i \in Occurrences(c, t)
    <2>1. i \in 1..m /\ i + len - 1 <= m /\ \A k \in 1..len : a[i + k - 1] = c[k]
        BY <1>8
    <2>2. \A k \in 1..len : i + k - 1 \in 1..m
        BY <1>3, <2>1
    <2>3. \A k \in 1..len : t[i + k - 1] = c[k]
        BY <1>6, <2>1, <2>2
    <2>4. i \in 1..(m + 1) /\ i + len - 1 <= m + 1
        BY <1>3, <2>1
    <2> QED
        BY <1>8, <2>3, <2>4
<1>10. ASSUME NEW i \in Occurrences(c, t) PROVE i \in Occurrences(c, a)
    <2>1. i \in 1..(m + 1) /\ i + len - 1 <= m + 1 /\ \A k \in 1..len : t[i + k - 1] = c[k]
        BY <1>8
    <2>2. i + len - 1 # m + 1
        <3> SUFFICES ASSUME i + len - 1 = m + 1 PROVE FALSE
            OBVIOUS
        <3>1. len \in 1..len
            BY <1>3
        <3>2. t[i + len - 1] = c[len]
            BY <2>1, <3>1
        <3> QED
            BY <1>6, <1>7, <3>1, <3>2
    <2>3. i \in 1..m /\ i + len - 1 <= m /\ \A k \in 1..len : i + k - 1 \in 1..m
        BY <1>3, <2>1, <2>2
    <2>4. \A k \in 1..len : a[i + k - 1] = c[k]
        BY <1>6, <2>1, <2>3
    <2> QED
        BY <1>8, <2>3, <2>4
<1>11. Occurrences(c, t) = Occurrences(c, a)
    BY <1>9, <1>10
<1>12. t # << >>
    <2>1. Len(<< >>) = 0
        OBVIOUS
    <2> QED
        BY <1>3, <1>6, <2>1
<1> QED
    BY <1>6, <1>11, <1>12 DEF t

(* A delimiter holds its boundary once, behind its two dashes, and so does  *)
(* the last one, with two more at its end.                                  *)
LEMMA DelimiterOnce ==
    ASSUME NEW c, Boundary(c), NEW tail \in Seq(Letter),
           \A k \in 1..Len(tail) : tail[k] # St
    PROVE  /\ <<Dash, Dash>> \o c \o tail \in Seq(Letter)
           /\ Occurrences(c, <<Dash, Dash>> \o c \o tail) = {3}
<1> DEFINE dashes == <<Dash, Dash>>
           len == Len(c)
           n == Len(tail)
           d == dashes \o c
           t == d \o tail
<1>1. Dash \in Letter /\ Dash # St
    BY WidthAssumption DEF Letter, Dash, St
<1>2. dashes \in Seq(Letter) /\ Len(dashes) = 2 /\ dashes[1] = Dash /\ dashes[2] = Dash
    BY <1>1
<1>3. c \in Seq(Letter) /\ len \in Nat /\ len >= 1 /\ n \in Nat
      /\ DOMAIN c = 1..len /\ c[1] = St /\ \A k \in 2..len : c[k] # St
    BY DEF Boundary
<1> HIDE DEF dashes
<1>4. /\ d \in Seq(Letter) /\ Len(d) = 2 + len
      /\ \A i \in 1..2 : d[i] = dashes[i]
      /\ \A i \in 1..len : d[2 + i] = c[i]
    <2>1. /\ dashes \o c \in Seq(Letter) /\ Len(dashes \o c) = Len(dashes) + Len(c)
          /\ \A i \in 1..Len(dashes) : (dashes \o c)[i] = dashes[i]
          /\ \A i \in 1..Len(c) : (dashes \o c)[Len(dashes) + i] = c[i]
        BY <1>2, <1>3, Concatenated
    <2>2. Len(dashes) = 2
        BY <1>2
    <2> QED
        BY <2>1, <2>2
<1> HIDE DEF d
<1>5. /\ t \in Seq(Letter) /\ Len(t) = 2 + len + n
      /\ \A i \in 1..(2 + len) : t[i] = d[i]
      /\ \A i \in 1..n : t[2 + len + i] = tail[i]
    <2>1. /\ d \o tail \in Seq(Letter) /\ Len(d \o tail) = Len(d) + Len(tail)
          /\ \A i \in 1..Len(d) : (d \o tail)[i] = d[i]
          /\ \A i \in 1..Len(tail) : (d \o tail)[Len(d) + i] = tail[i]
        BY <1>4, Concatenated
    <2>2. Len(d) = 2 + len
        BY <1>4
    <2> QED
        BY <2>1, <2>2
<1> HIDE DEF t
<1>6. DOMAIN t = 1..(2 + len + n)
    BY <1>3, <1>5
<1> HIDE DEF len, n
<1>7. \A k \in 1..len : t[2 + k] = c[k]
    <2>1. \A k \in 1..len : 2 + k \in 1..(2 + len)
        BY <1>3
    <2> QED
        BY <1>4, <1>5, <2>1
<1>8. \A i \in 1..(2 + len + n) : t[i] = St => i = 3
    <2> SUFFICES ASSUME NEW i \in 1..(2 + len + n), i # 3 PROVE t[i] # St
        OBVIOUS
    <2>1. CASE i <= 2
        <3>1. i \in 1..(2 + len) /\ i \in 1..2 /\ (i = 1 \/ i = 2)
            BY <1>3, <2>1
        <3> QED
            BY <1>1, <1>2, <1>4, <1>5, <3>1
    <2>2. CASE i > 2 /\ i <= 2 + len
        <3>1. i \in 1..(2 + len) /\ i - 2 \in 2..len /\ i - 2 \in 1..len /\ 2 + (i - 2) = i
            BY <1>3, <2>2
        <3> QED
            BY <1>3, <1>7, <3>1
    <2>3. CASE i > 2 + len
        <3>1. i - (2 + len) \in 1..n /\ 2 + len + (i - (2 + len)) = i
            BY <1>3, <2>3
        <3> QED
            BY <1>5, <3>1 DEF n
    <2> QED
        BY <1>3, <2>1, <2>2, <2>3
<1>9. \A i : i \in Occurrences(c, t) <=>
          /\ i \in 1..(2 + len + n) /\ i + len - 1 <= 2 + len + n
          /\ \A k \in 1..len : t[i + k - 1] = c[k]
    BY <1>3, <1>5, <1>6 DEF Occurrences, OccursAt, len
<1>10. 3 \in Occurrences(c, t)
    <2>1. 3 \in 1..(2 + len + n) /\ 3 + len - 1 <= 2 + len + n
          /\ \A k \in 1..len : 3 + k - 1 = 2 + k
        BY <1>3
    <2>2. \A k \in 1..len : t[3 + k - 1] = c[k]
        BY <1>7, <2>1
    <2> QED
        BY <1>9, <2>1, <2>2
<1>11. ASSUME NEW i \in Occurrences(c, t) PROVE i = 3
    <2>1. i \in 1..(2 + len + n) /\ \A k \in 1..len : t[i + k - 1] = c[k]
        BY <1>9
    <2>2. 1 \in 1..len /\ i + 1 - 1 = i
        BY <1>3, <2>1
    <2>3. t[i] = St
        BY <1>3, <2>1, <2>2
    <2> QED
        BY <1>8, <2>1, <2>3
<1> QED
    BY <1>5, <1>10, <1>11 DEF t, d, dashes

(* A text without the boundary adds none, behind a separator.               *)
LEMMA ContinuedByNone ==
    ASSUME NEW c, Boundary(c), NEW a \in Seq(Letter), NEW b \in Seq(Letter),
           a # << >> => a[Len(a)] \in {Break, Other}, Occurrences(c, b) = {}
    PROVE  a \o b \in Seq(Letter) /\ Occurrences(c, a \o b) = Occurrences(c, a)
<1>1. Shifted(Len(a), Occurrences(c, b)) = {}
    BY DEF Shifted
<1>2. Occurrences(c, a \o b) = Occurrences(c, a) \cup Shifted(Len(a), Occurrences(c, b))
    BY Continued
<1>3. a \o b \in Seq(Letter)
    BY Concatenated
<1> QED
    BY <1>1, <1>2, <1>3

(* What a header becomes is a text.                                         *)
LEMMA QuotedText ==
    ASSUME NEW text \in Seq(Letter) PROVE Quoted(text) \in Seq(Letter)
<1> DEFINE n == Len(text)
           X == Seq(Letter)
           after(s, k) == IF text[k] = Break THEN s ELSE Append(s, text[k])
           step == [k \in 1..n |-> [s \in X |-> after(s, k)]]
           Is(f) == f = [k \in 0..n |-> IF k = 0 THEN << >> ELSE after(f[k - 1], k)]
<1>1. n \in Nat /\ << >> \in X
    OBVIOUS
<1>2. ASSUME NEW k \in 1..n, NEW s \in X PROVE after(s, k) \in X
    OBVIOUS
<1> HIDE DEF n, X, after
<1>3. step \in [1..n -> [X -> X]]
    BY <1>2
<1>4. \A k \in 1..n : \A s \in X : step[k][s] = after(s, k)
    OBVIOUS
<1> HIDE DEF step
<1>5. PICK f : Iterate(f, n, X, << >>, step)
    BY <1>1, <1>3, Iterates
<1>6. \A k \in 1..n : f[k] = after(f[k - 1], k)
    <2>1. \A k \in 1..n : f[k - 1] \in X
        BY <1>1, <1>5 DEF Iterate
    <2> QED
        BY <1>4, <1>5, <2>1 DEF Iterate
<1>7. Is(f)
    <2>1. \A k \in 0..n : f[k] = IF k = 0 THEN << >> ELSE after(f[k - 1], k)
        BY <1>1, <1>5, <1>6 DEF Iterate
    <2> QED
        BY <1>5, <2>1 DEF Iterate
<1> DEFINE kept == CHOOSE f1 : Is(f1)
<1>8. Is(kept)
    BY <1>7
<1>9. Quoted(text) = kept[n]
    BY DEF Quoted, after, n
<1> HIDE DEF kept
<1>10. kept[0] = << >> /\ \A k \in 1..n : kept[k] = after(kept[k - 1], k)
    BY <1>1, <1>8
<1> DEFINE P == {k \in 0..n : kept[k] \in X}
<1>11. 0 \in P
    BY <1>1, <1>10
<1>12. \A k \in 1..n : k - 1 \in P => k \in P
    BY <1>1, <1>2, <1>10
<1> HIDE DEF P
<1>13. n \in P
    BY <1>1, <1>11, <1>12, UpTo
<1> QED
    BY <1>9, <1>13 DEF P, X

(* A part as written holds the boundary once, if its texts do not hold it.  *)
LEMMA PieceOnce ==
    ASSUME attempt \in Nat, NEW part \in Part,
           Occurrences(Candidate(attempt), Quoted(part.header)) = {},
           Occurrences(Candidate(attempt), part.body) = {}
    PROVE  /\ Piece(part) \in Seq(Letter)
           /\ Piece(part) # << >>
           /\ Piece(part)[Len(Piece(part))] = Break
           /\ Occurrences(Candidate(attempt), Piece(part)) = {3}
<1> DEFINE c == Candidate(attempt)
           s0 == Delimiter
           h == Quoted(part.header)
           b == part.body
           s1 == s0 \o <<Break>>
           s2 == s1 \o <<Other>>
           s3 == s2 \o h
           s4 == s3 \o <<Break>>
           s5 == s4 \o <<Break>>
           s6 == s5 \o b
           s7 == s6 \o <<Break>>
<1>1. Boundary(c)
    BY CandidateBoundary
<1>2. h \in Seq(Letter) /\ b \in Seq(Letter)
    BY QuotedText DEF Part
<1>3. Break \in {Break, Other} /\ Other \in {Break, Other}
    OBVIOUS
<1>4. Occurrences(c, h) = {} /\ Occurrences(c, b) = {}
    OBVIOUS
<1>5. Piece(part) = s7
    BY DEF Piece, Line
<1>6. s0 = <<Dash, Dash>> \o c
    BY DEF Delimiter
<1> HIDE DEF c, s0, h, b
<1>7. s0 \in Seq(Letter) /\ Occurrences(c, s0) = {3}
    <2> DEFINE d == <<Dash, Dash>> \o c
               none == << >>
    <2>1. none \in Seq(Letter) /\ \A k \in 1..Len(none) : none[k] # St
        OBVIOUS
    <2> HIDE DEF none
    <2>2. d \o none \in Seq(Letter) /\ Occurrences(c, d \o none) = {3}
        BY <1>1, <2>1, DelimiterOnce
    <2>3. d \in Seq(Letter)
        <3> DEFINE dashes == <<Dash, Dash>>
        <3>1. Dash \in Letter
            BY WidthAssumption DEF Letter, Dash
        <3>2. dashes \in Seq(Letter)
            BY <3>1
        <3>3. c \in Seq(Letter)
            BY <1>1 DEF Boundary
        <3> HIDE DEF dashes
        <3>4. dashes \o c \in Seq(Letter)
            BY <3>2, <3>3, Concatenated
        <3> QED
            BY <3>4 DEF dashes
    <2> HIDE DEF d
    <2>4. d \o none = d
        BY <2>3 DEF none
    <2> QED
        BY <1>6, <2>2, <2>3, <2>4 DEF d
<1>8. s1 \in Seq(Letter) /\ Occurrences(c, s1) = {3}
    BY <1>1, <1>3, <1>7, Separated
<1> HIDE DEF s1
<1>9. /\ s2 \in Seq(Letter) /\ s2 # << >> /\ s2[Len(s2)] = Other /\ Occurrences(c, s2) = {3}
    BY <1>1, <1>3, <1>8, Separated
<1> HIDE DEF s2
<1>10. s3 \in Seq(Letter) /\ Occurrences(c, s3) = {3}
    BY <1>1, <1>2, <1>3, <1>4, <1>9, ContinuedByNone
<1> HIDE DEF s3
<1>11. s4 \in Seq(Letter) /\ Occurrences(c, s4) = {3}
    BY <1>1, <1>3, <1>10, Separated
<1> HIDE DEF s4
<1>12. /\ s5 \in Seq(Letter) /\ s5 # << >> /\ s5[Len(s5)] = Break /\ Occurrences(c, s5) = {3}
    BY <1>1, <1>3, <1>11, Separated
<1> HIDE DEF s5
<1>13. s6 \in Seq(Letter) /\ Occurrences(c, s6) = {3}
    BY <1>1, <1>2, <1>3, <1>4, <1>12, ContinuedByNone
<1> HIDE DEF s6
<1>14. /\ s7 \in Seq(Letter) /\ s7 # << >> /\ s7[Len(s7)] = Break /\ Occurrences(c, s7) = {3}
    BY <1>1, <1>3, <1>13, Separated
<1> HIDE DEF s7
<1> QED
    BY <1>5, <1>14 DEF c

(* What closes the body holds the boundary once.                            *)
LEMMA CloseOnce ==
    ASSUME attempt \in Nat
    PROVE  /\ Delimiter \o <<Dash, Dash>> \o Line \in Seq(Letter)
           /\ Occurrences(Candidate(attempt), Delimiter \o <<Dash, Dash>> \o Line) = {3}
<1> DEFINE c == Candidate(attempt)
           tail == <<Dash, Dash>>
           d == Delimiter \o tail
<1>1. Boundary(c)
    BY CandidateBoundary
<1>2. tail \in Seq(Letter) /\ \A k \in 1..Len(tail) : tail[k] # St
    BY WidthAssumption DEF Letter, Dash, St
<1>3. Delimiter = tail \o c
    BY DEF Delimiter
<1> HIDE DEF c, tail
<1>4. tail \o c \o tail \in Seq(Letter) /\ Occurrences(c, tail \o c \o tail) = {3}
    <2>1. /\ <<Dash, Dash>> \o c \o tail \in Seq(Letter)
          /\ Occurrences(c, <<Dash, Dash>> \o c \o tail) = {3}
        BY <1>1, <1>2, DelimiterOnce
    <2> QED
        BY <2>1 DEF tail
<1>5. d \in Seq(Letter) /\ Occurrences(c, d) = {3}
    BY <1>3, <1>4
<1> HIDE DEF d
<1>6. d \o <<Break>> \in Seq(Letter) /\ Occurrences(c, d \o <<Break>>) = {3}
    <2>1. Break \in {Break, Other}
        OBVIOUS
    <2> QED
        BY <1>1, <1>5, <2>1, Separated
<1> QED
    BY <1>6 DEF c, d, tail, Line

(* The parts written one behind the other, the recursion unfolded.          *)
LEMMA PiecesUnfold ==
    ASSUME parts \in Seq(Part), \A k \in 1..Len(parts) : Piece(parts[k]) \in Seq(Letter)
    PROVE  \E upTo : /\ upTo[0] = << >>
                     /\ \A k \in 1..Len(parts) : upTo[k] = upTo[k - 1] \o Piece(parts[k])
                     /\ Pieces = upTo[Len(parts)]
<1> DEFINE n == Len(parts)
           X == Seq(Letter)
           after(s, k) == s \o Piece(parts[k])
           step == [k \in 1..n |-> [s \in X |-> after(s, k)]]
           Is(f) == f = [k \in 0..n |-> IF k = 0 THEN << >> ELSE after(f[k - 1], k)]
<1>1. n \in Nat /\ << >> \in X
    OBVIOUS
<1>2. ASSUME NEW k \in 1..n, NEW s \in X PROVE after(s, k) \in X
    <2> DEFINE p == Piece(parts[k])
    <2>1. p \in Seq(Letter) /\ s \in Seq(Letter)
        OBVIOUS
    <2> HIDE DEF p
    <2>2. s \o p \in Seq(Letter)
        BY <2>1, Concatenated
    <2> QED
        BY <2>2 DEF p
<1> HIDE DEF n, X, after
<1>3. step \in [1..n -> [X -> X]]
    BY <1>2
<1>4. \A k \in 1..n : \A s \in X : step[k][s] = after(s, k)
    OBVIOUS
<1> HIDE DEF step
<1>5. PICK f : Iterate(f, n, X, << >>, step)
    BY <1>1, <1>3, Iterates
<1>6. \A k \in 1..n : f[k] = after(f[k - 1], k)
    <2>1. \A k \in 1..n : f[k - 1] \in X
        BY <1>1, <1>5 DEF Iterate
    <2> QED
        BY <1>4, <1>5, <2>1 DEF Iterate
<1>7. Is(f)
    <2>1. \A k \in 0..n : f[k] = IF k = 0 THEN << >> ELSE after(f[k - 1], k)
        BY <1>1, <1>5, <1>6 DEF Iterate
    <2> QED
        BY <1>5, <2>1 DEF Iterate
<1> DEFINE upTo == CHOOSE f1 : Is(f1)
<1>8. Is(upTo)
    BY <1>7
<1>9. Pieces = upTo[n]
    BY DEF Pieces, after, n
<1> HIDE DEF upTo
<1>10. upTo[0] = << >> /\ \A k \in 1..n : upTo[k] = after(upTo[k - 1], k)
    BY <1>1, <1>8
<1> QED
    BY <1>9, <1>10 DEF after, n

(* A text with one boundary counts for one more.                            *)
LEMMA OneMore ==
    ASSUME NEW c, Boundary(c), NEW a \in Seq(Letter), NEW b \in Seq(Letter),
           a # << >> => a[Len(a)] \in {Break, Other},
           IsFiniteSet(Occurrences(c, a)), Occurrences(c, b) = {3}
    PROVE  /\ a \o b \in Seq(Letter)
           /\ IsFiniteSet(Occurrences(c, a \o b))
           /\ Cardinality(Occurrences(c, a \o b)) = Cardinality(Occurrences(c, a)) + 1
<1> DEFINE x == Len(a) + 3
<1>1. Shifted(Len(a), Occurrences(c, b)) = {x}
    BY DEF Shifted
<1>2. Occurrences(c, a \o b) = Occurrences(c, a) \cup Shifted(Len(a), Occurrences(c, b))
    BY Continued
<1>3. a \o b \in Seq(Letter)
    BY Concatenated
<1>4. x \notin Occurrences(c, a)
    <2>1. Occurrences(c, a) \subseteq 1..Len(a)
        BY DEF Occurrences
    <2>2. x \notin 1..Len(a)
        OBVIOUS
    <2> QED
        BY <2>1, <2>2
<1> HIDE DEF x
<1> QED
    BY <1>1, <1>2, <1>3, <1>4, FS_AddElement

(* One boundary for each part and one for the end.                          *)
LEMMA FramedOnce ==
    ASSUME parts \in Seq(Part), attempt \in Nat, ~Collides(attempt)
    PROVE  Cardinality(Occurrences(Candidate(attempt), Framed)) = Len(parts) + 1
<1> DEFINE n == Len(parts)
           c == Candidate(attempt)
           last == Delimiter \o <<Dash, Dash>> \o Line
<1>1. n \in Nat /\ \A k \in 1..n : parts[k] \in Part
    OBVIOUS
<1>2. Boundary(c)
    BY CandidateBoundary
<1>3. ASSUME NEW k \in 1..n
      PROVE  /\ Piece(parts[k]) \in Seq(Letter)
             /\ Piece(parts[k]) # << >>
             /\ Piece(parts[k])[Len(Piece(parts[k]))] = Break
             /\ Occurrences(c, Piece(parts[k])) = {3}
    <2>1. Scanned(parts[k]) \subseteq Searched
        BY <1>1 DEF Searched
    <2>2. Quoted(parts[k].header) \in Searched /\ parts[k].body \in Searched
        BY <2>1 DEF Scanned
    <2>3. /\ Occurrences(Candidate(attempt), Quoted(parts[k].header)) = {}
          /\ Occurrences(Candidate(attempt), parts[k].body) = {}
        BY <2>2 DEF Collides
    <2> QED
        BY <1>1, <2>3, PieceOnce
<1>4. PICK upTo : /\ upTo[0] = << >>
                  /\ \A k \in 1..n : upTo[k] = upTo[k - 1] \o Piece(parts[k])
                  /\ Pieces = upTo[n]
    BY <1>3, PiecesUnfold
<1>5. last \in Seq(Letter) /\ Occurrences(c, last) = {3}
    BY CloseOnce
<1> DEFINE Q == {k \in 0..n :
                   /\ upTo[k] \in Seq(Letter)
                   /\ upTo[k] # << >> => upTo[k][Len(upTo[k])] \in {Break, Other}
                   /\ IsFiniteSet(Occurrences(c, upTo[k]))
                   /\ Cardinality(Occurrences(c, upTo[k])) = k}
<1> HIDE DEF c, last, n
<1>6. 0 \in Q
    <2>1. Occurrences(c, << >>) = {}
        BY DEF Occurrences
    <2>2. upTo[0] \in Seq(Letter) /\ upTo[0] = << >> /\ 0 \in 0..n
        BY <1>1, <1>4
    <2> QED
        BY <2>1, <2>2, FS_EmptySet
<1>7. ASSUME NEW k \in 1..n, k - 1 \in Q PROVE k \in Q
    <2> DEFINE u == upTo[k - 1]
               p == Piece(parts[k])
               t == u \o p
    <2>1. /\ u \in Seq(Letter)
          /\ u # << >> => u[Len(u)] \in {Break, Other}
        BY <1>7
    <2>2. IsFiniteSet(Occurrences(c, u)) /\ Cardinality(Occurrences(c, u)) = k - 1
        BY <1>7
    <2>3. p \in Seq(Letter) /\ p # << >> /\ p[Len(p)] = Break /\ Occurrences(c, p) = {3}
        BY <1>3
    <2>4. upTo[k] = t
        BY <1>4
    <2>5. k \in Nat /\ k - 1 + 1 = k /\ k \in 0..n
        BY <1>1
    <2> HIDE DEF u, p, Q
    <2>6. u # << >> => u[Len(u)] \in {Break, Other}
        BY <2>1
    <2>7. /\ t \in Seq(Letter) /\ IsFiniteSet(Occurrences(c, t))
          /\ Cardinality(Occurrences(c, t)) = Cardinality(Occurrences(c, u)) + 1
        BY <1>2, <2>1, <2>2, <2>3, <2>6, OneMore
    <2>8. t[Len(t)] = Break
        <3>1. /\ Len(t) = Len(u) + Len(p)
              /\ \A i \in 1..Len(p) : t[Len(u) + i] = p[i]
            BY <2>1, <2>3, Concatenated
        <3>2. Len(p) \in 1..Len(p)
            BY <2>3
        <3> HIDE DEF t
        <3> QED
            BY <2>3, <3>1, <3>2
    <2> HIDE DEF t
    <2>9. upTo[k] \in Seq(Letter) /\ upTo[k][Len(upTo[k])] \in {Break, Other}
          /\ IsFiniteSet(Occurrences(c, upTo[k])) /\ Cardinality(Occurrences(c, upTo[k])) = k
        BY <2>2, <2>4, <2>5, <2>7, <2>8
    <2> QED
        BY <2>5, <2>9 DEF Q
<1> HIDE DEF Q
<1>8. n \in Q
    <2>1. n \in Nat /\ n \in 0..n
        BY <1>1
    <2>2. 0..n \subseteq Q
        BY <1>6, <1>7, <2>1, UpTo
    <2> QED
        BY <2>1, <2>2
<1> DEFINE u == upTo[n]
<1>9. /\ u \in Seq(Letter)
      /\ u # << >> => u[Len(u)] \in {Break, Other}
      /\ IsFiniteSet(Occurrences(c, u))
      /\ Cardinality(Occurrences(c, u)) = n
    BY <1>8 DEF Q
<1>10. Framed = u \o last
    BY <1>4 DEF Framed, last
<1> HIDE DEF u
<1>11. Cardinality(Occurrences(c, u \o last)) = Cardinality(Occurrences(c, u)) + 1
    BY <1>2, <1>5, <1>9, OneMore
<1> QED
    BY <1>9, <1>10, <1>11 DEF c, n

-----------------------------------------------------------------------------
(* The candidate to start from.                                             *)

(* Numbers with a bound have a greatest.                                    *)
LEMMA GreatestNumber ==
    ASSUME NEW n \in Nat, NEW S \in SUBSET (0..n), S # {}
    PROVE  \E x \in S : \A y \in S : y <= x
<1> DEFINE T == {n - x : x \in S}
<1>1. T \in SUBSET Nat /\ T # {}
    <2>1. \A x \in S : n - x \in Nat
        OBVIOUS
    <2>2. \A t \in T : t \in Nat
        BY <2>1
    <2>3. PICK x \in S : TRUE
        OBVIOUS
    <2>4. n - x \in T
        BY <2>3
    <2> HIDE DEF T
    <2> QED
        BY <2>2, <2>4
<1>2. PICK least \in T : \A t \in T : least <= t
    BY <1>1, LeastNumber
<1>3. PICK x \in S : least = n - x
    BY <1>2
<1>4. ASSUME NEW y \in S PROVE y <= x
    <2>1. n - y \in T
        OBVIOUS
    <2>2. n - x <= n - y
        BY <1>2, <1>3, <2>1
    <2> QED
        BY <1>4, <2>2
<1> QED
    BY <1>4

(* The digits behind an occurrence of the stem are digits.                  *)
LEMMA DigitsText ==
    ASSUME NEW text \in Seq(Letter), NEW at \in Nat \ {0}
    PROVE  Digits(text, at) \in Seq(0..(Radix - 1))
<1> DEFINE D == 0..(Radix - 1)
           from == at + Len(Stem) + 1
           len == Len(text)
           run == {n \in 0..(len - from + 1) :
                      /\ OccursAt(<<Dash>>, text, from - 1)
                      /\ \A k \in from..(from + n - 1) : text[k] \in D}
           most == CHOOSE n \in run : \A m \in run : m <= n
<1>1. from \in Nat /\ from >= 1 /\ len \in Nat
    BY DEF Stem
<1>2. Digits(text, at) = IF run = {} THEN << >> ELSE SubSeq(text, from, from + most - 1)
    BY DEF Digits
<1>3. CASE run = {}
    <2>1. << >> \in Seq(D)
        OBVIOUS
    <2> QED
        BY <1>2, <1>3, <2>1
<1>4. CASE run # {}
    <2> HIDE DEF from, len
    <2>1. len - from + 1 \in Nat /\ run \subseteq 0..(len - from + 1)
        BY <1>1, <1>4
    <2> HIDE DEF run
    <2>2. \E n \in run : \A m \in run : m <= n
        BY <1>4, <2>1, GreatestNumber
    <2>3. most \in run
        BY <2>2
    <2> HIDE DEF most
    <2>4. most \in 0..(len - from + 1) /\ \A k \in from..(from + most - 1) : text[k] \in D
        BY <2>3 DEF run
    <2> DEFINE s == SubSeq(text, from, from + most - 1)
    <2>5. s = [k \in 1..most |-> text[from + k - 1]]
        BY <1>1, <2>1, <2>4 DEF len
    <2> HIDE DEF s
    <2>6. \A k \in 1..most : s[k] \in D
        <3>1. \A k \in 1..most : from + k - 1 \in from..(from + most - 1)
            BY <1>1, <2>1, <2>4
        <3> HIDE DEF D
        <3> QED
            BY <2>4, <2>5, <3>1
    <2>7. most \in Nat
        BY <2>1, <2>4
    <2> HIDE DEF D
    <2>8. s \in [1..most -> D]
        BY <2>5, <2>6
    <2>9. s \in Seq(D)
        BY <2>7, <2>8
    <2> QED
        BY <1>2, <1>4, <2>9 DEF s, D
<1> QED
    BY <1>3, <1>4 DEF D

(* They spell a number.                                                     *)
LEMMA DigitsValue ==
    ASSUME NEW digits \in Seq(0..(Radix - 1)) PROVE ValueOfDigits(digits) \in Nat
<1> DEFINE n == Len(digits)
           after(v, k) == v * Radix + digits[k]
           step == [k \in 1..n |-> [v \in Nat |-> after(v, k)]]
           Is(f) == f = [k \in 0..n |-> IF k = 0 THEN 0 ELSE after(f[k - 1], k)]
<1>1. n \in Nat /\ Radix \in Nat /\ \A k \in 1..n : digits[k] \in Nat
    BY WidthAssumption
<1> HIDE DEF n
<1>2. ASSUME NEW k \in 1..n, NEW v \in Nat PROVE after(v, k) \in Nat
    <2> DEFINE w == v * Radix
    <2>1. w \in Nat
        BY <1>1
    <2>2. digits[k] \in Nat
        BY <1>1
    <2> HIDE DEF w
    <2>3. w + digits[k] \in Nat
        BY <2>1, <2>2
    <2> QED
        BY <2>3 DEF w
<1> HIDE DEF after
<1>3. step \in [1..n -> [Nat -> Nat]]
    BY <1>2
<1>4. \A k \in 1..n : \A v \in Nat : step[k][v] = after(v, k)
    OBVIOUS
<1> HIDE DEF step
<1>5. PICK f : Iterate(f, n, Nat, 0, step)
    BY <1>1, <1>3, Iterates
<1>6. \A k \in 1..n : f[k] = after(f[k - 1], k)
    <2>1. \A k \in 1..n : f[k - 1] \in Nat
        BY <1>1, <1>5 DEF Iterate
    <2> QED
        BY <1>4, <1>5, <2>1 DEF Iterate
<1>7. Is(f)
    <2>1. \A k \in 0..n : f[k] = IF k = 0 THEN 0 ELSE after(f[k - 1], k)
        BY <1>1, <1>5, <1>6 DEF Iterate
    <2> QED
        BY <1>5, <2>1 DEF Iterate
<1> DEFINE value == CHOOSE f1 : Is(f1)
<1>8. Is(value)
    BY <1>7
<1>9. ValueOfDigits(digits) = value[n]
    BY DEF ValueOfDigits, after, n
<1> HIDE DEF value
<1>10. value[0] = 0 /\ \A k \in 1..n : value[k] = after(value[k - 1], k)
    BY <1>1, <1>8
<1> DEFINE P == {k \in 0..n : value[k] \in Nat}
<1>11. 0 \in P
    BY <1>1, <1>10
<1>12. ASSUME NEW k \in 1..n, k - 1 \in P PROVE k \in P
    <2>1. value[k - 1] \in Nat /\ k \in 0..n
        BY <1>1, <1>12
    <2>2. after(value[k - 1], k) \in Nat
        BY <1>2, <2>1
    <2> QED
        BY <1>10, <2>1, <2>2
<1> HIDE DEF P
<1>13. n \in P
    <2>1. n \in Nat /\ n \in 0..n
        BY <1>1
    <2>2. 0..n \subseteq P
        BY <1>11, <1>12, <2>1, UpTo
    <2> QED
        BY <2>1, <2>2
<1> QED
    BY <1>9, <1>13 DEF P

(* The first candidate that is probed carries a number the counter holds.   *)
LEMMA FirstNumber ==
    ASSUME parts \in Seq(Part) PROVE First(Numbers) \in 1..MaxAttempt
<1> DEFINE after == {1} \cup {Following(Numbered(digits)) : digits \in Numbers}
<1>1. MaxAttempt \in Nat /\ MaxAttempt >= 1
    BY WidthAssumption
<1>2. ASSUME NEW text \in Searched PROVE text \in Seq(Letter)
    <2>1. PICK k \in DOMAIN parts : text \in Scanned(parts[k])
        BY DEF Searched
    <2>2. parts[k] \in Part
        BY <2>1
    <2> QED
        BY <2>1, <2>2, QuotedText DEF Scanned, Part
<1>3. ASSUME NEW digits \in Numbers PROVE Following(Numbered(digits)) \in 1..MaxAttempt
    <2>1. PICK text \in Searched : \E at \in Occurrences(Stem, text) : digits = Digits(text, at)
        BY DEF Numbers
    <2>2. PICK at \in Occurrences(Stem, text) : digits = Digits(text, at)
        BY <2>1
    <2>3. text \in Seq(Letter) /\ at \in Nat \ {0}
        BY <1>2 DEF Occurrences
    <2>4. ValueOfDigits(digits) \in Nat
        BY <2>2, <2>3, DigitsText, DigitsValue
    <2> QED
        BY <1>1, <2>4 DEF Following, Numbered
<1>4. after \subseteq 1..MaxAttempt /\ after # {}
    BY <1>1, <1>3
<1>5. First(Numbers) = CHOOSE n \in after : \A m \in after : m <= n
    BY DEF First
<1> HIDE DEF after
<1>6. after \in SUBSET (0..MaxAttempt)
    BY <1>1, <1>4
<1>7. \E n \in after : \A m \in after : m <= n
    BY <1>1, <1>4, <1>6, GreatestNumber
<1> QED
    BY <1>4, <1>5, <1>7

-----------------------------------------------------------------------------
(* The theorems.                                                            *)

\* What every state keeps: the candidate that was settled on stands in no text.
Settled ==
    /\ parts \in Inputs
    /\ framing \in {"scan", "probe", "done"}
    /\ attempt \in 0..MaxAttempt
    /\ framing = "done" => ~Collides(attempt)

(* The counter never leaves its width, and the loop is left only with a     *)
(* candidate that none of the texts holds.                                  *)
THEOREM AlwaysSettled == FramingSpec => []Settled
<1>1. FramingInit => Settled
    BY WidthAssumption DEF FramingInit, Settled
<1>2. Settled /\ [FramingNext]_framingVars => Settled'
    <2> SUFFICES ASSUME Settled, [FramingNext]_framingVars PROVE Settled'
        OBVIOUS
    <2>1. MaxAttempt \in Nat /\ MaxAttempt >= 1
        BY WidthAssumption
    <2>2. parts \in Seq(Part)
        BY InputsAssumption DEF Settled
    <2>3. CASE Scan
        <3>1. CASE Collides(0)
            <4>1. framing' = "probe" /\ attempt' \in 1..MaxAttempt /\ parts' = parts
                BY <2>2, <2>3, <3>1, FirstNumber DEF Scan
            <4> QED
                BY <4>1 DEF Settled
        <3>2. CASE ~Collides(0)
            <4>1. framing' = "done" /\ attempt' = 0 /\ parts' = parts
                BY <2>3, <3>2 DEF Scan
            <4>2. ~Collides(0)'
                BY <3>2, <4>1 DEF Collides, Searched
            <4> QED
                BY <2>1, <4>1, <4>2 DEF Settled
        <3> QED
            BY <3>1, <3>2
    <2>4. CASE Accept
        <3>1. framing' = "done" /\ attempt' = attempt /\ parts' = parts /\ ~Collides(attempt)
            BY <2>4 DEF Accept
        <3>2. (~Collides(attempt))'
            BY <3>1 DEF Collides, Searched
        <3> QED
            BY <3>1, <3>2 DEF Settled
    <2>5. CASE Retry
        <3>1. framing' = framing /\ framing = "probe" /\ parts' = parts
              /\ attempt' = Following(attempt)
            BY <2>5 DEF Retry, Raised
        <3>2. attempt' \in 0..MaxAttempt
            BY <2>1, <3>1 DEF Settled, Following
        <3> QED
            BY <3>1, <3>2 DEF Settled
    <2>6. CASE Finished \/ UNCHANGED framingVars
        <3>1. parts' = parts /\ framing' = framing /\ attempt' = attempt
            BY <2>6 DEF Finished, framingVars
        <3> QED
            BY <3>1 DEF Settled, Collides, Searched
    <2> QED
        BY <2>3, <2>4, <2>5, <2>6 DEF FramingNext
<1> QED
    BY <1>1, <1>2, PTL DEF FramingSpec

(* A body that was written splits into exactly the parts it was written     *)
(* from, for any number of parts, any texts in them, and counters and       *)
(* decimals of any width.                                                   *)
THEOREM FramedExactly == FramingSpec => []FramesExactly
<1>1. Settled => FramesExactly
    <2> SUFFICES ASSUME Settled, framing = "done"
                 PROVE  Cardinality(Occurrences(Candidate(attempt), Framed)) = Len(parts) + 1
        BY DEF FramesExactly
    <2>1. parts \in Seq(Part) /\ attempt \in Nat /\ ~Collides(attempt)
        BY InputsAssumption, WidthAssumption DEF Settled
    <2> QED
        BY <2>1, FramedOnce
<1> QED
    BY <1>1, AlwaysSettled, PTL

==========================================================================
