----------------------------- MODULE LeastNumber -----------------------------
(***************************************************************************)
(* A nonempty set of natural numbers has a least element.  The proofs use  *)
(* it for the first child a scan stops at, and in place of induction: the  *)
(* turns of a loop written as a recursive function exist, stay where every *)
(* turn stays, and come to rest when a measure decreases.                  *)
(***************************************************************************)
EXTENDS Integers, WellFoundedInduction, TLAPS

\* Zenon proves a step unless the step cites SMT, for arithmetic.
USE ZenonT(30)

\* The least element with respect to a relation that is < on the naturals.
LEMMA LeastByRelation ==
    ASSUME NEW S, S \subseteq Nat, S # {},
           NEW R, IsWellFoundedOn(R, Nat),
           \A x, y \in Nat : <<y, x>> \in R <=> y < x
    PROVE  \E m \in S : \A y \in S : m <= y
<1>1. PICK m \in S : \A y \in S : ~(<<y, m>> \in R)
    BY WFMin
<1>2. \A y \in S : y \in Nat /\ m \in Nat
    OBVIOUS
<1>3. \A y \in S : ~(y < m)
    BY <1>1, <1>2
<1>4. \A y \in S : m <= y
    BY <1>2, <1>3, SMT
<1> QED BY <1>4

\* Every nonempty set of naturals has a least element.
LEMMA LeastNatural ==
    ASSUME NEW S, S \subseteq Nat, S # {}
    PROVE  \E m \in S : \A y \in S : m <= y
<1>1. IsWellFoundedOn(OpToRel(<, Nat), Nat)
    BY NatLessThanWellFounded
<1>2. \A x, y \in Nat : <<y, x>> \in OpToRel(<, Nat) <=> y < x
    BY DEF OpToRel
<1> QED BY <1>1, <1>2, LeastByRelation

\* The states of a loop after 0..n turns of G from x, and that they are in S;
\* and the measure M does not increase for ever.
Turns(f, x, G, n) == f = [k \in 0..n |-> IF k = 0 THEN x ELSE G[f[k - 1]]]
Within(f, n, S) == f \in [0..n -> S]
Maps(G, S) == G \in [S -> S]
Lowers(G, M, S) ==
    M \in [S -> Nat] /\ \A s \in S : G[s] = s \/ M[G[s]] < M[s]

\* What holds before a loop and is kept by every turn holds after any number.
LEMMA TurnsStay ==
    ASSUME NEW S, NEW n \in Nat, NEW f, f[0] \in S,
           \A k \in 1..n : f[k - 1] \in S => f[k] \in S
    PROVE  \A k \in 0..n : f[k] \in S
<1> DEFINE Bad == {k \in 0..n : f[k] \notin S}
<1>1. Bad = {}
    <2>1. SUFFICES ASSUME Bad # {} PROVE FALSE
        OBVIOUS
    <2>2. Bad \subseteq Nat
        BY SMT
    <2>3. PICK m \in Bad : \A y \in Bad : m <= y
        BY <2>1, <2>2, LeastNatural
    <2>4. m \in 1..n /\ m - 1 \in 0..n /\ m - 1 \notin Bad
        BY <2>3, SMT
    <2> QED BY <2>3, <2>4
<1> QED BY <1>1

\* The turns of a loop, a function of their number, exist.
LEMMA TurnsExist ==
    ASSUME NEW S, NEW x \in S, NEW G, Maps(G, S), NEW n \in Nat
    PROVE  \E f : Turns(f, x, G, n) /\ Within(f, n, S)
<1> DEFINE Has(m) == \E f \in [0..m -> S] :
                        f = [k \in 0..m |-> IF k = 0 THEN x ELSE G[f[k - 1]]]
           Bad == {m \in Nat : ~Has(m)}
<1>1. SUFFICES ASSUME Bad # {} PROVE FALSE
    BY DEF Turns, Within
<1> USE DEF Maps
<1>2. Bad \subseteq Nat
    OBVIOUS
<1>3. PICK m \in Bad : \A y \in Bad : m <= y
    BY <1>1, <1>2, LeastNatural
<1>4. m \in Nat /\ ~Has(m)
    OBVIOUS
<1>5. Has(0)
    <2>1. [k \in 0..0 |-> x] \in [0..0 -> S]
        OBVIOUS
    <2>2. [k \in 0..0 |-> x]
            = [k \in 0..0 |-> IF k = 0 THEN x
                              ELSE G[[j \in 0..0 |-> x][k - 1]]]
        BY SMT
    <2> QED BY <2>1, <2>2
<1>6. m # 0 /\ m - 1 \in Nat
    <2> HIDE DEF Has
    <2>1. m # 0
        BY <1>4, <1>5
    <2> QED BY <1>4, <2>1, SMT
<1>7. Has(m - 1)
    BY <1>3, <1>6, SMT
<1>8. PICK f \in [0..(m - 1) -> S] :
          f = [k \in 0..(m - 1) |-> IF k = 0 THEN x ELSE G[f[k - 1]]]
    BY <1>7
<1> DEFINE g == [k \in 0..m |-> IF k = m THEN G[f[m - 1]] ELSE f[k]]
<1>9. g \in [0..m -> S]
    <2> SUFFICES ASSUME NEW k \in 0..m PROVE g[k] \in S
        OBVIOUS
    <2>1. m - 1 \in 0..(m - 1)
        BY <1>6, SMT
    <2>2. k # m => k \in 0..(m - 1)
        BY <1>6, SMT
    <2> QED BY <2>1, <2>2
<1>10. g = [k \in 0..m |-> IF k = 0 THEN x ELSE G[g[k - 1]]]
    <2> SUFFICES ASSUME NEW k \in 0..m
                 PROVE  g[k] = IF k = 0 THEN x ELSE G[g[k - 1]]
        OBVIOUS
    <2>1. CASE k = m
        BY <2>1, <1>6, SMT
    <2>2. CASE k # m
        <3>1. k \in 0..(m - 1)
            BY <2>2, <1>6, SMT
        <3>2. g[k] = IF k = 0 THEN x ELSE G[f[k - 1]]
            BY <3>1, <1>8, <2>2
        <3>3. k # 0 => k - 1 \in 0..m /\ k - 1 # m
            BY <3>1, <1>6, SMT
        <3> QED BY <3>2, <3>3
    <2> QED BY <2>1, <2>2
<1> QED BY <1>4, <1>9, <1>10

\* Turns that lower a measure until they change nothing come to rest within
\* as many turns as the measure is high.
LEMMA TurnsRest ==
    ASSUME NEW S, NEW x, NEW n \in Nat, NEW f, NEW G, NEW M,
           Turns(f, x, G, n), Within(f, n, S), Maps(G, S), Lowers(G, M, S),
           M[x] <= n
    PROVE  G[f[n]] = f[n]
<1> USE DEF Within, Maps, Lowers
<1>7. f[0] = x /\ \A k \in 1..n : f[k] = G[f[k - 1]]
    <2>1. 0 \in 0..n /\ \A k \in 1..n : k \in 0..n /\ k # 0
        BY SMT
    <2> QED BY <2>1 DEF Turns
<1> DEFINE Bad == {k \in 0..n : G[f[k]] # f[k] /\ M[f[k]] > M[f[0]] - k}
<1>1. Bad = {}
    <2>1. SUFFICES ASSUME Bad # {} PROVE FALSE
        OBVIOUS
    <2>2. Bad \subseteq Nat
        BY SMT
    <2>3. PICK m \in Bad : \A y \in Bad : m <= y
        BY <2>1, <2>2, LeastNatural
    <2>4. m # 0
        BY <2>3, SMT
    <2>5. m \in 1..n /\ m - 1 \in 0..n /\ m - 1 \notin Bad
        BY <2>3, <2>4, SMT
    <2>6. f[m] = G[f[m - 1]]
        BY <2>5, <1>7
    <2>7. f[m - 1] \in S /\ f[m] \in S /\ f[0] \in S
        BY <2>5, SMT
    <2>8. M[f[m - 1]] \in Nat /\ M[f[m]] \in Nat /\ M[f[0]] \in Nat
        BY <2>7
    <2>9. G[f[m - 1]] # f[m - 1]
        BY <2>6, <2>3
    <2>10. M[f[m - 1]] <= M[f[0]] - (m - 1)
        BY <2>9, <2>5, <2>8, SMT
    <2>11. M[f[m]] < M[f[m - 1]]
        BY <2>9, <2>6, <2>7
    <2> QED BY <2>3, <2>5, <2>8, <2>10, <2>11, SMT
<1>2. f[n] \in S /\ f[0] \in S /\ n \in 0..n
    BY SMT
<1>3. M[f[n]] \in Nat /\ M[f[0]] \in Nat /\ M[G[f[n]]] \in Nat
    BY <1>2
<1>4. G[f[n]] = f[n] \/ M[f[n]] <= M[f[0]] - n
    <2> HIDE DEF Lowers, Maps, Within
    <2>1. n \in 0..n /\ n \notin Bad
        BY <1>1, <1>2
    <2>2. ~(G[f[n]] # f[n] /\ M[f[n]] > M[f[0]] - n)
        BY <2>1
    <2> QED BY <2>2, <1>3, SMT
<1>5. G[f[n]] = f[n] \/ M[G[f[n]]] < M[f[n]]
    BY <1>2
<1>6. M[f[0]] <= n
    BY <1>7
<1> HIDE DEF Lowers, Maps, Within
<1> QED BY <1>3, <1>4, <1>5, <1>6, SMT
=============================================================================
