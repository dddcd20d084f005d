----------------------------- MODULE MerkleProofs -----------------------------
(***************************************************************************)
(* Proofs about Merkle: for every number of entries, every counter and      *)
(* every length of a proof that fits, the device keeps the root of the      *)
(* host's tree, and a path verifies for its own entry alone.                *)
(***************************************************************************)
EXTENDS Merkle, SequenceTheorems, WellFoundedInduction, TLAPS

(* Induction and recursion on numbers. *)

\* Induction, for sets of numbers.
LEMMA StrongInduction ==
    ASSUME NEW S \in SUBSET Nat,
           \A k \in Nat : (\A j \in Nat : j < k => j \in S) => k \in S
    PROVE  \A k \in Nat : k \in S
<1> DEFINE R == OpToRel(<, Nat)
           Rest == Nat \ S
<1> SUFFICES ASSUME Rest # {} PROVE FALSE
    BY Zenon
<1>1. IsWellFoundedOn(R, Nat)
    BY NatLessThanWellFounded, Zenon
<1>2. \A x, y \in Nat : y < x => <<y, x>> \in R
    BY DEF OpToRel
<1> HIDE DEF R
<1>3. PICK x \in Rest : \A y \in Rest : ~ (<<y, x>> \in R)
    <2>1. Rest \in SUBSET Nat
        OBVIOUS
    <2> HIDE DEF Rest
    <2> QED BY <1>1, <2>1, WFMin
<1>4. x \in Nat /\ x \notin S
    BY Zenon
<1>5. \A y \in Nat : y < x => y \in S
    BY <1>2, <1>3, <1>4, Zenon
<1> QED BY <1>4, <1>5, Zenon

\* f follows the recursion up to k: from b0, by G, each number from one before it.
Obeys(f, k, G, prev) == \A i \in 1 .. k : f[i] = G[<<i, f[prev[i]]>>]

Follows(f, k, b0, G, prev) == f \in [Nat -> Nat] /\ f[0] = b0 /\ Obeys(f, k, G, prev)

LEMMA FollowersExist ==
    ASSUME NEW b0 \in Nat, NEW G \in [Nat \X Nat -> Nat], NEW prev \in [Nat \ {0} -> Nat],
           \A i \in Nat \ {0} : prev[i] < i
    PROVE  \A k \in Nat : \E f : Follows(f, k, b0, G, prev)
<1> DEFINE S == {k \in Nat : \E f : Follows(f, k, b0, G, prev)}
<1>1. ASSUME NEW k \in Nat, \A j \in Nat : j < k => j \in S
      PROVE  k \in S
    <2>1. CASE k = 0
        <3> DEFINE f == [j \in Nat |-> b0]
        <3>1. f \in [Nat -> Nat] /\ f[0] = b0
            OBVIOUS
        <3> HIDE DEF f
        <3>2. Follows(f, 0, b0, G, prev)
            BY <3>1 DEF Follows, Obeys
        <3> QED BY <2>1, <3>2, Zenon
    <2>2. CASE k # 0
        <3>1. k - 1 \in Nat /\ k - 1 < k
            BY <2>2
        <3>2. PICK f : Follows(f, k - 1, b0, G, prev)
            BY <1>1, <3>1, Zenon
        <3>3. f \in [Nat -> Nat] /\ f[0] = b0
              /\ \A i \in 1 .. (k - 1) : f[i] = G[<<i, f[prev[i]]>>]
            BY <3>2, Zenon DEF Follows, Obeys
        <3> DEFINE v == G[<<k, f[prev[k]]>>]
                   g == [f EXCEPT ![k] = v]
        <3>4. prev[k] \in Nat /\ v \in Nat
            <4>1. prev[k] \in Nat
                BY <2>2
            <4>2. f[prev[k]] \in Nat
                BY <3>3, <4>1
            <4>3. <<k, f[prev[k]]>> \in Nat \X Nat
                BY <4>2
            <4> QED BY <4>1, <4>3
        <3> HIDE DEF v
        <3>5. /\ g \in [Nat -> Nat] /\ g[k] = v
              /\ \A j \in Nat : j # k => g[j] = f[j]
            BY <3>3, <3>4
        <3> HIDE DEF g
        <3>6. ASSUME NEW i \in 1 .. k PROVE g[i] = G[<<i, g[prev[i]]>>]
            <4>1. i \in Nat \ {0} /\ prev[i] \in Nat /\ prev[i] # k
                <5>1. i \in Nat \ {0} /\ i =< k
                    OBVIOUS
                <5>2. prev[i] \in Nat /\ prev[i] < i
                    BY <5>1
                <5> QED BY <5>1, <5>2
            <4>2. g[prev[i]] = f[prev[i]]
                BY <3>5, <4>1, Zenon
            <4>3. CASE i = k
                BY <3>5, <4>2, <4>3, Zenon DEF v
            <4>4. CASE i # k
                <5>1. i \in 1 .. (k - 1) /\ i \in Nat
                    BY <4>4
                <5> QED BY <3>3, <3>5, <4>2, <4>4, <5>1, Zenon
            <4> QED BY <4>3, <4>4
        <3>7. g[0] = b0
            BY <2>2, <3>3, <3>5
        <3>8. Follows(g, k, b0, G, prev)
            BY <3>5, <3>6, <3>7, Zenon DEF Follows, Obeys
        <3> QED BY <3>8, Zenon
    <2> QED BY <2>1, <2>2
<1>2. S \in SUBSET Nat
    OBVIOUS
<1> HIDE DEF S
<1>3. \A k \in Nat : k \in S
    BY <1>1, <1>2, StrongInduction
<1> QED BY <1>3, Zenon DEF S

LEMMA FollowersAgree ==
    ASSUME NEW b0 \in Nat, NEW G \in [Nat \X Nat -> Nat], NEW prev \in [Nat \ {0} -> Nat],
           \A i \in Nat \ {0} : prev[i] < i,
           NEW k \in Nat, NEW f, NEW g,
           f[0] = g[0], Obeys(f, k, G, prev), Obeys(g, k, G, prev)
    PROVE  \A i \in 0 .. k : f[i] = g[i]
<1> DEFINE S == {i \in Nat : i =< k => f[i] = g[i]}
<1>1. ASSUME NEW i \in Nat, \A j \in Nat : j < i => j \in S
      PROVE  i \in S
    <2>1. CASE i = 0 \/ ~ (i =< k)
        BY <2>1
    <2>2. CASE i # 0 /\ i =< k
        <3>1. i \in 1 .. k /\ prev[i] \in Nat /\ prev[i] < i /\ prev[i] =< k
            <4>1. i \in Nat \ {0} /\ i \in 1 .. k
                BY <2>2
            <4>2. prev[i] \in Nat /\ prev[i] < i
                BY <4>1
            <4> QED BY <2>2, <4>1, <4>2
        <3>2. f[prev[i]] = g[prev[i]]
            BY <1>1, <3>1, Zenon
        <3>3. f[i] = G[<<i, f[prev[i]]>>] /\ g[i] = G[<<i, g[prev[i]]>>]
            BY <3>1, Zenon DEF Obeys
        <3> QED BY <3>2, <3>3, Zenon
    <2> QED BY <2>1, <2>2
<1>2. S \in SUBSET Nat
    OBVIOUS
<1> HIDE DEF S
<1>3. \A i \in Nat : i \in S
    BY <1>1, <1>2, StrongInduction
<1>4. \A i \in 0 .. k : i \in Nat /\ i =< k
    OBVIOUS
<1> QED BY <1>3, <1>4, Zenon DEF S

\* A function on the numbers that is defined from smaller numbers exists.
Solves(f, b0, G, prev) ==
    f \in [Nat -> Nat] /\ f[0] = b0 /\ \A i \in Nat \ {0} : f[i] = G[<<i, f[prev[i]]>>]

LEMMA NatRecursion ==
    ASSUME NEW b0 \in Nat, NEW G \in [Nat \X Nat -> Nat], NEW prev \in [Nat \ {0} -> Nat],
           \A i \in Nat \ {0} : prev[i] < i
    PROVE  \E f : Solves(f, b0, G, prev)
<1> DEFINE F(k) == CHOOSE f : Follows(f, k, b0, G, prev)
           f == [k \in Nat |-> F(k)[k]]
<1>1. \A k \in Nat : Follows(F(k), k, b0, G, prev)
    BY FollowersExist, Zenon
<1>2. \A k \in Nat : f[k] = F(k)[k]
    OBVIOUS
<1>3. DOMAIN f = Nat /\ f = [k \in Nat |-> f[k]]
    OBVIOUS
<1> HIDE DEF F, f
<1>4. \A k \in Nat : f[k] \in Nat
    <2> TAKE k \in Nat
    <2>1. F(k) \in [Nat -> Nat]
        BY <1>1, Zenon DEF Follows, Obeys
    <2> QED BY <1>2, <2>1
<1>5. f \in [Nat -> Nat]
    BY <1>3, <1>4
<1>6. f[0] = b0
    BY <1>1, <1>2 DEF Follows, Obeys
<1>7. ASSUME NEW i \in Nat \ {0} PROVE f[i] = G[<<i, f[prev[i]]>>]
    <2>1. i \in Nat /\ i \in 1 .. i /\ prev[i] \in Nat /\ prev[i] < i
        OBVIOUS
    <2> DEFINE p == prev[i]
               a == F(i)
               c == F(p)
    <2>2. p \in Nat /\ p < i
        BY <2>1
    <2>3. /\ Follows(a, i, b0, G, prev) /\ Follows(c, p, b0, G, prev)
          /\ f[i] = a[i] /\ f[p] = c[p]
        BY <1>1, <1>2, <2>1, <2>2, Zenon
    <2> HIDE DEF a, c
    <2>4. /\ a[0] = c[0]
          /\ \A j \in 1 .. i : a[j] = G[<<j, a[prev[j]]>>]
          /\ \A j \in 1 .. p : c[j] = G[<<j, c[prev[j]]>>]
        BY <2>3, Zenon DEF Follows, Obeys
    <2> HIDE DEF p
    <2>5. Obeys(a, p, G, prev) /\ Obeys(c, p, G, prev)
        <3>1. \A j \in 1 .. p : j \in 1 .. i
            BY <2>1, <2>2
        <3> QED BY <2>4, <3>1, Zenon DEF Obeys
    <2>6. \A j \in 0 .. p : a[j] = c[j]
        <3>1. a[0] = c[0] /\ p \in Nat
            BY <2>2, <2>4
        <3> HIDE DEF p
        <3>2. \A j \in Nat \ {0} : prev[j] < j
            OBVIOUS
        <3> QED BY <2>5, <3>1, <3>2, FollowersAgree
    <2>7. p \in 0 .. p
        BY <2>2
    <2>8. a[p] = c[p]
        BY <2>6, <2>7, Zenon
    <2>9. a[i] = G[<<i, a[p]>>]
        BY <2>1, <2>4, Zenon DEF p
    <2> QED BY <2>3, <2>8, <2>9, Zenon DEF p
<1> QED BY <1>5, <1>6, <1>7, Zenon DEF Solves
-----------------------------------------------------------------------------
(* Powers of two and bits. *)

LEMMA Halves ==
    ASSUME NEW x \in Nat
    PROVE  /\ x \div 2 \in Nat /\ x % 2 \in {0, 1} /\ x = 2 * (x \div 2) + (x % 2)
           /\ x # 0 => x \div 2 < x
OBVIOUS

LEMMA PowerFacts ==
    /\ Power[0] = 1
    /\ \A k \in Nat : Power[k] \in Nat /\ Power[k] >= 1 /\ Power[k + 1] = 2 * Power[k]
<1> DEFINE G == [v \in Nat \X Nat |-> 2 * v[2]]
           prev == [i \in Nat \ {0} |-> i - 1]
           step(f) == [k \in Nat |-> IF k = 0 THEN 1 ELSE 2 * f[k - 1]]
<1>1. /\ G \in [Nat \X Nat -> Nat] /\ \A i, v \in Nat : G[<<i, v>>] = 2 * v
    OBVIOUS
<1>2. /\ prev \in [Nat \ {0} -> Nat]
      /\ \A i \in Nat \ {0} : prev[i] = i - 1 /\ prev[i] < i
    OBVIOUS
<1> HIDE DEF G, prev
<1>3. PICK f : Solves(f, 1, G, prev)
    <2>1. /\ G \in [Nat \X Nat -> Nat] /\ prev \in [Nat \ {0} -> Nat]
          /\ \A i \in Nat \ {0} : prev[i] < i
        BY <1>1, <1>2
    <2>2. 1 \in Nat
        OBVIOUS
    <2> QED BY <2>1, <2>2, NatRecursion
<1>4. \A i \in Nat \ {0} : f[i] = 2 * f[i - 1]
    <2> TAKE i \in Nat \ {0}
    <2>1. i - 1 \in Nat /\ i \in Nat
        OBVIOUS
    <2>2. f[i - 1] \in Nat
        BY <1>3, <2>1 DEF Solves
    <2>3. f[i] = G[<<i, f[i - 1]>>]
        BY <1>2, <1>3, Zenon DEF Solves
    <2> QED BY <1>1, <2>1, <2>2, <2>3
<1>5. f = step(f)
    BY <1>3, <1>4 DEF Solves
<1>6. Power = step(Power)
    <2>1. Power = CHOOSE g : g = step(g)
        BY Zenon DEF Power
    <2> HIDE DEF step
    <2> QED BY <1>5, <2>1, Zenon
<1>7. Power[0] = 1
    BY <1>6
<1>8. \A k \in Nat : Power[k + 1] = 2 * Power[k]
    <2> TAKE k \in Nat
    <2>1. k + 1 \in Nat /\ k + 1 # 0 /\ (k + 1) - 1 = k
        OBVIOUS
    <2>2. step(Power)[k + 1] = 2 * Power[(k + 1) - 1]
        BY <2>1
    <2> HIDE DEF step
    <2> QED BY <1>6, <2>1, <2>2
<1> DEFINE S == {k \in Nat : Power[k] \in Nat /\ Power[k] >= 1}
<1>9. ASSUME NEW k \in Nat, \A j \in Nat : j < k => j \in S PROVE k \in S
    <2>1. CASE k = 0
        BY <1>7, <2>1
    <2>2. CASE k # 0
        <3>1. k - 1 \in Nat /\ k - 1 < k /\ (k - 1) + 1 = k
            BY <2>2
        <3>2. Power[k - 1] \in Nat /\ Power[k - 1] >= 1
            BY <1>9, <3>1
        <3> QED BY <1>8, <3>1, <3>2
    <2> QED BY <2>1, <2>2
<1>10. S \in SUBSET Nat
    OBVIOUS
<1> HIDE DEF S, step
<1>11. \A k \in Nat : k \in S
    BY <1>9, <1>10, StrongInduction
<1> QED BY <1>7, <1>8, <1>11 DEF S

LEMMA LengthFacts ==
    /\ bit_length[0] = 0
    /\ \A x \in Nat \ {0} : bit_length[x] = 1 + bit_length[x \div 2]
    /\ \A x \in Nat : bit_length[x] \in Nat
<1> DEFINE G == [v \in Nat \X Nat |-> 1 + v[2]]
           prev == [i \in Nat \ {0} |-> i \div 2]
           step(f) == [x \in Nat |-> IF x = 0 THEN 0 ELSE 1 + f[x \div 2]]
<1>1. G \in [Nat \X Nat -> Nat] /\ \A i, v \in Nat : G[<<i, v>>] = 1 + v
    OBVIOUS
<1>2. /\ prev \in [Nat \ {0} -> Nat]
      /\ \A i \in Nat \ {0} : prev[i] = i \div 2 /\ prev[i] < i
    BY Halves
<1> HIDE DEF G, prev
<1>3. PICK f : Solves(f, 0, G, prev)
    <2>1. /\ G \in [Nat \X Nat -> Nat] /\ prev \in [Nat \ {0} -> Nat]
          /\ \A i \in Nat \ {0} : prev[i] < i
        BY <1>1, <1>2
    <2>2. 0 \in Nat
        OBVIOUS
    <2> QED BY <2>1, <2>2, NatRecursion
<1>4. \A i \in Nat \ {0} : f[i] = 1 + f[i \div 2]
    <2> TAKE i \in Nat \ {0}
    <2>1. i \div 2 \in Nat /\ i \in Nat
        BY Halves
    <2>2. f[i \div 2] \in Nat
        BY <1>3, <2>1 DEF Solves
    <2>3. f[i] = G[<<i, f[i \div 2]>>]
        BY <1>2, <1>3, Zenon DEF Solves
    <2> QED BY <1>1, <2>1, <2>2, <2>3
<1>5. f = step(f)
    <2>1. f = [x \in Nat |-> f[x]]
        BY <1>3 DEF Solves
    <2>2. \A x \in Nat : f[x] = IF x = 0 THEN 0 ELSE 1 + f[x \div 2]
        BY <1>3, <1>4 DEF Solves
    <2> QED BY <2>1, <2>2, Zenon
<1>6. bit_length = step(bit_length)
    <2>1. bit_length = CHOOSE g : g = step(g)
        BY Zenon DEF bit_length
    <2> HIDE DEF step
    <2> QED BY <1>5, <2>1, Zenon
<1>7. \A x \in Nat : bit_length[x] = IF x = 0 THEN 0 ELSE 1 + bit_length[x \div 2]
    <2>1. \A g : \A x \in Nat : step(g)[x] = IF x = 0 THEN 0 ELSE 1 + g[x \div 2]
        BY Zenon
    <2> HIDE DEF step
    <2> QED BY <1>6, <2>1, Zenon
<1> DEFINE S == {x \in Nat : bit_length[x] \in Nat}
<1>8. ASSUME NEW x \in Nat, \A j \in Nat : j < x => j \in S PROVE x \in S
    <2>1. CASE x = 0
        BY <1>7, <2>1
    <2>2. CASE x # 0
        <3>1. bit_length[x \div 2] \in Nat
            BY <1>8, <2>2, Halves
        <3> QED BY <1>7, <2>2, <3>1
    <2> QED BY <2>1, <2>2
<1>9. S \in SUBSET Nat
    OBVIOUS
<1> HIDE DEF S, step
<1>10. \A x \in Nat : x \in S
    BY <1>8, <1>9, StrongInduction
<1> QED BY <1>7, <1>10 DEF S

LEMMA CountFacts ==
    /\ bit_count[0] = 0
    /\ \A x \in Nat \ {0} : bit_count[x] = (x % 2) + bit_count[x \div 2]
    /\ \A x \in Nat : bit_count[x] \in Nat
<1> DEFINE G == [v \in Nat \X Nat |-> (v[1] % 2) + v[2]]
           prev == [i \in Nat \ {0} |-> i \div 2]
           step(f) == [x \in Nat |-> IF x = 0 THEN 0 ELSE (x % 2) + f[x \div 2]]
<1>1. G \in [Nat \X Nat -> Nat] /\ \A i, v \in Nat : G[<<i, v>>] = (i % 2) + v
    BY Halves
<1>2. /\ prev \in [Nat \ {0} -> Nat]
      /\ \A i \in Nat \ {0} : prev[i] = i \div 2 /\ prev[i] < i
    BY Halves
<1> HIDE DEF G, prev
<1>3. PICK f : Solves(f, 0, G, prev)
    <2>1. /\ G \in [Nat \X Nat -> Nat] /\ prev \in [Nat \ {0} -> Nat]
          /\ \A i \in Nat \ {0} : prev[i] < i
        BY <1>1, <1>2
    <2>2. 0 \in Nat
        OBVIOUS
    <2> QED BY <2>1, <2>2, NatRecursion
<1>4. \A i \in Nat \ {0} : f[i] = (i % 2) + f[i \div 2]
    <2> TAKE i \in Nat \ {0}
    <2>1. i \div 2 \in Nat /\ i \in Nat
        BY Halves
    <2>2. f[i \div 2] \in Nat
        BY <1>3, <2>1 DEF Solves
    <2>3. f[i] = G[<<i, f[i \div 2]>>]
        BY <1>2, <1>3, Zenon DEF Solves
    <2> QED BY <1>1, <2>1, <2>2, <2>3
<1>5. f = step(f)
    <2>1. f = [x \in Nat |-> f[x]]
        BY <1>3 DEF Solves
    <2>2. \A x \in Nat : f[x] = IF x = 0 THEN 0 ELSE (x % 2) + f[x \div 2]
        BY <1>3, <1>4 DEF Solves
    <2> QED BY <2>1, <2>2, Zenon
<1>6. bit_count = step(bit_count)
    <2>1. bit_count = CHOOSE g : g = step(g)
        BY Zenon DEF bit_count
    <2> HIDE DEF step
    <2> QED BY <1>5, <2>1, Zenon
<1>7. \A x \in Nat : bit_count[x] = IF x = 0 THEN 0 ELSE (x % 2) + bit_count[x \div 2]
    <2>1. \A g : \A x \in Nat : step(g)[x] = IF x = 0 THEN 0 ELSE (x % 2) + g[x \div 2]
        BY Zenon
    <2> HIDE DEF step
    <2> QED BY <1>6, <2>1, Zenon
<1> DEFINE S == {x \in Nat : bit_count[x] \in Nat}
<1>8. ASSUME NEW x \in Nat, \A j \in Nat : j < x => j \in S PROVE x \in S
    <2>1. CASE x = 0
        BY <1>7, <2>1
    <2>2. CASE x # 0
        <3>1. bit_count[x \div 2] \in Nat /\ x % 2 \in {0, 1}
            BY <1>8, <2>2, Halves
        <3> QED BY <1>7, <2>2, <3>1
    <2> QED BY <2>1, <2>2
<1>9. S \in SUBSET Nat
    OBVIOUS
<1> HIDE DEF S, step
<1>10. \A x \in Nat : x \in S
    BY <1>8, <1>9, StrongInduction
<1> QED BY <1>7, <1>10 DEF S

\* Powers grow with their exponents.
LEMMA PowersGrow ==
    ASSUME NEW i \in Nat, NEW j \in Nat, i =< j
    PROVE  Power[i] =< Power[j]
<1> DEFINE S == {k \in Nat : Power[i] =< Power[i + k]}
<1>1. ASSUME NEW k \in Nat, \A l \in Nat : l < k => l \in S PROVE k \in S
    <2>1. CASE k = 0
        BY <2>1, PowerFacts
    <2>2. CASE k # 0
        <3>1. k - 1 \in Nat /\ k - 1 < k /\ i + (k - 1) \in Nat /\ (i + (k - 1)) + 1 = i + k
            BY <2>2
        <3>2. Power[i] =< Power[i + (k - 1)]
            BY <1>1, <3>1
        <3>3. /\ Power[i] \in Nat /\ Power[i + (k - 1)] \in Nat
              /\ Power[i + k] = 2 * Power[i + (k - 1)]
            BY <3>1, PowerFacts
        <3>4. Power[i] =< Power[i + k]
            BY <3>2, <3>3
        <3> QED BY <3>4
    <2> QED BY <2>1, <2>2
<1>2. S \in SUBSET Nat
    OBVIOUS
<1> HIDE DEF S
<1>3. \A k \in Nat : k \in S
    BY <1>1, <1>2, StrongInduction
<1>4. j - i \in Nat /\ i + (j - i) = j
    OBVIOUS
<1> QED BY <1>3, <1>4 DEF S

\* The largest power of two of a number is twice that of its half.
LEMMA PowerOfHalf ==
    /\ largest_power_of_two(1) = 1
    /\ \A x \in Nat : x >= 2 => largest_power_of_two(x) = 2 * largest_power_of_two(x \div 2)
    /\ \A x \in Nat \ {0} :
            /\ bit_length[x] \in Nat /\ bit_length[x] >= 1
            /\ Power[bit_length[x]] = 2 * largest_power_of_two(x)
<1>1. bit_length[1] = 1
    <2>1. 1 \div 2 = 0
        OBVIOUS
    <2> QED BY <2>1, LengthFacts
<1>2. largest_power_of_two(1) = 1
    BY <1>1, PowerFacts DEF largest_power_of_two
<1>3. ASSUME NEW x \in Nat \ {0}
      PROVE  bit_length[x] \in Nat /\ bit_length[x] >= 1
    <2>1. x \div 2 \in Nat
        BY Halves
    <2>2. bit_length[x \div 2] \in Nat /\ bit_length[x] = 1 + bit_length[x \div 2]
        BY <2>1, LengthFacts
    <2> QED BY <2>2
<1>4. ASSUME NEW x \in Nat \ {0}
      PROVE  Power[bit_length[x]] = 2 * largest_power_of_two(x)
    <2> DEFINE k == bit_length[x] - 1
    <2>1. k \in Nat /\ k + 1 = bit_length[x]
        BY <1>3
    <2>2. Power[k + 1] = 2 * Power[k]
        BY <2>1, PowerFacts
    <2> QED BY <2>1, <2>2 DEF largest_power_of_two
<1>5. ASSUME NEW x \in Nat, x >= 2
      PROVE  largest_power_of_two(x) = 2 * largest_power_of_two(x \div 2)
    <2>1. x \div 2 \in Nat \ {0} /\ x \in Nat \ {0}
        BY <1>5
    <2>2. bit_length[x] = 1 + bit_length[x \div 2] /\ bit_length[x \div 2] \in Nat
        BY <2>1, LengthFacts
    <2>3. largest_power_of_two(x) = Power[bit_length[x \div 2]]
        BY <2>2 DEF largest_power_of_two
    <2> QED BY <1>4, <2>1, <2>3
<1> QED BY <1>2, <1>3, <1>4, <1>5

\* "assert k < n and n <= 2 * k" (mth), with k the power for n - 1.
LEMMA LargestPower ==
    \A x \in Nat \ {0} :
        /\ largest_power_of_two(x) \in Nat \ {0}
        /\ largest_power_of_two(x) =< x /\ x < 2 * largest_power_of_two(x)
<1> DEFINE p(x) == largest_power_of_two(x)
           S == {x \in Nat : x # 0 => p(x) \in Nat \ {0} /\ p(x) =< x /\ x < 2 * p(x)}
<1>1. ASSUME NEW x \in Nat, \A j \in Nat : j < x => j \in S PROVE x \in S
    <2>1. CASE x = 0
        BY <2>1
    <2>2. CASE x = 1
        BY <2>2, PowerOfHalf
    <2>3. CASE x >= 2
        <3> DEFINE h == x \div 2
        <3>1. h \in Nat \ {0} /\ h < x /\ (x = 2 * h \/ x = 2 * h + 1)
            BY <2>3, Halves
        <3>2. p(x) = 2 * p(h)
            BY <2>3, PowerOfHalf
        <3>3. p(h) \in Nat \ {0} /\ p(h) =< h /\ h < 2 * p(h)
            BY <1>1, <3>1
        <3> HIDE DEF h, p
        <3>4. p(x) \in Nat \ {0} /\ p(x) =< x /\ x < 2 * p(x)
            BY <3>1, <3>2, <3>3
        <3> QED BY <3>4
    <2> QED BY <2>1, <2>2, <2>3
<1>2. S \in SUBSET Nat
    OBVIOUS
<1> HIDE DEF S
<1>3. \A x \in Nat : x \in S
    BY <1>1, <1>2, StrongInduction
<1> QED BY <1>3 DEF S

\* A number and the one before it have the same largest power, unless it is one.
LEMMA SamePower ==
    \A x \in Nat \ {0} :
        largest_power_of_two(x) # x => largest_power_of_two(x - 1) = largest_power_of_two(x)
<1> DEFINE p(x) == largest_power_of_two(x)
           S == {x \in Nat : x # 0 /\ p(x) # x => p(x - 1) = p(x)}
<1>1. ASSUME NEW x \in Nat, \A j \in Nat : j < x => j \in S PROVE x \in S
    <2>1. CASE x = 0 \/ x = 1
        BY <2>1, PowerOfHalf
    <2>2. CASE x >= 2 /\ p(x) # x
        <3> DEFINE h == x \div 2
        <3>1. h \in Nat \ {0} /\ h < x /\ p(x) = 2 * p(h) /\ p(h) \in Nat \ {0} /\ p(h) =< h
            <4>1. h \in Nat \ {0} /\ h < x
                BY <2>2, Halves
            <4>2. p(x) = 2 * p(h)
                BY <2>2, PowerOfHalf
            <4>3. p(h) \in Nat \ {0} /\ p(h) =< h
                BY <4>1, LargestPower
            <4> QED BY <4>1, <4>2, <4>3
        <3>2. CASE x = 2 * h + 1
            <4>1. x - 1 \in Nat /\ x - 1 >= 2 /\ (x - 1) \div 2 = h
                BY <3>1, <3>2
            <4>2. p(x - 1) = 2 * p(h)
                BY <4>1, PowerOfHalf
            <4> QED BY <3>1, <4>2
        <3>3. CASE x = 2 * h
            <4>1. p(h) # h /\ h >= 2
                BY <2>2, <3>1, <3>3
            <4>2. p(h - 1) = p(h)
                BY <1>1, <3>1, <4>1
            <4>3. x - 1 \in Nat /\ x - 1 >= 2 /\ (x - 1) \div 2 = h - 1
                BY <3>1, <3>3, <4>1
            <4>4. p(x - 1) = 2 * p(h - 1)
                BY <4>3, PowerOfHalf
            <4> QED BY <3>1, <4>2, <4>4
        <3> QED BY <2>2, <3>2, <3>3, Halves
    <2> QED BY <2>1, <2>2
<1>2. S \in SUBSET Nat
    OBVIOUS
<1> HIDE DEF S
<1>3. \A x \in Nat : x \in S
    BY <1>1, <1>2, StrongInduction
<1> QED BY <1>3 DEF S

\* Without its largest power, a number has one bit less.
LEMMA BitsBelow ==
    \A x \in Nat \ {0} :
        /\ bit_count[x] = 1 + bit_count[x - largest_power_of_two(x)]
        /\ x - largest_power_of_two(x) \in Nat
        /\ bit_count[x - largest_power_of_two(x)] \in Nat
<1> DEFINE p(x) == largest_power_of_two(x)
           S == {x \in Nat : x # 0 => bit_count[x] = 1 + bit_count[x - p(x)]}
<1>1. ASSUME NEW x \in Nat, \A j \in Nat : j < x => j \in S PROVE x \in S
    <2>1. CASE x = 0
        BY <2>1
    <2>2. CASE x = 1
        <3>1. 1 \div 2 = 0 /\ 1 % 2 = 1
            OBVIOUS
        <3>2. bit_count[1] = 1 /\ bit_count[1 - p(1)] = 0
            BY <3>1, CountFacts, PowerOfHalf
        <3> QED BY <2>2, <3>2
    <2>3. CASE x >= 2
        <3> DEFINE h == x \div 2
                   r == x % 2
                   y == h - p(h)
        <3>1. h \in Nat \ {0} /\ h < x /\ r \in {0, 1} /\ x = 2 * h + r
            BY <2>3, Halves
        <3>2. p(x) = 2 * p(h) /\ p(h) \in Nat /\ p(h) =< h
            BY <2>3, <3>1, PowerOfHalf, LargestPower
        <3>3. bit_count[x] = r + bit_count[h] /\ bit_count[h] = 1 + bit_count[y]
            BY <1>1, <2>3, <3>1, CountFacts
        <3> HIDE DEF h, r
        <3>4. y \in Nat /\ x - p(x) = 2 * y + r
            BY <3>1, <3>2
        <3> HIDE DEF y, p
        <3>5. bit_count[2 * y + r] = r + bit_count[y]
            <4>1. CASE 2 * y + r = 0
                <5>1. y = 0 /\ r = 0
                    BY <3>1, <3>4, <4>1
                <5> QED BY <5>1, CountFacts
            <4>2. CASE 2 * y + r # 0
                <5>1. 2 * y + r \in Nat \ {0} /\ (2 * y + r) \div 2 = y /\ (2 * y + r) % 2 = r
                    BY <3>1, <3>4, <4>2
                <5> QED BY <5>1, CountFacts
            <4> QED BY <4>1, <4>2
        <3>6. bit_count[y] \in Nat
            BY <3>4, CountFacts
        <3>7. bit_count[x] = 1 + bit_count[x - p(x)]
            BY <3>1, <3>3, <3>4, <3>5, <3>6
        <3> QED BY <3>7
    <2> QED BY <2>1, <2>2, <2>3
<1>2. S \in SUBSET Nat
    OBVIOUS
<1> HIDE DEF S
<1>3. \A x \in Nat : x \in S
    BY <1>1, <1>2, StrongInduction
<1>4. \A x \in Nat \ {0} : x - p(x) \in Nat
    BY LargestPower
<1> QED BY <1>3, <1>4, CountFacts DEF S
-----------------------------------------------------------------------------
(* proof_hash *)

\* One turn of the loop.
Joined(s, digest) ==
    IF s.op = "L" THEN hash_nodes(s.digest, digest) ELSE hash_nodes(digest, s.digest)

Turn(a, digest, proof, i) == IF i = 0 THEN digest ELSE Joined(proof[i], a[i - 1])

Table(digest, proof) == CHOOSE a : a = [i \in 0 .. Len(proof) |-> Turn(a, digest, proof, i)]

LEMMA FoldIsTable ==
    ASSUME NEW digest, NEW proof
    PROVE  fold_proof(digest, proof) = Table(digest, proof)[Len(proof)]
BY Zenon DEF fold_proof, Table, Turn, Joined

LEMMA TableTurns ==
    ASSUME NEW digest, NEW proof, Len(proof) \in Nat
    PROVE  \A i \in 0 .. Len(proof) :
                Table(digest, proof)[i] = Turn(Table(digest, proof), digest, proof, i)
<1> DEFINE Right(a, k) == \A i \in 0 .. k : a[i] = Turn(a, digest, proof, i)
           S == {k \in Nat : \E a : Right(a, k)}
<1>1. ASSUME NEW k \in Nat, \A j \in Nat : j < k => j \in S PROVE k \in S
    <2>1. CASE k = 0
        <3> DEFINE a == [i \in {0} |-> digest]
        <3>1. a[0] = digest
            OBVIOUS
        <3> HIDE DEF a
        <3>2. Right(a, 0)
            BY <3>1 DEF Turn
        <3> QED BY <2>1, <3>2, Zenon
    <2>2. CASE k # 0
        <3>1. k - 1 \in Nat /\ k - 1 < k
            BY <2>2
        <3>2. PICK a : Right(a, k - 1)
            BY <1>1, <3>1, Zenon
        <3> DEFINE v == Turn(a, digest, proof, k)
                   c == [i \in 0 .. k |-> IF i < k THEN a[i] ELSE v]
        <3>3. \A i \in 0 .. k : c[i] = IF i < k THEN a[i] ELSE v
            OBVIOUS
        <3> HIDE DEF c
        <3>4. ASSUME NEW i \in 0 .. k PROVE c[i] = Turn(c, digest, proof, i)
            <4>1. i # 0 => i - 1 \in 0 .. k /\ i - 1 < k
                OBVIOUS
            <4>2. Turn(c, digest, proof, i) = Turn(a, digest, proof, i)
                BY <3>3, <4>1, Zenon DEF Turn
            <4>3. CASE i < k
                <5>1. i \in 0 .. (k - 1)
                    BY <4>3
                <5> QED BY <3>2, <3>3, <4>2, <4>3, <5>1, Zenon
            <4>4. CASE ~ (i < k)
                <5>1. i = k
                    BY <4>4
                <5> QED BY <3>3, <4>2, <4>4, <5>1, Zenon
            <4> QED BY <4>3, <4>4
        <3>5. Right(c, k)
            BY <3>4, Zenon
        <3> HIDE DEF Right
        <3> QED BY <3>5, Zenon
    <2> QED BY <2>1, <2>2
<1>2. S \in SUBSET Nat
    OBVIOUS
<1> HIDE DEF S
<1>3. Len(proof) \in S
    BY <1>1, <1>2, StrongInduction
<1>4. PICK a : Right(a, Len(proof))
    BY <1>3, Zenon DEF S
<1> DEFINE c == [i \in 0 .. Len(proof) |-> a[i]]
<1>5. \A i \in 0 .. Len(proof) : c[i] = a[i]
    OBVIOUS
<1>6. ASSUME NEW i \in 0 .. Len(proof) PROVE a[i] = Turn(c, digest, proof, i)
    <2> HIDE DEF c
    <2>1. i # 0 => i - 1 \in 0 .. Len(proof)
        OBVIOUS
    <2>2. Turn(c, digest, proof, i) = Turn(a, digest, proof, i)
        BY <1>5, <2>1, Zenon DEF Turn
    <2> QED BY <1>4, <2>2, Zenon
<1>7. c = [i \in 0 .. Len(proof) |-> Turn(c, digest, proof, i)]
    BY <1>6, Zenon
<1> HIDE DEF c
<1>8. Table(digest, proof) = [i \in 0 .. Len(proof) |-> Turn(Table(digest, proof), digest, proof, i)]
    BY <1>7, Zenon DEF Table
<1> HIDE DEF Table
<1> QED BY <1>8, Zenon

LEMMA FoldEmpty ==
    ASSUME NEW digest
    PROVE  fold_proof(digest, <<>>) = digest
<1>1. Len(<<>>) = 0 /\ 0 \in 0 .. Len(<<>>)
    OBVIOUS
<1>2. Table(digest, <<>>)[0] = Turn(Table(digest, <<>>), digest, <<>>, 0)
    BY <1>1, TableTurns
<1> QED BY <1>1, <1>2, FoldIsTable, Zenon DEF Turn

\* A proof: nothing is said of its digests.
IsProof(proof) == \E S : proof \in Seq(S)

LEMMA Appended ==
    ASSUME NEW proof, IsProof(proof), NEW s
    PROVE  /\ IsProof(Append(proof, s)) /\ Len(proof) \in Nat
           /\ Len(Append(proof, s)) = Len(proof) + 1
           /\ \A i \in 1 .. Len(proof) : Append(proof, s)[i] = proof[i]
           /\ Append(proof, s)[Len(proof) + 1] = s
<1>1. PICK S : proof \in Seq(S)
    BY DEF IsProof
<1> DEFINE T == S \cup {s}
<1>2. proof \in Seq(T) /\ s \in T
    BY <1>1
<1> HIDE DEF T
<1>3. Append(proof, s) \in Seq(T)
    BY <1>2
<1> QED BY <1>2, <1>3 DEF IsProof

LEMMA FoldAppend ==
    ASSUME NEW digest, NEW proof, IsProof(proof), NEW s
    PROVE  fold_proof(digest, Append(proof, s)) = Joined(s, fold_proof(digest, proof))
<1> DEFINE q == Append(proof, s)
           N == Len(proof)
           a == Table(digest, proof)
           c == Table(digest, q)
           S == {i \in Nat : i =< N => a[i] = c[i]}
<1>1. N \in Nat /\ Len(q) = N + 1 /\ q[N + 1] = s /\ \A i \in 1 .. N : q[i] = proof[i]
    BY Appended
<1>2. \A i \in 0 .. N : a[i] = Turn(a, digest, proof, i)
    BY <1>1, TableTurns, Zenon
<1>3. \A i \in 0 .. (N + 1) : c[i] = Turn(c, digest, q, i)
    <2>1. Len(q) \in Nat
        BY <1>1
    <2>2. \A i \in 0 .. Len(q) : c[i] = Turn(c, digest, q, i)
        BY <2>1, TableTurns, Zenon
    <2> HIDE DEF c, q, N
    <2> QED BY <1>1, <2>2, Zenon
<1>4. fold_proof(digest, proof) = a[N] /\ fold_proof(digest, q) = c[N + 1]
    BY <1>1, FoldIsTable, Zenon
<1> HIDE DEF q, N, a, c
<1>5. ASSUME NEW i \in Nat, \A j \in Nat : j < i => j \in S PROVE i \in S
    <2> SUFFICES ASSUME i =< N PROVE a[i] = c[i]
        OBVIOUS
    <2>1. i \in 0 .. N /\ i \in 0 .. (N + 1)
        BY <1>1
    <2>2. CASE i = 0
        BY <1>2, <1>3, <2>1, <2>2, Zenon DEF Turn
    <2>3. CASE i # 0
        <3>1. i - 1 \in Nat /\ i - 1 < i /\ i - 1 =< N /\ i \in 1 .. N
            BY <1>1, <2>3
        <3>2. a[i - 1] = c[i - 1]
            BY <1>5, <3>1, Zenon
        <3>3. q[i] = proof[i]
            BY <1>1, <3>1, Zenon
        <3> QED BY <1>2, <1>3, <2>1, <2>3, <3>2, <3>3, Zenon DEF Turn
    <2> QED BY <2>2, <2>3
<1>6. S \in SUBSET Nat
    OBVIOUS
<1> HIDE DEF S
<1>7. N \in S
    BY <1>1, <1>5, <1>6, StrongInduction
<1>8. a[N] = c[N]
    BY <1>1, <1>7 DEF S
<1>9. N + 1 \in 0 .. (N + 1) /\ N + 1 # 0 /\ (N + 1) - 1 = N
    BY <1>1
<1>10. c[N + 1] = Turn(c, digest, q, N + 1)
    BY <1>3, <1>9, Zenon
<1>11. c[N + 1] = Joined(s, c[N])
    BY <1>1, <1>9, <1>10, Zenon DEF Turn
<1> QED BY <1>4, <1>8, <1>11, Zenon DEF q

\* Distinct digests stay distinct: a proof verifies for one entry at most.
LEMMA JoinedIsInjective ==
    ASSUME NEW s, NEW x, NEW y, Joined(s, x) = Joined(s, y)
    PROVE  x = y
<1>1. CASE s.op = "L"
    <2>1. hash_nodes(s.digest, x) = hash_nodes(s.digest, y)
        BY <1>1 DEF Joined
    <2>2. hash_nodes(s.digest, x).right = x /\ hash_nodes(s.digest, y).right = y
        BY DEF hash_nodes
    <2> QED BY <2>1, <2>2
<1>2. CASE s.op # "L"
    <2>1. hash_nodes(x, s.digest) = hash_nodes(y, s.digest)
        BY <1>2 DEF Joined
    <2>2. hash_nodes(x, s.digest).left = x /\ hash_nodes(y, s.digest).left = y
        BY DEF hash_nodes
    <2> QED BY <2>1, <2>2
<1> QED BY <1>1, <1>2

LEMMA FoldIsInjective ==
    ASSUME NEW x, NEW y, NEW proof, IsProof(proof), fold_proof(x, proof) = fold_proof(y, proof)
    PROVE  x = y
<1> DEFINE N == Len(proof)
           a == Table(x, proof)
           c == Table(y, proof)
           S == {i \in Nat : i =< N /\ a[i] = c[i] => x = y}
<1>1. N \in Nat
    BY DEF IsProof
<1>2. /\ \A i \in 0 .. N : a[i] = Turn(a, x, proof, i)
      /\ \A i \in 0 .. N : c[i] = Turn(c, y, proof, i)
    BY <1>1, TableTurns, Zenon
<1>3. a[N] = c[N]
    BY FoldIsTable, Zenon
<1> HIDE DEF N, a, c
<1>4. ASSUME NEW i \in Nat, \A j \in Nat : j < i => j \in S PROVE i \in S
    <2> SUFFICES ASSUME i =< N, a[i] = c[i] PROVE x = y
        OBVIOUS
    <2>1. i \in 0 .. N
        BY <1>1
    <2>2. CASE i = 0
        BY <1>2, <2>1, <2>2, Zenon DEF Turn
    <2>3. CASE i # 0
        <3>1. i - 1 \in Nat /\ i - 1 < i /\ i - 1 =< N
            BY <1>1, <2>3
        <3>2. Joined(proof[i], a[i - 1]) = Joined(proof[i], c[i - 1])
            BY <1>2, <2>1, <2>3, Zenon DEF Turn
        <3>3. a[i - 1] = c[i - 1]
            BY <3>2, JoinedIsInjective, Zenon
        <3> QED BY <1>4, <3>1, <3>3, Zenon
    <2> QED BY <2>2, <2>3
<1>5. S \in SUBSET Nat
    OBVIOUS
<1> HIDE DEF S
<1>6. N \in S
    BY <1>1, <1>4, <1>5, StrongInduction
<1> QED BY <1>1, <1>3, <1>6 DEF S
-----------------------------------------------------------------------------
(* The tree of the entries. *)

Width(b) == b[2] - b[1]
Left(b) == <<b[1], Split(b) - 1>>
Right(b) == <<Split(b), b[2]>>

LEMMA Widths ==
    ASSUME NEW es, Len(es) \in Nat, NEW b \in Spans(es)
    PROVE  /\ b[1] \in 1 .. Len(es) /\ b[2] \in 1 .. Len(es) /\ b[1] =< b[2]
           /\ b = <<b[1], b[2]>> /\ Width(b) \in Nat /\ Width(b) < Len(es)
<1>1. /\ b[1] \in 1 .. Len(es) /\ b[2] \in 1 .. Len(es) /\ b[1] =< b[2]
      /\ b = <<b[1], b[2]>>
    BY DEF Spans
<1>2. b[1] \in Nat /\ b[2] \in Nat /\ 1 =< b[1] /\ b[2] =< Len(es)
    BY <1>1
<1> QED BY <1>1, <1>2 DEF Width

LEMMA SpansAre ==
    ASSUME NEW es, Len(es) \in Nat, NEW lo \in 1 .. Len(es), NEW hi \in 1 .. Len(es), lo =< hi
    PROVE  <<lo, hi>> \in Spans(es)
BY DEF Spans

\* Both halves of a list are not empty; the left one is the larger.
LEMMA SplitFits ==
    ASSUME NEW es, Len(es) \in Nat, NEW b \in Spans(es), b[1] # b[2]
    PROVE  /\ Split(b) \in Nat /\ b[1] < Split(b) /\ Split(b) =< b[2]
           /\ Left(b) \in Spans(es) /\ Right(b) \in Spans(es)
           /\ Width(Left(b)) < Width(b) /\ Width(Right(b)) < Width(b)
           /\ Width(b) \in Nat \ {0}
           /\ Width(Left(b)) + 1 = largest_power_of_two(Width(b))
           /\ Width(Right(b)) + 1 =< largest_power_of_two(Width(b))
<1> DEFINE l == b[1]
           r == b[2]
           N == Len(es)
           w == Width(b)
           p == largest_power_of_two(w)
<1>1. l \in Nat /\ r \in Nat /\ 1 =< l /\ l < r /\ r =< N /\ w = r - l /\ N \in Nat
    BY Widths DEF Width
<1>2. Split(b) = l + p
    BY DEF Split, Width
<1> HIDE DEF l, r, N, w
<1>3. w \in Nat \ {0}
    BY <1>1
<1>4. p \in Nat \ {0} /\ p =< w /\ w < 2 * p
    BY <1>3, LargestPower
<1> HIDE DEF p
<1>5. /\ l + p \in Nat /\ l < l + p /\ l + p =< r
      /\ l \in 1 .. N /\ r \in 1 .. N /\ l + p \in 1 .. N /\ (l + p) - 1 \in 1 .. N
      /\ l =< (l + p) - 1
    BY <1>1, <1>4
<1>6. Left(b) = <<l, (l + p) - 1>> /\ Right(b) = <<l + p, r>>
    BY <1>2 DEF Left, Right, l, r
<1>7. Left(b) \in Spans(es) /\ Right(b) \in Spans(es)
    BY <1>1, <1>5, <1>6, SpansAre DEF N
<1>8. Width(Left(b)) = p - 1 /\ Width(Right(b)) = (r - l) - p
    BY <1>1, <1>4, <1>6 DEF Width
<1>9. /\ p - 1 < w /\ (r - l) - p < w /\ (p - 1) + 1 = p /\ ((r - l) - p) + 1 =< p
    BY <1>1, <1>4
<1> QED BY <1>2, <1>3, <1>5, <1>7, <1>8, <1>9 DEF l, r, w, p

Node(T, es, b) ==
    IF b[1] = b[2] THEN hash_entry(es[b[1]]) ELSE hash_nodes(T[Left(b)], T[Right(b)])

LEMMA TreeIsTable ==
    ASSUME NEW es
    PROVE  tree(es) = CHOOSE T : T = [b \in Spans(es) |-> Node(T, es, b)]
BY Zenon DEF tree, Node, Left, Right

\* A node depends on smaller ones only.
LEMMA NodeDepends ==
    ASSUME NEW es, Len(es) \in Nat, NEW b \in Spans(es), NEW T, NEW U,
           \A c \in Spans(es) : Width(c) < Width(b) => T[c] = U[c]
    PROVE  Node(T, es, b) = Node(U, es, b)
<1>1. CASE b[1] = b[2]
    BY <1>1, Zenon DEF Node
<1>2. CASE b[1] # b[2]
    <2>1. T[Left(b)] = U[Left(b)] /\ T[Right(b)] = U[Right(b)]
        BY <1>2, SplitFits
    <2> QED BY <1>2, <2>1, Zenon DEF Node
<1> QED BY <1>1, <1>2

LEMMA TreeNodes ==
    ASSUME NEW es, Len(es) \in Nat
    PROVE  \A b \in Spans(es) : tree(es)[b] = Node(tree(es), es, b)
<1> DEFINE RightTo(T, k) == \A b \in Spans(es) : Width(b) < k => T[b] = Node(T, es, b)
           S == {k \in Nat : \E T : RightTo(T, k)}
<1>1. ASSUME NEW k \in Nat, \A j \in Nat : j < k => j \in S PROVE k \in S
    <2>1. CASE k = 0
        <3>1. \A b \in Spans(es) : ~ (Width(b) < 0)
            BY Widths
        <3>2. RightTo({}, 0)
            BY <3>1, Zenon
        <3> QED BY <2>1, <3>2, Zenon
    <2>2. CASE k # 0
        <3>1. k - 1 \in Nat /\ k - 1 < k
            BY <2>2
        <3>2. PICK T : RightTo(T, k - 1)
            BY <1>1, <3>1, Zenon
        <3> DEFINE U == [b \in Spans(es) |-> IF Width(b) < k - 1 THEN T[b] ELSE Node(T, es, b)]
        <3>3. \A b \in Spans(es) : U[b] = IF Width(b) < k - 1 THEN T[b] ELSE Node(T, es, b)
            BY Zenon
        <3>4. \A b \in Spans(es) : U[b] = Node(T, es, b) \/ ~ (Width(b) < k)
            BY <3>2, <3>3, Zenon
        <3> HIDE DEF U
        <3>5. ASSUME NEW b \in Spans(es), Width(b) < k PROVE U[b] = Node(U, es, b)
            <4>1. ASSUME NEW c \in Spans(es), Width(c) < Width(b) PROVE T[c] = U[c]
                <5>1. Width(c) < k - 1
                    BY <3>1, <3>5, <4>1, Widths
                <5> QED BY <3>3, <5>1, Zenon
            <4>2. Node(T, es, b) = Node(U, es, b)
                BY <4>1, NodeDepends
            <4> QED BY <3>4, <3>5, <4>2, Zenon
        <3>6. RightTo(U, k)
            BY <3>5, Zenon
        <3> HIDE DEF RightTo
        <3> QED BY <3>6, Zenon
    <2> QED BY <2>1, <2>2
<1>2. S \in SUBSET Nat
    OBVIOUS
<1> HIDE DEF S
<1>3. Len(es) \in S
    BY <1>1, <1>2, StrongInduction
<1>4. PICK T : RightTo(T, Len(es))
    BY <1>3, Zenon DEF S
<1>5. \A b \in Spans(es) : T[b] = Node(T, es, b)
    BY <1>4, Widths
<1> DEFINE U == [b \in Spans(es) |-> T[b]]
<1>6. \A b \in Spans(es) : U[b] = T[b]
    BY Zenon
<1>7. ASSUME NEW b \in Spans(es) PROVE T[b] = Node(U, es, b)
    <2> HIDE DEF U
    <2>1. Node(T, es, b) = Node(U, es, b)
        BY <1>6, NodeDepends
    <2> QED BY <1>5, <2>1, Zenon
<1>8. U = [b \in Spans(es) |-> Node(U, es, b)]
    BY <1>7, Zenon
<1> HIDE DEF U
<1> DEFINE V == tree(es)
<1>9. V = [b \in Spans(es) |-> Node(V, es, b)]
    BY <1>8, TreeIsTable, Zenon
<1> HIDE DEF V
<1>10. \A b \in Spans(es) : V[b] = Node(V, es, b)
    BY <1>9, Zenon
<1> QED BY <1>10 DEF V

\* What is outside a part of the list does not matter to its node.
LEMMA TreeIsLocal ==
    ASSUME NEW es, Len(es) \in Nat, NEW fs, Len(fs) \in Nat,
           NEW b \in Spans(es), b \in Spans(fs),
           \A i \in b[1] .. b[2] : es[i] = fs[i]
    PROVE  tree(es)[b] = tree(fs)[b]
<1> DEFINE Inside(c) == c \in Spans(es) /\ c \in Spans(fs) /\ b[1] =< c[1] /\ c[2] =< b[2]
           S == {k \in Nat : \A c : Inside(c) /\ Width(c) = k => tree(es)[c] = tree(fs)[c]}
<1>1. ASSUME NEW k \in Nat, \A j \in Nat : j < k => j \in S PROVE k \in S
    <2> SUFFICES ASSUME NEW c, Inside(c), Width(c) = k PROVE tree(es)[c] = tree(fs)[c]
        BY Zenon
    <2>1. tree(es)[c] = Node(tree(es), es, c) /\ tree(fs)[c] = Node(tree(fs), fs, c)
        BY TreeNodes
    <2>2. CASE c[1] = c[2]
        <3>1. c[1] \in b[1] .. b[2]
            BY <2>2, Widths
        <3>2. es[c[1]] = fs[c[1]]
            BY <3>1, Zenon
        <3>3. tree(es)[c] = hash_entry(es[c[1]]) /\ tree(fs)[c] = hash_entry(fs[c[1]])
            BY <2>1, <2>2, Zenon DEF Node
        <3> QED BY <3>2, <3>3
    <2>3. CASE c[1] # c[2]
        <3>1. /\ Left(c) \in Spans(es) /\ Right(c) \in Spans(es)
              /\ Left(c) \in Spans(fs) /\ Right(c) \in Spans(fs)
              /\ Width(Left(c)) < k /\ Width(Right(c)) < k
              /\ Width(Left(c)) \in Nat /\ Width(Right(c)) \in Nat
            BY <2>3, SplitFits, Widths
        <3>2. /\ Left(c)[1] = c[1] /\ Right(c)[2] = c[2]
              /\ Left(c)[2] = Split(c) - 1 /\ Right(c)[1] = Split(c)
              /\ Split(c) \in Nat /\ c[1] < Split(c) /\ Split(c) =< c[2]
            BY <2>3, SplitFits DEF Left, Right
        <3>3. b[1] \in Nat /\ b[2] \in Nat /\ c[1] \in Nat /\ c[2] \in Nat
            BY Widths
        <3>4. Inside(Left(c)) /\ Inside(Right(c))
            BY <3>1, <3>2, <3>3
        <3>5. /\ tree(es)[Left(c)] = tree(fs)[Left(c)]
              /\ tree(es)[Right(c)] = tree(fs)[Right(c)]
            <4> HIDE DEF Inside
            <4>1. Width(Left(c)) \in S /\ Width(Right(c)) \in S
                BY <1>1, <3>1
            <4> QED BY <3>4, <4>1, Zenon
        <3> QED BY <2>1, <2>3, <3>5, Zenon DEF Node
    <2> QED BY <2>2, <2>3
<1>2. S \in SUBSET Nat
    BY Zenon
<1>3. Inside(b) /\ Width(b) \in Nat
    BY Widths
<1> HIDE DEF S, Inside
<1>4. Width(b) \in S
    BY <1>1, <1>2, <1>3, StrongInduction
<1> QED BY <1>3, <1>4, Zenon DEF S
-----------------------------------------------------------------------------
(* The paths. *)

Above(S, m, es, b) ==
    IF b[1] = b[2] THEN <<>>
    ELSE IF m < Split(b) THEN Append(S[Left(b)], [op |-> "R", digest |-> tree(es)[Right(b)]])
    ELSE Append(S[Right(b)], [op |-> "L", digest |-> tree(es)[Left(b)]])

Siblings(m, es) == CHOOSE S : S = [b \in Spans(es) |-> Above(S, m, es, b)]

LEMMA PathIsTable ==
    ASSUME NEW m, NEW es
    PROVE  path(m, es) = Siblings(m, es)[<<1, Len(es)>>]
BY Zenon DEF path, Siblings, Above, Left, Right

LEMMA AboveDepends ==
    ASSUME NEW m, NEW es, Len(es) \in Nat, NEW b \in Spans(es), NEW T, NEW U,
           \A c \in Spans(es) : Width(c) < Width(b) => T[c] = U[c]
    PROVE  Above(T, m, es, b) = Above(U, m, es, b)
<1>1. CASE b[1] = b[2]
    BY <1>1, Zenon DEF Above
<1>2. CASE b[1] # b[2]
    <2>1. T[Left(b)] = U[Left(b)] /\ T[Right(b)] = U[Right(b)]
        BY <1>2, SplitFits
    <2> QED BY <1>2, <2>1, Zenon DEF Above
<1> QED BY <1>1, <1>2

LEMMA SiblingsAbove ==
    ASSUME NEW m, NEW es, Len(es) \in Nat
    PROVE  \A b \in Spans(es) : Siblings(m, es)[b] = Above(Siblings(m, es), m, es, b)
<1> DEFINE RightTo(T, k) == \A b \in Spans(es) : Width(b) < k => T[b] = Above(T, m, es, b)
           S == {k \in Nat : \E T : RightTo(T, k)}
<1>1. ASSUME NEW k \in Nat, \A j \in Nat : j < k => j \in S PROVE k \in S
    <2>1. CASE k = 0
        <3>1. \A b \in Spans(es) : ~ (Width(b) < 0)
            BY Widths
        <3>2. RightTo({}, 0)
            BY <3>1, Zenon
        <3> QED BY <2>1, <3>2, Zenon
    <2>2. CASE k # 0
        <3>1. k - 1 \in Nat /\ k - 1 < k
            BY <2>2
        <3>2. PICK T : RightTo(T, k - 1)
            BY <1>1, <3>1, Zenon
        <3> DEFINE U == [b \in Spans(es) |-> IF Width(b) < k - 1 THEN T[b] ELSE Above(T, m, es, b)]
        <3>3. \A b \in Spans(es) : U[b] = IF Width(b) < k - 1 THEN T[b] ELSE Above(T, m, es, b)
            BY Zenon
        <3>4. \A b \in Spans(es) : U[b] = Above(T, m, es, b) \/ ~ (Width(b) < k)
            BY <3>2, <3>3, Zenon
        <3> HIDE DEF U
        <3>5. ASSUME NEW b \in Spans(es), Width(b) < k PROVE U[b] = Above(U, m, es, b)
            <4>1. ASSUME NEW c \in Spans(es), Width(c) < Width(b) PROVE T[c] = U[c]
                <5>1. Width(c) < k - 1
                    BY <3>1, <3>5, <4>1, Widths
                <5> QED BY <3>3, <5>1, Zenon
            <4>2. Above(T, m, es, b) = Above(U, m, es, b)
                BY <4>1, AboveDepends
            <4> QED BY <3>4, <3>5, <4>2, Zenon
        <3>6. RightTo(U, k)
            BY <3>5, Zenon
        <3> HIDE DEF RightTo
        <3> QED BY <3>6, Zenon
    <2> QED BY <2>1, <2>2
<1>2. S \in SUBSET Nat
    OBVIOUS
<1> HIDE DEF S
<1>3. Len(es) \in S
    BY <1>1, <1>2, StrongInduction
<1>4. PICK T : RightTo(T, Len(es))
    BY <1>3, Zenon DEF S
<1>5. \A b \in Spans(es) : T[b] = Above(T, m, es, b)
    BY <1>4, Widths
<1> DEFINE U == [b \in Spans(es) |-> T[b]]
<1>6. \A b \in Spans(es) : U[b] = T[b]
    BY Zenon
<1>7. ASSUME NEW b \in Spans(es) PROVE T[b] = Above(U, m, es, b)
    <2> HIDE DEF U
    <2>1. Above(T, m, es, b) = Above(U, m, es, b)
        BY <1>6, AboveDepends
    <2> QED BY <1>5, <2>1, Zenon
<1>8. U = [b \in Spans(es) |-> Above(U, m, es, b)]
    BY <1>7, Zenon
<1> HIDE DEF U
<1>9. Siblings(m, es) = [b \in Spans(es) |-> Above(Siblings(m, es), m, es, b)]
    BY <1>8, Zenon DEF Siblings
<1> HIDE DEF Siblings
<1> QED BY <1>9, Zenon

\* Induction on the width of a part of the list.
LEMMA SpanInduction ==
    ASSUME NEW es, Len(es) \in Nat, NEW Good \in SUBSET Spans(es),
           \A b \in Spans(es) :
                (\A c \in Spans(es) : Width(c) < Width(b) => c \in Good) => b \in Good
    PROVE  \A b \in Spans(es) : b \in Good
<1> DEFINE S == {k \in Nat : \A b \in Spans(es) : Width(b) = k => b \in Good}
<1>1. ASSUME NEW k \in Nat, \A j \in Nat : j < k => j \in S PROVE k \in S
    <2> SUFFICES ASSUME NEW b \in Spans(es), Width(b) = k PROVE b \in Good
        BY Zenon
    <2>1. \A c \in Spans(es) : Width(c) < Width(b) => c \in Good
        <3> TAKE c \in Spans(es)
        <3>1. Width(c) \in Nat
            BY Widths
        <3> QED BY <1>1, <3>1, Zenon
    <2> QED BY <2>1, Zenon
<1>2. S \in SUBSET Nat
    OBVIOUS
<1> HIDE DEF S
<1>3. \A k \in Nat : k \in S
    BY <1>1, <1>2, StrongInduction
<1>4. \A b \in Spans(es) : Width(b) \in Nat
    BY Widths
<1> QED BY <1>3, <1>4, Zenon DEF S

\* The half that has the m-th entry.
Half(m, b) == IF m < Split(b) THEN Left(b) ELSE Right(b)
Sibling(m, es, b) ==
    IF m < Split(b) THEN [op |-> "R", digest |-> tree(es)[Right(b)]]
    ELSE [op |-> "L", digest |-> tree(es)[Left(b)]]

LEMMA HalfHas ==
    ASSUME NEW es, Len(es) \in Nat, NEW b \in Spans(es), b[1] # b[2], NEW m \in b[1] .. b[2]
    PROVE  /\ Half(m, b) \in Spans(es) /\ m \in Half(m, b)[1] .. Half(m, b)[2]
           /\ Width(Half(m, b)) < Width(b)
           /\ Width(Half(m, b)) + 1 =< largest_power_of_two(Width(b))
           /\ Siblings(m, es)[b] = Append(Siblings(m, es)[Half(m, b)], Sibling(m, es, b))
           /\ tree(es)[b] = Joined(Sibling(m, es, b), tree(es)[Half(m, b)])
<1>1. /\ Split(b) \in Nat /\ b[1] < Split(b) /\ Split(b) =< b[2]
      /\ Left(b) \in Spans(es) /\ Right(b) \in Spans(es)
      /\ Width(Left(b)) < Width(b) /\ Width(Right(b)) < Width(b)
      /\ Width(Left(b)) + 1 = largest_power_of_two(Width(b))
      /\ Width(Right(b)) + 1 =< largest_power_of_two(Width(b))
      /\ Width(Left(b)) \in Nat
    BY SplitFits, Widths
<1>2. b[1] \in Nat /\ b[2] \in Nat
    BY Widths
<1>3. m \in Half(m, b)[1] .. Half(m, b)[2]
    BY <1>1, <1>2 DEF Half, Left, Right
<1>4. Siblings(m, es)[b] = Above(Siblings(m, es), m, es, b)
    BY SiblingsAbove
<1>5. tree(es)[b] = hash_nodes(tree(es)[Left(b)], tree(es)[Right(b)])
    BY TreeNodes, Zenon DEF Node
<1>6. CASE m < Split(b)
    <2>1. Half(m, b) = Left(b) /\ Sibling(m, es, b) = [op |-> "R", digest |-> tree(es)[Right(b)]]
        BY <1>6 DEF Half, Sibling
    <2>2. Joined(Sibling(m, es, b), tree(es)[Left(b)]) = tree(es)[b]
        BY <1>5, <2>1 DEF Joined
    <2>3. Siblings(m, es)[b] = Append(Siblings(m, es)[Half(m, b)], Sibling(m, es, b))
        BY <1>4, <1>6, <2>1, Zenon DEF Above
    <2>4. Width(Left(b)) + 1 =< largest_power_of_two(Width(b))
        BY <1>1
    <2> QED BY <1>1, <1>3, <2>1, <2>2, <2>3, <2>4, Zenon
<1>7. CASE ~ (m < Split(b))
    <2>1. Half(m, b) = Right(b) /\ Sibling(m, es, b) = [op |-> "L", digest |-> tree(es)[Left(b)]]
        BY <1>7 DEF Half, Sibling
    <2>2. Joined(Sibling(m, es, b), tree(es)[Right(b)]) = tree(es)[b]
        BY <1>5, <2>1 DEF Joined
    <2>3. Siblings(m, es)[b] = Append(Siblings(m, es)[Half(m, b)], Sibling(m, es, b))
        BY <1>4, <1>7, <2>1, Zenon DEF Above
    <2> QED BY <1>1, <1>3, <2>1, <2>2, <2>3, Zenon
<1> QED BY <1>6, <1>7

LEMMA LeafHas ==
    ASSUME NEW es, Len(es) \in Nat, NEW b \in Spans(es), b[1] = b[2], NEW m \in b[1] .. b[2]
    PROVE  /\ Siblings(m, es)[b] = <<>>
           /\ tree(es)[b] = hash_entry(es[m])
<1>1. m = b[1]
    BY Widths
<1>2. Siblings(m, es)[b] = <<>>
    <2>1. Siblings(m, es)[b] = Above(Siblings(m, es), m, es, b)
        BY SiblingsAbove
    <2> QED BY <2>1, Zenon DEF Above
<1>3. tree(es)[b] = hash_entry(es[b[1]])
    BY TreeNodes, Zenon DEF Node
<1> QED BY <1>1, <1>2, <1>3, Zenon

\* A path leads from the entry it was made for to the root.
LEMMA PathVerifies ==
    ASSUME NEW es, Len(es) \in Nat, NEW b \in Spans(es), NEW m \in b[1] .. b[2]
    PROVE  /\ IsProof(Siblings(m, es)[b])
           /\ fold_proof(hash_entry(es[m]), Siblings(m, es)[b]) = tree(es)[b]
<1> DEFINE S == Siblings(m, es)
           e == hash_entry(es[m])
           Good == {c \in Spans(es) : m \in c[1] .. c[2] =>
                        IsProof(S[c]) /\ fold_proof(e, S[c]) = tree(es)[c]}
<1>1. ASSUME NEW c \in Spans(es), \A d \in Spans(es) : Width(d) < Width(c) => d \in Good
      PROVE  c \in Good
    <2> SUFFICES ASSUME m \in c[1] .. c[2]
                 PROVE  IsProof(S[c]) /\ fold_proof(e, S[c]) = tree(es)[c]
        BY Zenon
    <2>1. CASE c[1] = c[2]
        <3>1. S[c] = <<>> /\ tree(es)[c] = e
            BY <2>1, LeafHas
        <3>2. IsProof(<<>>)
            BY DEF IsProof
        <3>3. fold_proof(e, <<>>) = e
            BY FoldEmpty
        <3> HIDE DEF S, e
        <3> QED BY <3>1, <3>2, <3>3
    <2>2. CASE c[1] # c[2]
        <3> DEFINE d == Half(m, c)
                   s == Sibling(m, es, c)
        <3>1. /\ d \in Spans(es) /\ m \in d[1] .. d[2] /\ Width(d) < Width(c)
              /\ S[c] = Append(S[d], s) /\ tree(es)[c] = Joined(s, tree(es)[d])
            BY <2>2, HalfHas
        <3> HIDE DEF d, s, S, e
        <3>2. IsProof(S[d]) /\ fold_proof(e, S[d]) = tree(es)[d]
            BY <1>1, <3>1, Zenon
        <3>3. IsProof(Append(S[d], s))
            BY <3>2, Appended
        <3>4. fold_proof(e, Append(S[d], s)) = Joined(s, fold_proof(e, S[d]))
            BY <3>2, FoldAppend
        <3> QED BY <3>1, <3>2, <3>3, <3>4
    <2> QED BY <2>1, <2>2
<1>2. Good \in SUBSET Spans(es)
    BY Zenon
<1> HIDE DEF Good
<1>3. b \in Good
    BY <1>1, <1>2, SpanInduction
<1> QED BY <1>3, Zenon DEF Good

\* A tree of at most 2^h leaves has paths of at most h nodes.
LEMMA PathFits ==
    ASSUME NEW es, Len(es) \in Nat, NEW b \in Spans(es), NEW m \in b[1] .. b[2],
           NEW h \in Nat, Width(b) + 1 =< Power[h]
    PROVE  Len(Siblings(m, es)[b]) =< h
<1> DEFINE S == Siblings(m, es)
           Good == {c \in Spans(es) : m \in c[1] .. c[2] =>
                        \A k \in Nat : Width(c) + 1 =< Power[k] => Len(S[c]) =< k}
<1>1. ASSUME NEW c \in Spans(es), \A d \in Spans(es) : Width(d) < Width(c) => d \in Good
      PROVE  c \in Good
    <2> SUFFICES ASSUME m \in c[1] .. c[2], NEW k \in Nat, Width(c) + 1 =< Power[k]
                 PROVE  Len(S[c]) =< k
        BY Zenon
    <2>1. CASE c[1] = c[2]
        <3>1. S[c] = <<>>
            BY <2>1, LeafHas
        <3> HIDE DEF S
        <3> QED BY <3>1
    <2>2. CASE c[1] # c[2]
        <3> DEFINE d == Half(m, c)
                   s == Sibling(m, es, c)
                   w == Width(c)
                   i == bit_length[w] - 1
                   p == largest_power_of_two(w)
        <3>1. /\ d \in Spans(es) /\ m \in d[1] .. d[2] /\ Width(d) < Width(c)
              /\ S[c] = Append(S[d], s) /\ Width(d) + 1 =< largest_power_of_two(w)
            BY <2>2, HalfHas
        <3>2. w \in Nat \ {0}
            BY <2>2, SplitFits
        <3>3. IsProof(S[d])
            BY <3>1, PathVerifies
        <3> HIDE DEF d, s, S, w
        <3>4. i \in Nat /\ p = Power[i] /\ p =< w /\ p \in Nat
            BY <3>2, PowerOfHalf, LargestPower DEF largest_power_of_two
        <3>5. w + 1 =< Power[k] /\ Power[k] \in Nat
            BY PowerFacts DEF w
        <3>6. Width(d) + 1 =< p
            BY <3>1
        <3> HIDE DEF i, p
        <3>7. i < k
            <4> SUFFICES ASSUME k =< i PROVE FALSE
                BY <3>4
            <4>1. Power[k] =< Power[i]
                BY <3>4, PowersGrow
            <4> QED BY <3>2, <3>4, <3>5, <4>1
        <3>8. k - 1 \in Nat /\ i =< k - 1
            BY <3>4, <3>7
        <3>9. p =< Power[k - 1] /\ Power[k - 1] \in Nat
            BY <3>4, <3>8, PowersGrow, PowerFacts
        <3>10. Width(d) + 1 =< Power[k - 1]
            <4>1. Width(d) \in Nat
                BY <3>1, Widths
            <4>2. \A x, y, z \in Nat : x + 1 =< y /\ y =< z => x + 1 =< z
                OBVIOUS
            <4> QED BY <3>4, <3>6, <3>9, <4>1, <4>2, Zenon
        <3>11. Len(S[d]) =< k - 1
            BY <1>1, <3>1, <3>8, <3>10, Zenon
        <3>12. Len(Append(S[d], s)) = Len(S[d]) + 1 /\ Len(S[d]) \in Nat
            BY <3>3, Appended
        <3> QED BY <3>1, <3>8, <3>11, <3>12
    <2> QED BY <2>1, <2>2
<1>2. Good \in SUBSET Spans(es)
    BY Zenon
<1> HIDE DEF Good
<1>3. b \in Good
    BY <1>1, <1>2, SpanInduction
<1> QED BY <1>3, Zenon DEF Good

\* The path of an entry does not depend on the entry.
LEMMA PathIsOfOthers ==
    ASSUME NEW es, Len(es) \in Nat, NEW fs, Len(fs) = Len(es),
           NEW m, \A i \in 1 .. Len(es) : i # m => es[i] = fs[i],
           NEW b \in Spans(es), m \in b[1] .. b[2]
    PROVE  Siblings(m, es)[b] = Siblings(m, fs)[b]
<1> DEFINE Good == {c \in Spans(es) : m \in c[1] .. c[2] =>
                        Siblings(m, es)[c] = Siblings(m, fs)[c]}
<1>1. Spans(fs) = Spans(es) /\ Len(fs) \in Nat
    BY DEF Spans
<1>2. ASSUME NEW c \in Spans(es), \A d \in Spans(es) : Width(d) < Width(c) => d \in Good
      PROVE  c \in Good
    <2> SUFFICES ASSUME m \in c[1] .. c[2] PROVE Siblings(m, es)[c] = Siblings(m, fs)[c]
        BY Zenon
    <2>1. CASE c[1] = c[2]
        BY <1>1, <2>1, LeafHas
    <2>2. CASE c[1] # c[2]
        <3> DEFINE d == Half(m, c)
        <3>1. /\ d \in Spans(es) /\ m \in d[1] .. d[2] /\ Width(d) < Width(c)
              /\ Siblings(m, es)[c] = Append(Siblings(m, es)[d], Sibling(m, es, c))
              /\ Siblings(m, fs)[c] = Append(Siblings(m, fs)[d], Sibling(m, fs, c))
            BY <1>1, <2>2, HalfHas
        <3>2. Siblings(m, es)[d] = Siblings(m, fs)[d]
            BY <1>2, <3>1, Zenon
        <3>3. Sibling(m, es, c) = Sibling(m, fs, c)
            <4>1. /\ Split(c) \in Nat /\ c[1] < Split(c) /\ Split(c) =< c[2]
                  /\ Left(c) \in Spans(es) /\ Right(c) \in Spans(es)
                BY <2>2, SplitFits
            <4>2. c[1] \in 1 .. Len(es) /\ c[2] \in 1 .. Len(es)
                BY Widths
            <4>3. CASE m < Split(c)
                <5>1. \A i \in Right(c)[1] .. Right(c)[2] : es[i] = fs[i]
                    BY <4>1, <4>2, <4>3 DEF Right
                <5>2. tree(es)[Right(c)] = tree(fs)[Right(c)]
                    BY <1>1, <4>1, <5>1, TreeIsLocal
                <5> QED BY <4>3, <5>2, Zenon DEF Sibling
            <4>4. CASE ~ (m < Split(c))
                <5>1. \A i \in Left(c)[1] .. Left(c)[2] : es[i] = fs[i]
                    BY <4>1, <4>2, <4>4 DEF Left
                <5>2. tree(es)[Left(c)] = tree(fs)[Left(c)]
                    BY <1>1, <4>1, <5>1, TreeIsLocal
                <5> QED BY <4>4, <5>2, Zenon DEF Sibling
            <4> QED BY <4>3, <4>4
        <3> HIDE DEF d
        <3> QED BY <3>1, <3>2, <3>3, Zenon
    <2> QED BY <2>1, <2>2
<1>3. Good \in SUBSET Spans(es)
    BY Zenon
<1> HIDE DEF Good
<1>4. b \in Good
    BY <1>2, <1>3, SpanInduction
<1> QED BY <1>4, Zenon DEF Good
-----------------------------------------------------------------------------
(* merkle_insert *)

LEMMA PartsOfProof ==
    ASSUME NEW proof, IsProof(proof)
    PROVE  /\ Len(proof) \in Nat /\ SubSeq(proof, 1, Len(proof)) = proof
           /\ SubSeq(proof, Len(proof) + 1, Len(proof)) = <<>>
           /\ \A l \in 0 .. Len(proof) :
                IsProof(SubSeq(proof, 1, l)) /\ IsProof(SubSeq(proof, l + 1, Len(proof)))
<1>1. PICK S : proof \in Seq(S)
    BY DEF IsProof
<1>2. Len(proof) \in Nat /\ \A i \in 1 .. Len(proof) : proof[i] \in S
    BY <1>1
<1>3. SubSeq(proof, 1, Len(proof)) = proof
    BY <1>1, SubSeqFull
<1>4. SubSeq(proof, Len(proof) + 1, Len(proof)) = <<>>
    BY <1>2, SubSeqEmpty
<1>5. ASSUME NEW l \in 0 .. Len(proof)
      PROVE  SubSeq(proof, 1, l) \in Seq(S) /\ SubSeq(proof, l + 1, Len(proof)) \in Seq(S)
    <2>1. \A i \in 1 .. l : proof[i] \in S
        BY <1>2
    <2>2. \A i \in (l + 1) .. Len(proof) : proof[i] \in S
        BY <1>2
    <2>3. SubSeq(proof, 1, l) \in Seq(S)
        BY <2>1, SubSeqProperties
    <2>4. SubSeq(proof, l + 1, Len(proof)) \in Seq(S)
        BY <1>2, <2>2, SubSeqProperties
    <2> QED BY <2>3, <2>4
<1> QED BY <1>2, <1>3, <1>4, <1>5 DEF IsProof

LEMMA PartsOfAppended ==
    ASSUME NEW proof, IsProof(proof), NEW s, NEW l \in 0 .. Len(proof)
    PROVE  /\ SubSeq(Append(proof, s), 1, l) = SubSeq(proof, 1, l)
           /\ SubSeq(Append(proof, s), l + 1, Len(proof) + 1)
                = Append(SubSeq(proof, l + 1, Len(proof)), s)
<1>1. PICK T : proof \in Seq(T)
    BY DEF IsProof
<1> DEFINE S == T \cup {s}
           N == Len(proof)
           q == Append(proof, s)
<1>2. proof \in Seq(S) /\ s \in S /\ N \in Nat
    BY <1>1
<1> HIDE DEF S
<1>3. /\ \A i \in 1 .. N : q[i] = proof[i] /\ proof[i] \in S
      /\ q[N + 1] = s
    BY <1>2, AppendProperties
<1> HIDE DEF N, q
<1>4. SubSeq(q, 1, l) = SubSeq(proof, 1, l)
    <2>1. l \in Nat /\ l =< N /\ \A i \in 1 .. l : q[i] = proof[i] /\ proof[i] \in S /\ q[i] \in S
        BY <1>2, <1>3 DEF N
    <2>2. /\ SubSeq(q, 1, l) \in Seq(S) /\ Len(SubSeq(q, 1, l)) = l
          /\ \A i \in 1 .. l : SubSeq(q, 1, l)[i] = q[i]
        BY <2>1, SubSeqProperties
    <2>3. /\ SubSeq(proof, 1, l) \in Seq(S) /\ Len(SubSeq(proof, 1, l)) = l
          /\ \A i \in 1 .. l : SubSeq(proof, 1, l)[i] = proof[i]
        BY <2>1, SubSeqProperties
    <2>4. \A i \in 1 .. l : SubSeq(q, 1, l)[i] = SubSeq(proof, 1, l)[i]
        BY <2>1, <2>2, <2>3
    <2> QED BY <2>2, <2>3, <2>4, SeqEqual
<1>5. SubSeq(q, l + 1, N + 1) = Append(SubSeq(proof, l + 1, N), s)
    <2> DEFINE u == SubSeq(q, l + 1, N + 1)
               v == SubSeq(proof, l + 1, N)
               w == Append(v, s)
    <2>1. l \in Nat /\ l =< N
        BY DEF N
    <2>2. \A i \in (l + 1) .. (N + 1) : q[i] \in S
        <3> TAKE i \in (l + 1) .. (N + 1)
        <3>1. i \in 1 .. N \/ i = N + 1
            BY <1>2, <2>1
        <3> QED BY <1>2, <1>3, <3>1
    <2>3. \A i \in (l + 1) .. N : proof[i] \in S
        BY <1>2, <1>3, <2>1
    <2>4. /\ u \in Seq(S) /\ Len(u) = (N + 1) - l
          /\ \A i \in 1 .. ((N + 1) - l) : u[i] = q[l + i]
        <3>1. /\ u \in Seq(S)
              /\ Len(u) = IF l + 1 =< N + 1 THEN (N + 1) - (l + 1) + 1 ELSE 0
              /\ \A i \in 1 .. ((N + 1) - (l + 1) + 1) : u[i] = q[(l + 1) + i - 1]
            BY <1>2, <2>1, <2>2, SubSeqProperties
        <3>2. (N + 1) - (l + 1) + 1 = (N + 1) - l /\ \A i \in Nat : (l + 1) + i - 1 = l + i
            BY <1>2, <2>1
        <3> HIDE DEF u
        <3> QED BY <1>2, <2>1, <3>1, <3>2
    <2>5. /\ v \in Seq(S) /\ Len(v) = N - l
          /\ \A i \in 1 .. (N - l) : v[i] = proof[l + i]
        <3>1. /\ v \in Seq(S)
              /\ Len(v) = IF l + 1 =< N THEN N - (l + 1) + 1 ELSE 0
              /\ \A i \in 1 .. (N - (l + 1) + 1) : v[i] = proof[(l + 1) + i - 1]
            BY <1>2, <2>1, <2>3, SubSeqProperties
        <3>2. (IF l + 1 =< N THEN N - (l + 1) + 1 ELSE 0) = N - l
            BY <1>2, <2>1
        <3>3. N - (l + 1) + 1 = N - l /\ \A i \in 1 .. (N - l) : (l + 1) + i - 1 = l + i
            BY <1>2, <2>1
        <3> HIDE DEF v
        <3>4. Len(v) = N - l
            BY <3>1, <3>2
        <3>5. ASSUME NEW i \in 1 .. (N - l) PROVE v[i] = proof[l + i]
            BY <3>1, <3>3, Zenon
        <3> QED BY <3>1, <3>4, <3>5
    <2> HIDE DEF u, v
    <2>6. /\ w \in Seq(S) /\ Len(w) = (N + 1) - l
          /\ \A i \in 1 .. (N - l) : w[i] = v[i]
          /\ w[(N + 1) - l] = s
        <3>0. v \in Seq(S) /\ s \in S
            BY <1>2, <2>5
        <3>1. /\ w \in Seq(S) /\ Len(w) = Len(v) + 1
              /\ \A i \in 1 .. Len(v) : w[i] = v[i]
              /\ w[Len(v) + 1] = s
            BY <3>0, AppendProperties
        <3>2. (N - l) + 1 = (N + 1) - l
            BY <1>2, <2>1
        <3> HIDE DEF w
        <3>3. Len(v) = N - l
            BY <2>5
        <3> QED BY <3>1, <3>2, <3>3, Zenon
    <2> HIDE DEF w
    <2>7. ASSUME NEW i \in 1 .. ((N + 1) - l) PROVE u[i] = w[i]
        <3>1. CASE i = (N + 1) - l
            <4>1. l + i = N + 1
                BY <1>2, <2>1, <3>1
            <4> QED BY <1>3, <2>4, <2>6, <3>1, <4>1
        <3>2. CASE i # (N + 1) - l
            <4>1. i \in 1 .. (N - l) /\ l + i \in 1 .. N
                BY <1>2, <2>1, <3>2
            <4> QED BY <1>3, <2>4, <2>5, <2>6, <4>1
        <3> QED BY <3>1, <3>2
    <2>8. u = w
        BY <2>4, <2>6, <2>7, SeqEqual
    <2> QED BY <2>8 DEF u, v, w
<1> QED BY <1>4, <1>5 DEF N, q

\* The path of the last entry of a part of the list, cut at the level where merkle_insert
\* puts the new entry e, leads to the node of the part with the new entry, which fs has.
Level(es, b) ==
    Len(Siblings(Len(es), es)[b]) - (bit_count[Width(b) + 1] - 1)

Grows(es, fs, e, b) ==
    LET proof == Siblings(Len(es), es)[b]
        below == fold_proof(hash_entry(es[Len(es)]), SubSeq(proof, 1, Level(es, b)))
    IN  /\ Level(es, b) \in 0 .. Len(proof)
        /\ fold_proof(hash_nodes(below, hash_entry(e)),
                      SubSeq(proof, Level(es, b) + 1, Len(proof)))
            = tree(fs)[<<b[1], Len(es) + 1>>]

\* fs is es with the entry e at its end.
Longer(es, fs, e) ==
    /\ Len(es) \in Nat /\ Len(fs) = Len(es) + 1
    /\ \A i \in 1 .. Len(es) : fs[i] = es[i]
    /\ fs[Len(es) + 1] = e

LEMMA SameNodes ==
    ASSUME NEW es, NEW fs, NEW e, Longer(es, fs, e), NEW b \in Spans(es)
    PROVE  b \in Spans(fs) /\ tree(fs)[b] = tree(es)[b]
<1>1. Len(es) \in Nat /\ Len(fs) \in Nat /\ Len(fs) = Len(es) + 1
    BY DEF Longer
<1>2. b[1] \in 1 .. Len(es) /\ b[2] \in 1 .. Len(es) /\ b[1] =< b[2] /\ b = <<b[1], b[2]>>
    BY <1>1, Widths
<1>3. b[1] \in 1 .. Len(fs) /\ b[2] \in 1 .. Len(fs)
    BY <1>1, <1>2
<1>4. b \in Spans(fs)
    BY <1>1, <1>2, <1>3, SpansAre
<1>5. \A i \in b[1] .. b[2] : es[i] = fs[i]
    BY <1>1, <1>2 DEF Longer
<1> QED BY <1>1, <1>4, <1>5, TreeIsLocal

LEMMA LongerSpan ==
    ASSUME NEW es, NEW fs, NEW e, Longer(es, fs, e), NEW b \in Spans(es), b[2] = Len(es)
    PROVE  /\ <<b[1], Len(es) + 1>> \in Spans(fs)
           /\ tree(fs)[<<b[1], Len(es) + 1>>] =
                hash_nodes(tree(fs)[<<b[1], (b[1] + largest_power_of_two(Width(b) + 1)) - 1>>],
                           tree(fs)[<<b[1] + largest_power_of_two(Width(b) + 1), Len(es) + 1>>])
<1> DEFINE N == Len(es)
           c == <<b[1], N + 1>>
<1>1. N \in Nat /\ Len(fs) = N + 1 /\ Len(fs) \in Nat
    BY DEF Longer
<1>2. b[1] \in 1 .. N
    BY <1>1, Widths
<1>3. b[1] \in 1 .. Len(fs) /\ N + 1 \in 1 .. Len(fs) /\ b[1] =< N + 1 /\ b[1] # N + 1
    BY <1>1, <1>2
<1>4. c \in Spans(fs)
    BY <1>1, <1>3, SpansAre
<1>5. c[1] = b[1] /\ c[2] = N + 1 /\ c[1] # c[2]
    BY <1>3
<1>6. (N + 1) - b[1] = Width(b) + 1
    BY <1>1, <1>2 DEF Width
<1> HIDE DEF c
<1>7. tree(fs)[c] = hash_nodes(tree(fs)[Left(c)], tree(fs)[Right(c)])
    <2>1. tree(fs)[c] = Node(tree(fs), fs, c)
        BY <1>1, <1>4, TreeNodes
    <2> QED BY <1>5, <2>1, Zenon DEF Node
<1>8. Split(c) = b[1] + largest_power_of_two(Width(b) + 1)
    BY <1>5, <1>6, Zenon DEF Split
<1> DEFINE s == b[1] + largest_power_of_two(Width(b) + 1)
<1> HIDE DEF s
<1>9. Split(c) = s
    BY <1>8 DEF s
<1>10. Left(c) = <<b[1], s - 1>> /\ Right(c) = <<s, N + 1>>
    BY <1>5, <1>9 DEF Left, Right
<1>11. tree(fs)[c] = hash_nodes(tree(fs)[<<b[1], s - 1>>], tree(fs)[<<s, N + 1>>])
    BY <1>7, <1>10
<1> QED BY <1>4, <1>11 DEF c, s

\* A complete tree gets the new entry as its sibling.
LEMMA CompleteGrows ==
    ASSUME NEW es, NEW fs, NEW e, Longer(es, fs, e), NEW b \in Spans(es), b[2] = Len(es),
           largest_power_of_two(Width(b) + 1) = Width(b) + 1
    PROVE  Grows(es, fs, e, b)
<1> DEFINE N == Len(es)
           proof == Siblings(N, es)[b]
           w == Width(b) + 1
<1>1. N \in Nat /\ Len(fs) = N + 1 /\ Len(fs) \in Nat
    BY DEF Longer
<1>2. b[1] \in 1 .. N /\ b = <<b[1], N>> /\ w \in Nat \ {0} /\ N \in b[1] .. b[2]
    BY <1>1, Widths
<1>3. bit_count[w] = 1
    <2>1. w - w = 0
        BY <1>2
    <2> HIDE DEF w
    <2>2. bit_count[w] = 1 + bit_count[w - w]
        BY <1>2, BitsBelow DEF w
    <2> QED BY <2>1, <2>2, CountFacts
<1>4. IsProof(proof) /\ fold_proof(hash_entry(es[N]), proof) = tree(es)[b]
    BY <1>1, <1>2, PathVerifies
<1>5. Level(es, b) = Len(proof) /\ Len(proof) \in Nat
    <2>1. Len(proof) \in Nat
        BY <1>4, PartsOfProof
    <2>2. Level(es, b) = Len(proof) - (bit_count[w] - 1)
        BY Zenon DEF Level
    <2> HIDE DEF proof, w
    <2>3. Len(proof) - (1 - 1) = Len(proof)
        BY <2>1
    <2> QED BY <1>3, <2>1, <2>2, <2>3, Zenon
<1>6. /\ SubSeq(proof, 1, Len(proof)) = proof
      /\ SubSeq(proof, Len(proof) + 1, Len(proof)) = <<>>
    BY <1>4, PartsOfProof
<1>7. b[1] + w = N + 1 /\ (b[1] + w) - 1 = N
    <2>1. w = (N - b[1]) + 1
        BY DEF Width
    <2> DEFINE x == b[1]
    <2>2. x \in Nat /\ w = (N - x) + 1
        BY <1>1, <1>2, <2>1
    <2> HIDE DEF w, x, N
    <2>3. x + w = N + 1 /\ (x + w) - 1 = N
        BY <1>1, <2>2
    <2> QED BY <2>3 DEF x
<1>8. tree(fs)[<<b[1], N + 1>>] = hash_nodes(tree(fs)[b], tree(fs)[<<N + 1, N + 1>>])
    <2>1. tree(fs)[<<b[1], N + 1>>] =
                hash_nodes(tree(fs)[<<b[1], (b[1] + w) - 1>>], tree(fs)[<<b[1] + w, N + 1>>])
        BY LongerSpan
    <2> HIDE DEF w, N
    <2> QED BY <1>2, <1>7, <2>1
<1>9. tree(fs)[b] = tree(es)[b]
    BY SameNodes
<1>10. tree(fs)[<<N + 1, N + 1>>] = hash_entry(e)
    <2> DEFINE c == <<N + 1, N + 1>>
    <2>1. N + 1 \in 1 .. Len(fs) /\ N + 1 =< N + 1 /\ fs[N + 1] = e
        BY <1>1 DEF Longer
    <2>2. c \in Spans(fs) /\ c[1] = N + 1 /\ c[2] = N + 1 /\ N + 1 \in c[1] .. c[2]
        BY <1>1, <2>1, SpansAre
    <2> HIDE DEF c
    <2>3. tree(fs)[c] = hash_entry(fs[N + 1])
        BY <1>1, <2>2, LeafHas
    <2> QED BY <2>1, <2>3, Zenon DEF c
<1> DEFINE d == hash_nodes(tree(es)[b], hash_entry(e))
<1>11. fold_proof(d, <<>>) = d
    BY FoldEmpty
<1>12. Len(proof) \in 0 .. Len(proof)
    BY <1>5
<1>13. fold_proof(d, SubSeq(proof, Len(proof) + 1, Len(proof))) = tree(fs)[<<b[1], N + 1>>]
    BY <1>6, <1>8, <1>9, <1>10, <1>11, Zenon
<1>14. d = hash_nodes(fold_proof(hash_entry(es[N]), SubSeq(proof, 1, Len(proof))), hash_entry(e))
    BY <1>4, <1>6, Zenon
<1> HIDE DEF proof, d
<1> QED BY <1>5, <1>12, <1>13, <1>14, Zenon DEF Grows, proof, N

\* Any other tree gets it in its right half, whose path has the same level.
LEMMA HalfGrows ==
    ASSUME NEW es, NEW fs, NEW e, Longer(es, fs, e), NEW b \in Spans(es), b[2] = Len(es),
           largest_power_of_two(Width(b) + 1) # Width(b) + 1,
           \A c \in Spans(es) : Width(c) < Width(b) /\ c[2] = Len(es) => Grows(es, fs, e, c)
    PROVE  Grows(es, fs, e, b)
<1> DEFINE N == Len(es)
           w == Width(b) + 1
           p == largest_power_of_two(w)
           c == Right(b)
           s == [op |-> "L", digest |-> tree(es)[Left(b)]]
           proof == Siblings(N, es)[c]
<1>1. N \in Nat /\ Len(fs) = N + 1 /\ Len(fs) \in Nat
    BY DEF Longer
<1>2. /\ b[1] \in 1 .. N /\ b = <<b[1], N>> /\ Width(b) \in Nat /\ N \in b[1] .. b[2]
      /\ Width(b) = N - b[1]
    BY <1>1, Widths DEF Width
<1>3. p = largest_power_of_two(Width(b))
    <2>1. w \in Nat \ {0} /\ w - 1 = Width(b)
        BY <1>2
    <2> HIDE DEF w
    <2>2. largest_power_of_two(w - 1) = largest_power_of_two(w)
        BY <2>1, SamePower DEF w
    <2> QED BY <2>1, <2>2
<1>4. b[1] # b[2]
    <2> SUFFICES ASSUME b[1] = b[2] PROVE FALSE
        OBVIOUS
    <2>1. Width(b) = 0 /\ w = 1
        BY <1>1, <1>2 DEF Width
    <2> QED BY <2>1, PowerOfHalf
<1>5. /\ Split(b) \in Nat /\ b[1] < Split(b) /\ Split(b) =< N
      /\ Left(b) \in Spans(es) /\ c \in Spans(es) /\ Width(c) < Width(b)
    BY <1>1, <1>4, SplitFits
<1>6. Split(b) = b[1] + p
    BY <1>3, Zenon DEF Split, Width
<1>7. p \in Nat \ {0} /\ p =< w /\ w \in Nat \ {0}
    <2>1. w \in Nat \ {0}
        BY <1>2
    <2> HIDE DEF w
    <2> QED BY <2>1, LargestPower
<1>8. c[1] = Split(b) /\ c[2] = N /\ Width(c) + 1 = w - p
    <2>1. c[1] = Split(b) /\ c[2] = N
        BY DEF Right
    <2>2. Width(c) = N - Split(b) /\ Width(b) = N - b[1]
        BY <2>1 DEF Width
    <2>3. \A x, y, z \in Nat : (x - (y + z)) + 1 = ((x - y) + 1) - z
        OBVIOUS
    <2>4. b[1] \in Nat /\ p \in Nat
        BY <1>1, <1>2, <1>7
    <2>5. w = (N - b[1]) + 1
        BY <2>2
    <2> HIDE DEF c, p, w, N
    <2>6. (N - (b[1] + p)) + 1 = w - p
        BY <1>1, <2>3, <2>4, <2>5, Zenon
    <2> QED BY <1>6, <2>1, <2>2, <2>6, Zenon
<1>9. Grows(es, fs, e, c)
    BY <1>5, <1>8, Zenon
<1>10. Siblings(N, es)[b] = Append(proof, s)
    <2>1. Siblings(N, es)[b] = Above(Siblings(N, es), N, es, b)
        BY <1>1, SiblingsAbove
    <2>2. ~ (N < Split(b))
        BY <1>1, <1>5
    <2> QED BY <1>4, <2>1, <2>2, Zenon DEF Above
<1>11. IsProof(proof)
    <2>1. N \in c[1] .. c[2]
        BY <1>1, <1>5, <1>8
    <2> HIDE DEF c
    <2> QED BY <1>1, <1>5, <2>1, PathVerifies
<1>12. Len(Append(proof, s)) = Len(proof) + 1 /\ Len(proof) \in Nat
    BY <1>11, Appended
<1>13. bit_count[w] = 1 + bit_count[w - p] /\ bit_count[w - p] \in Nat
    BY <1>7, BitsBelow
<1> DEFINE l == Level(es, c)
           below == fold_proof(hash_entry(es[N]), SubSeq(proof, 1, l))
           d == hash_nodes(below, hash_entry(e))
           up == SubSeq(proof, l + 1, Len(proof))
<1>14. l \in 0 .. Len(proof) /\ fold_proof(d, up) = tree(fs)[<<c[1], N + 1>>]
    <2> HIDE DEF c
    <2> QED BY <1>9, Zenon DEF Grows
<1>15. Level(es, b) = l
    <2>1. l = Len(proof) - (bit_count[w - p] - 1)
        BY <1>8, Zenon DEF Level
    <2>2. Level(es, b) = Len(Append(proof, s)) - (bit_count[w] - 1)
        BY <1>10, Zenon DEF Level
    <2>3. \A x, y \in Nat : (x + 1) - ((1 + y) - 1) = x - (y - 1)
        OBVIOUS
    <2> HIDE DEF l, proof, s, w, p
    <2>4. Level(es, b) = (Len(proof) + 1) - ((1 + bit_count[w - p]) - 1)
        BY <1>12, <1>13, <2>2, Zenon
    <2>5. (Len(proof) + 1) - ((1 + bit_count[w - p]) - 1) = Len(proof) - (bit_count[w - p] - 1)
        BY <1>12, <1>13, <2>3, Zenon
    <2> QED BY <2>1, <2>4, <2>5, Zenon
<1> HIDE DEF l
<1>16. /\ SubSeq(Append(proof, s), 1, l) = SubSeq(proof, 1, l)
       /\ SubSeq(Append(proof, s), l + 1, Len(proof) + 1) = Append(up, s)
       /\ IsProof(up)
    BY <1>11, <1>14, PartsOfProof, PartsOfAppended
<1>17. fold_proof(d, Append(up, s)) = Joined(s, fold_proof(d, up))
    <2> HIDE DEF d, up, s
    <2> QED BY <1>16, FoldAppend
<1>18. Joined(s, fold_proof(d, up)) = hash_nodes(tree(es)[Left(b)], fold_proof(d, up))
    <2>1. s.op = "L" /\ s.digest = tree(es)[Left(b)]
        OBVIOUS
    <2> HIDE DEF s, d, up
    <2> QED BY <2>1, Zenon DEF Joined
<1>19. tree(fs)[<<b[1], N + 1>>] = hash_nodes(tree(es)[Left(b)], tree(fs)[<<c[1], N + 1>>])
    <2>1. tree(fs)[<<b[1], N + 1>>] =
                hash_nodes(tree(fs)[<<b[1], (b[1] + p) - 1>>], tree(fs)[<<b[1] + p, N + 1>>])
        BY LongerSpan
    <2>2. <<b[1], (b[1] + p) - 1>> = Left(b)
        <3> HIDE DEF p
        <3> QED BY <1>6 DEF Left
    <2>3. tree(fs)[Left(b)] = tree(es)[Left(b)]
        BY <1>5, SameNodes
    <2> HIDE DEF c
    <2> QED BY <1>6, <1>8, <2>1, <2>2, <2>3, Zenon
<1>20. l \in 0 .. Len(Append(proof, s))
    <2> HIDE DEF proof, s
    <2> QED BY <1>12, <1>14
<1>21. fold_proof(d, SubSeq(Append(proof, s), l + 1, Len(Append(proof, s))))
            = tree(fs)[<<b[1], N + 1>>]
    <2> HIDE DEF proof, s, d, up, c
    <2> QED BY <1>12, <1>14, <1>16, <1>17, <1>18, <1>19, Zenon
<1>22. d = hash_nodes(fold_proof(hash_entry(es[N]), SubSeq(Append(proof, s), 1, l)), hash_entry(e))
    <2> HIDE DEF proof, s
    <2> QED BY <1>16, Zenon
<1> HIDE DEF proof, s, d
<1> QED BY <1>10, <1>15, <1>20, <1>21, <1>22, Zenon DEF Grows, N

LEMMA PathGrows ==
    ASSUME NEW es, NEW fs, NEW e, Longer(es, fs, e), NEW b \in Spans(es), b[2] = Len(es)
    PROVE  Grows(es, fs, e, b)
<1> DEFINE Good == {c \in Spans(es) : c[2] = Len(es) => Grows(es, fs, e, c)}
<1>1. ASSUME NEW c \in Spans(es), \A d \in Spans(es) : Width(d) < Width(c) => d \in Good
      PROVE  c \in Good
    <2> SUFFICES ASSUME c[2] = Len(es) PROVE Grows(es, fs, e, c)
        BY Zenon
    <2>1. \A d \in Spans(es) : Width(d) < Width(c) /\ d[2] = Len(es) => Grows(es, fs, e, d)
        BY <1>1, Zenon
    <2> HIDE DEF Good
    <2> QED BY <2>1, CompleteGrows, HalfGrows
<1>2. Good \in SUBSET Spans(es) /\ Len(es) \in Nat
    BY DEF Longer
<1> HIDE DEF Good
<1>3. b \in Good
    BY <1>1, <1>2, SpanInduction
<1> QED BY <1>3, Zenon DEF Good

-----------------------------------------------------------------------------
(* The whole tree. *)

\* A path verifies for its entry, and is not longer than the tree is high.
LEMMA PathOf ==
    ASSUME NEW es, Len(es) \in Nat, NEW m \in 1 .. Len(es)
    PROVE  /\ IsProof(path(m, es)) /\ Len(path(m, es)) \in Nat
           /\ fold_proof(hash_entry(es[m]), path(m, es)) = mth(es)
           /\ \A h \in Nat : Len(path(m, es)) > h => Len(es) > Power[h]
<1> DEFINE b == <<1, Len(es)>>
<1>1. 1 \in 1 .. Len(es) /\ Len(es) \in 1 .. Len(es) /\ 1 =< Len(es)
    OBVIOUS
<1>2. b \in Spans(es)
    BY <1>1, SpansAre
<1>3. m \in b[1] .. b[2] /\ Width(b) + 1 = Len(es)
    BY DEF Width
<1>4. path(m, es) = Siblings(m, es)[b]
    BY PathIsTable
<1>5. mth(es) = tree(es)[b]
    BY Zenon DEF mth
<1> HIDE DEF b
<1>6. IsProof(path(m, es)) /\ fold_proof(hash_entry(es[m]), path(m, es)) = mth(es)
    BY <1>2, <1>3, <1>4, <1>5, PathVerifies
<1>7. Len(path(m, es)) \in Nat
    BY <1>6, PartsOfProof
<1>8. ASSUME NEW h \in Nat, Len(path(m, es)) > h PROVE Len(es) > Power[h]
    <2>1. Power[h] \in Nat
        BY PowerFacts
    <2>2. Len(es) =< Power[h] => Len(path(m, es)) =< h
        BY <1>2, <1>3, <1>4, PathFits
    <2> QED BY <1>7, <1>8, <2>1, <2>2
<1> QED BY <1>6, <1>7, <1>8

\* The path of an entry does not change with the entry: the root of the changed list folds from it.
LEMMA PathOfChanged ==
    ASSUME NEW es, Len(es) \in Nat, NEW fs, Len(fs) = Len(es), NEW m \in 1 .. Len(es),
           \A i \in 1 .. Len(es) : i # m => es[i] = fs[i]
    PROVE  fold_proof(hash_entry(fs[m]), path(m, es)) = mth(fs)
<1> DEFINE b == <<1, Len(es)>>
<1>1. 1 \in 1 .. Len(es) /\ Len(es) \in 1 .. Len(es) /\ 1 =< Len(es)
    OBVIOUS
<1>2. b \in Spans(es)
    BY <1>1, SpansAre
<1>3. m \in b[1] .. b[2]
    OBVIOUS
<1>4. path(m, es) = Siblings(m, es)[b] /\ path(m, fs) = Siblings(m, fs)[b]
    BY PathIsTable
<1> HIDE DEF b
<1>5. path(m, es) = path(m, fs)
    BY <1>2, <1>3, <1>4, PathIsOfOthers
<1>6. Len(fs) \in Nat /\ m \in 1 .. Len(fs)
    OBVIOUS
<1>7. fold_proof(hash_entry(fs[m]), path(m, fs)) = mth(fs)
    BY <1>6, PathOf
<1> QED BY <1>5, <1>7

\* What merkle_insert computes from the path of the last entry is the root of the longer list.
LEMMA PathOfLonger ==
    ASSUME NEW es, NEW fs, NEW e, Longer(es, fs, e), Len(es) # 0
    PROVE  LET proof == path(Len(es), es)
               level == Len(proof) - (bit_count[Len(es)] - 1)
               below == fold_proof(hash_entry(es[Len(es)]), SubSeq(proof, 1, level))
           IN  /\ level \in 0 .. Len(proof)
               /\ fold_proof(hash_nodes(below, hash_entry(e)), SubSeq(proof, level + 1, Len(proof)))
                    = mth(fs)
<1> DEFINE b == <<1, Len(es)>>
           proof == path(Len(es), es)
           level == Len(proof) - (bit_count[Len(es)] - 1)
           below == fold_proof(hash_entry(es[Len(es)]), SubSeq(proof, 1, level))
<1>1. Len(es) \in Nat /\ Len(fs) = Len(es) + 1
    BY DEF Longer
<1>2. 1 \in 1 .. Len(es) /\ Len(es) \in 1 .. Len(es) /\ 1 =< Len(es)
    BY <1>1
<1>3. b \in Spans(es)
    BY <1>1, <1>2, SpansAre
<1>4. b[1] = 1 /\ b[2] = Len(es) /\ Width(b) + 1 = Len(es)
    BY <1>1 DEF Width
<1>5. proof = Siblings(Len(es), es)[b]
    BY PathIsTable
<1>6. mth(fs) = tree(fs)[<<1, Len(es) + 1>>]
    BY <1>1, Zenon DEF mth
<1> HIDE DEF b
<1>7. Grows(es, fs, e, b)
    BY <1>3, <1>4, PathGrows
<1>8. Level(es, b) = level
    BY <1>4, <1>5, Zenon DEF Level
<1> HIDE DEF proof, level
<1>9. /\ level \in 0 .. Len(proof)
      /\ fold_proof(hash_nodes(below, hash_entry(e)), SubSeq(proof, level + 1, Len(proof)))
            = tree(fs)[<<b[1], Len(es) + 1>>]
    BY <1>5, <1>7, <1>8, Zenon DEF Grows
<1>10. fold_proof(hash_nodes(below, hash_entry(e)), SubSeq(proof, level + 1, Len(proof))) = mth(fs)
    BY <1>4, <1>6, <1>9, Zenon
<1> QED BY <1>9, <1>10 DEF proof, level

\* The parent merkle_insert makes for the new entry.
LEMMA ParentOfNew ==
    ASSUME NEW e, NEW below
    PROVE  proof_hash(e, <<[op |-> "L", digest |-> below]>>) = hash_nodes(below, hash_entry(e))
<1> DEFINE s == [op |-> "L", digest |-> below]
<1>1. <<s>> = Append(<<>>, s)
    BY DEF Append
<1>2. IsProof(<<>>)
    BY DEF IsProof
<1>3. s.op = "L" /\ s.digest = below
    OBVIOUS
<1> HIDE DEF s
<1>4. fold_proof(hash_entry(e), Append(<<>>, s)) = Joined(s, fold_proof(hash_entry(e), <<>>))
    BY <1>2, FoldAppend
<1>5. fold_proof(hash_entry(e), <<>>) = hash_entry(e)
    BY FoldEmpty
<1>6. Joined(s, hash_entry(e)) = hash_nodes(below, hash_entry(e))
    BY <1>3, Zenon DEF Joined
<1>7. proof_hash(e, <<s>>) = hash_nodes(below, hash_entry(e))
    BY <1>1, <1>4, <1>5, <1>6, Zenon DEF proof_hash
<1> QED BY <1>7 DEF s

LEMMA EntryHashIsInjective ==
    ASSUME NEW x, NEW y, hash_entry(x) = hash_entry(y)
    PROVE  x = y
<1>1. hash_entry(x).leaf = x /\ hash_entry(y).leaf = y
    BY DEF hash_entry
<1> QED BY <1>1

-----------------------------------------------------------------------------
(* The steps of the host and the device. *)

\* The host's list: one entry for each address, in order.
EntriesInOrder ==
    /\ entries \in Seq([addr : Nat, counter : Nat])
    /\ Len(entries) \in 1 .. MaxEntries
    /\ \A i \in 1 .. Len(entries) : entries[i].addr = i

\* What every state satisfies: TreesOfHostAndDevice, and why the host's assertion failed.
MerkleInv ==
    /\ EntriesInOrder
    /\ max_proof \in Nat /\ hostFailed \in BOOLEAN
    /\ hostFailed => Len(entries) > Power[max_proof]
    /\ TreesOfHostAndDevice

LEMMA InOrder ==
    ASSUME EntriesInOrder
    PROVE  /\ Len(entries) \in Nat /\ Len(entries) \in 1 .. Len(entries)
           /\ DOMAIN entries = 1 .. Len(entries)
           /\ Last(entries) = entries[Len(entries)]
           /\ \A a \in 1 .. Len(entries) :
                /\ find_index(a) = a
                /\ entries[a] = Entry(a, entries[a].counter) /\ entries[a].counter \in Nat
<1>1. /\ Len(entries) \in Nat /\ Len(entries) >= 1 /\ DOMAIN entries = 1 .. Len(entries)
      /\ \A i \in 1 .. Len(entries) :
            entries[i] \in [addr : Nat, counter : Nat] /\ entries[i].addr = i
    <2>1. MaxEntries \in Nat
        BY MerkleAssumption
    <2>2. Len(entries) \in Nat /\ Len(entries) >= 1
        BY <2>1 DEF EntriesInOrder
    <2>3. \A i \in 1 .. Len(entries) : entries[i].addr = i
        BY Zenon DEF EntriesInOrder
    <2> DEFINE S == [addr : Nat, counter : Nat]
    <2>4. entries \in Seq(S)
        BY DEF EntriesInOrder
    <2> HIDE DEF S
    <2>5. DOMAIN entries = 1 .. Len(entries) /\ \A i \in 1 .. Len(entries) : entries[i] \in S
        BY <2>4
    <2> QED BY <2>2, <2>3, <2>5, Zenon DEF S
<1>2. Last(entries) = entries[Len(entries)]
    BY DEF Last
<1>3. ASSUME NEW a \in 1 .. Len(entries)
      PROVE  /\ find_index(a) = a
             /\ entries[a] = Entry(a, entries[a].counter) /\ entries[a].counter \in Nat
    <2>1. \A i \in DOMAIN entries : entries[i].addr = a <=> i = a
        BY <1>1, <1>3
    <2>2. find_index(a) = a
        BY <1>1, <1>3, <2>1, Zenon DEF find_index
    <2>3. entries[a] \in [addr : Nat, counter : Nat] /\ entries[a].addr = a
        BY <1>1, <1>3
    <2> QED BY <2>2, <2>3 DEF Entry
<1>4. Len(entries) \in 1 .. Len(entries)
    BY <1>1
<1> QED BY <1>1, <1>2, <1>3, <1>4

\* The host's assertion: it fails for a tree that is too large, which stays as it is.
LEMMA AssertionFails ==
    ASSUME MerkleInv, EntriesInOrder', NEW m \in 1 .. Len(entries),
           Len(path(m, entries)) > max_proof, Len(entries') >= Len(entries),
           hostFailed' = TRUE, UNCHANGED <<max_proof, refused>>
    PROVE  MerkleInv'
<1>1. Len(entries) \in Nat /\ Len(entries') \in Nat /\ max_proof \in Nat /\ ~refused
    BY MerkleAssumption DEF MerkleInv, EntriesInOrder, TreesOfHostAndDevice
<1>2. Len(entries) > Power[max_proof]
    BY <1>1, PathOf
<1>3. Power[max_proof] \in Nat
    BY <1>1, PowerFacts
<1>4. Len(entries') > Power[max_proof']
    BY <1>1, <1>2, <1>3
<1> QED BY <1>1, <1>4 DEF MerkleInv, TreesOfHostAndDevice

LEMMA MerkleInitHolds ==
    MerkleInit => MerkleInv
<1> SUFFICES ASSUME MerkleInit PROVE MerkleInv
    OBVIOUS
<1>1. PICK k \in 1 .. MaxEntries :
        /\ entries = [i \in 1 .. k |-> Entry(i, 0)]
        /\ root_hash = mth([i \in 1 .. k |-> Entry(i, 0)]) /\ n = k
        /\ last_entry = [i \in 1 .. k |-> Entry(i, 0)][k]
        /\ hostFailed = FALSE /\ refused = FALSE
        /\ max_proof \in MaxProofs
    BY Zenon DEF MerkleInit
<1>2. k \in Nat /\ k >= 1 /\ k \in 1 .. k
    BY MerkleAssumption
<1>3. Len(entries) = k
    BY <1>1, <1>2
<1>4. EntriesInOrder
    BY <1>1, <1>2, <1>3 DEF EntriesInOrder, Entry
<1>5. TreesOfHostAndDevice
    <2>1. Last(entries) = entries[k]
        BY <1>3 DEF Last
    <2>2. root_hash = mth(entries) /\ last_entry = entries[k]
        BY <1>1, Zenon
    <2> QED BY <1>1, <1>3, <2>1, <2>2 DEF TreesOfHostAndDevice
<1> QED BY <1>1, <1>4, <1>5, MerkleAssumption DEF MerkleInv

\* stream_commit_page(page, true): merkle_insert makes the root of the longer list.
LEMMA CommitNewHolds ==
    ASSUME MerkleInv, CommitNew
    PROVE  MerkleInv'
<1> DEFINE N == Len(entries)
           e == Entry(N + 1, 1)
           proof == path(N, entries)
           level == Len(proof) - (bit_count[N] - 1)
           below == fold_proof(hash_entry(entries[N]), SubSeq(proof, 1, level))
<1>1. /\ EntriesInOrder /\ ~hostFailed /\ ~refused /\ max_proof \in Nat
      /\ root_hash = mth(entries) /\ n = N /\ last_entry = entries[N]
      /\ N \in Nat /\ N >= 1 /\ N \in 1 .. N
    BY InOrder DEF MerkleInv, CommitNew, TreesOfHostAndDevice
<1>2. N < MaxEntries /\ entries' = Append(entries, e)
    BY DEF CommitNew
<1>3. Answers(proof, merkle_insert(e, proof))
    BY Zenon DEF CommitNew, get_proof_of_last_entry
<1>4. /\ entries' \in Seq([addr : Nat, counter : Nat])
      /\ Len(entries') = N + 1
      /\ \A i \in 1 .. N : entries'[i] = entries[i]
      /\ entries'[N + 1] = e
    <2>1. e \in [addr : Nat, counter : Nat]
        BY <1>1 DEF Entry
    <2> HIDE DEF e
    <2> QED BY <1>1, <1>2, <2>1, AppendProperties DEF EntriesInOrder
<1>5. EntriesInOrder'
    <2>1. e.addr = N + 1
        BY DEF Entry
    <2> HIDE DEF e
    <2>2. ASSUME NEW i \in 1 .. N + 1 PROVE entries'[i].addr = i
        <3>1. i \in 1 .. N \/ i = N + 1
            BY <1>1
        <3>2. CASE i \in 1 .. N
            BY <1>1, <1>4, <3>2, Zenon DEF EntriesInOrder
        <3>3. CASE i = N + 1
            BY <1>4, <2>1, <3>3, Zenon
        <3> QED BY <3>1, <3>2, <3>3
    <2>3. N + 1 \in 1 .. MaxEntries
        BY <1>1, <1>2, MerkleAssumption
    <2> QED BY <1>4, <2>2, <2>3 DEF EntriesInOrder
<1>6. Len(proof) \in Nat /\ IsProof(proof) /\ fold_proof(hash_entry(entries[N]), proof) = mth(entries)
    BY <1>1, PathOf
<1>7. Longer(entries, entries', e) /\ N # 0
    BY <1>1, <1>4 DEF Longer
<1>8. /\ level \in 0 .. Len(proof)
      /\ fold_proof(hash_nodes(below, hash_entry(e)), SubSeq(proof, level + 1, Len(proof)))
            = mth(entries')
    <2> HIDE DEF e
    <2> QED BY <1>7, PathOfLonger
<1> HIDE DEF e
<1>9. CASE Len(proof) =< max_proof
    <2>1. merkle_insert(e, proof) /\ UNCHANGED <<hostFailed, max_proof>>
        BY <1>3, <1>9, Zenon DEF Answers
    <2>2. tree_level(proof) = level
        BY <1>1, Zenon DEF tree_level
    <2>3. merkle_verify_proof(last_entry, proof)
        BY <1>1, <1>6, Zenon DEF merkle_verify_proof, proof_hash
    <2>4. proof_hash(last_entry, SubSeq(proof, 1, level)) = below
        BY <1>1, Zenon DEF proof_hash
    <2>5. proof_hash(e, <<[op |-> "L", digest |-> below]>>) = hash_nodes(below, hash_entry(e))
        BY ParentOfNew, Zenon
    <2> HIDE DEF proof, level, below
    <2>6. /\ root_hash' = fold_proof(hash_nodes(below, hash_entry(e)),
                                     SubSeq(proof, level + 1, Len(proof)))
          /\ last_entry' = e /\ n' = n + 1 /\ UNCHANGED refused
        BY <1>8, <2>1, <2>2, <2>3, <2>4, <2>5, Zenon DEF merkle_insert
    <2>7. root_hash' = mth(entries')
        BY <1>8, <2>6, Zenon
    <2>8. Last(entries') = e
        BY <1>4 DEF Last
    <2>9. n' = Len(entries')
        BY <1>1, <1>4, <2>6, Zenon
    <2>10. TreesOfHostAndDevice'
        BY <1>1, <2>6, <2>7, <2>8, <2>9 DEF TreesOfHostAndDevice, mth, tree, Spans
    <2> QED BY <1>1, <1>5, <2>1, <2>10 DEF MerkleInv
<1>10. CASE ~ (Len(proof) =< max_proof)
    <2>1. hostFailed' = TRUE /\ UNCHANGED <<max_proof, refused>>
        BY <1>3, <1>10, Zenon DEF Answers
    <2>2. Len(proof) > max_proof
        <3> HIDE DEF proof
        <3>1. Len(proof) \in Nat /\ max_proof \in Nat
            BY <1>1, <1>6
        <3> QED BY <1>10, <3>1
    <2>3. Len(entries') >= Len(entries)
        <3>1. N \in Nat /\ Len(entries') = N + 1
            BY <1>1, <1>4
        <3> QED BY <3>1
    <2> QED BY <1>1, <1>5, <2>1, <2>2, <2>3, AssertionFails
<1> QED BY <1>9, <1>10

\* stream_commit_page(page, false): merkle_update makes the root of the changed list, and keeps
\* the last entry even when it is the one that changes.
LEMMA CommitOldHolds ==
    ASSUME MerkleInv, NEW a \in 1 .. Len(entries), CommitOld(a)
    PROVE  MerkleInv'
<1> DEFINE N == Len(entries)
           old == entries[a]
           e == Entry(a, old.counter + 1)
           proof == path(a, entries)
<1>1. /\ EntriesInOrder /\ ~hostFailed /\ ~refused /\ max_proof \in Nat
      /\ root_hash = mth(entries) /\ n = N /\ last_entry = entries[N]
      /\ N \in Nat /\ N \in 1 .. N
    BY InOrder DEF MerkleInv, CommitOld, TreesOfHostAndDevice
<1>2. find_index(a) = a /\ old.counter \in Nat /\ old.addr = a /\ a \in Nat
    BY <1>1, InOrder DEF EntriesInOrder
<1>3. entries' = [entries EXCEPT ![a] = e] /\ Answers(proof, merkle_update(old, e, proof))
    BY <1>2, Zenon DEF CommitOld, get_proof
<1>4. e \in [addr : Nat, counter : Nat] /\ e.addr = a
    BY <1>2 DEF Entry
<1> HIDE DEF e
<1>5. /\ entries' \in Seq([addr : Nat, counter : Nat]) /\ Len(entries') = N
      /\ entries'[a] = e
      /\ \A i \in 1 .. N : i # a => entries'[i] = entries[i]
    <2> DEFINE S == [addr : Nat, counter : Nat]
    <2>1. entries \in Seq(S) /\ e \in S
        BY <1>1, <1>4 DEF EntriesInOrder
    <2> HIDE DEF S
    <2>2. /\ entries' \in Seq(S) /\ Len(entries') = N /\ entries'[a] = e
          /\ \A i \in 1 .. N : i # a => entries'[i] = entries[i]
        BY <1>3, <2>1, ExceptSeq
    <2> QED BY <2>2 DEF S
<1>6. EntriesInOrder'
    <2>1. \A i \in 1 .. N : entries'[i].addr = i
        BY <1>1, <1>4, <1>5, Zenon DEF EntriesInOrder
    <2> QED BY <1>1, <1>5, <2>1 DEF EntriesInOrder
<1>7. /\ Len(proof) \in Nat
      /\ fold_proof(hash_entry(old), proof) = mth(entries)
    BY <1>1, PathOf
<1>8. fold_proof(hash_entry(e), proof) = mth(entries')
    <2>1. \A i \in 1 .. N : i # a => entries[i] = entries'[i]
        BY <1>5, Zenon
    <2> HIDE DEF old
    <2>2. fold_proof(hash_entry(entries'[a]), proof) = mth(entries')
        BY <1>1, <1>5, <2>1, PathOfChanged
    <2> QED BY <1>5, <2>2, Zenon
<1>9. CASE Len(proof) =< max_proof
    <2>1. merkle_update(old, e, proof) /\ UNCHANGED <<hostFailed, max_proof>>
        BY <1>3, <1>9, Zenon DEF Answers
    <2>2. merkle_verify_proof(old, proof)
        BY <1>1, <1>7, Zenon DEF merkle_verify_proof, proof_hash
    <2> HIDE DEF proof, old
    <2>3. /\ root_hash' = mth(entries')
          /\ last_entry' = IF last_entry = old THEN e ELSE last_entry
          /\ n' = n /\ UNCHANGED refused
        BY <1>8, <2>1, <2>2, Zenon DEF merkle_update, proof_hash
    <2>4. Last(entries') = entries'[N]
        BY <1>5 DEF Last
    <2>5. last_entry' = entries'[N]
        <3>1. CASE a = N
            BY <1>1, <1>5, <2>3, <3>1, Zenon DEF old
        <3>2. CASE a # N
            <4>1. entries[N].addr # old.addr
                BY <1>1, <1>2, <3>2, Zenon DEF EntriesInOrder
            <4> QED BY <1>1, <1>5, <2>3, <3>2, <4>1, Zenon
        <3> QED BY <3>1, <3>2
    <2>6. TreesOfHostAndDevice'
        BY <1>1, <1>5, <2>3, <2>4, <2>5 DEF TreesOfHostAndDevice, mth, tree, Spans
    <2> QED BY <1>1, <1>6, <2>1, <2>6 DEF MerkleInv
<1>10. CASE ~ (Len(proof) =< max_proof)
    <2>1. hostFailed' = TRUE /\ UNCHANGED <<max_proof, refused>>
        BY <1>3, <1>10, Zenon DEF Answers
    <2> HIDE DEF proof
    <2>2. Len(proof) > max_proof
        BY <1>1, <1>7, <1>10
    <2>3. Len(entries') >= Len(entries)
        BY <1>1, <1>5
    <2> QED BY <1>6, <2>1, <2>2, <2>3, AssertionFails DEF proof
<1> QED BY <1>9, <1>10

\* stream_request_page: the proof of the requested entry verifies.
LEMMA RequestHolds ==
    ASSUME MerkleInv, NEW a \in 1 .. Len(entries), Request(a)
    PROVE  MerkleInv'
<1> DEFINE proof == path(a, entries)
<1>1. /\ EntriesInOrder /\ ~hostFailed /\ ~refused /\ max_proof \in Nat
      /\ root_hash = mth(entries) /\ Len(entries) \in Nat
    BY InOrder DEF MerkleInv, Request, TreesOfHostAndDevice
<1>2. find_index(a) = a
    BY <1>1, InOrder
<1>3. UNCHANGED entries
    BY DEF Request
<1>4. Answers(proof, /\ refused' = ~merkle_verify_proof(entries[a], proof)
                     /\ UNCHANGED device)
    BY <1>2, Zenon DEF Request, get_proof
<1>5. Len(proof) \in Nat /\ fold_proof(hash_entry(entries[a]), proof) = mth(entries)
    BY <1>1, PathOf
<1>6. EntriesInOrder'
    BY <1>1, <1>3 DEF EntriesInOrder
<1>7. CASE Len(proof) =< max_proof
    <2>1. /\ refused' = ~merkle_verify_proof(entries[a], proof)
          /\ UNCHANGED device /\ UNCHANGED <<hostFailed, max_proof>>
        BY <1>4, <1>7, Zenon DEF Answers
    <2>2. merkle_verify_proof(entries[a], proof)
        BY <1>1, <1>5, Zenon DEF merkle_verify_proof, proof_hash
    <2>3. refused' = FALSE
        BY <2>1, <2>2, Zenon
    <2> QED BY <1>1, <1>3, <1>6, <2>1, <2>3
            DEF MerkleInv, TreesOfHostAndDevice, device, mth, tree, Spans, Last
<1>8. CASE ~ (Len(proof) =< max_proof)
    <2>1. hostFailed' = TRUE /\ UNCHANGED <<max_proof, refused>>
        BY <1>4, <1>8, Zenon DEF Answers
    <2> HIDE DEF proof
    <2>2. Len(proof) > max_proof /\ Len(entries') >= Len(entries)
        BY <1>1, <1>3, <1>5, <1>8
    <2> QED BY <1>6, <2>1, <2>2, AssertionFails DEF proof
<1> QED BY <1>7, <1>8

LEMMA MerkleNextHolds ==
    MerkleInv /\ [MerkleNext]_merkleVars => MerkleInv'
<1> SUFFICES ASSUME MerkleInv, [MerkleNext]_merkleVars PROVE MerkleInv'
    OBVIOUS
<1>1. CASE CommitNew
    BY <1>1, CommitNewHolds
<1>2. ASSUME NEW a \in 1 .. Len(entries), CommitOld(a) PROVE MerkleInv'
    BY <1>2, CommitOldHolds
<1>3. ASSUME NEW a \in 1 .. Len(entries), Request(a) PROVE MerkleInv'
    BY <1>3, RequestHolds
<1>4. CASE UNCHANGED merkleVars
    BY <1>4 DEF merkleVars, device, MerkleInv, EntriesInOrder, TreesOfHostAndDevice,
                mth, tree, Spans, Last
<1> QED BY <1>1, <1>2, <1>3, <1>4, Zenon DEF MerkleNext

LEMMA MerkleInvAlways ==
    MerkleSpec => []MerkleInv
<1>1. MerkleInit => MerkleInv
    BY MerkleInitHolds
<1>2. MerkleInv /\ [MerkleNext]_merkleVars => MerkleInv'
    BY MerkleNextHolds
<1> QED BY <1>1, <1>2, PTL DEF MerkleSpec

\* The device accepts every proof of an honest host, and the root, the count and the last entry
\* it keeps are the host's, whatever the size of the tree and the order of the commits:
\* merkle_insert and merkle_update of merkle.c against mth and path of merkletree.py.
THEOREM TreesAgreeAlways ==
    MerkleSpec => []TreesOfHostAndDevice
<1>1. MerkleInv => TreesOfHostAndDevice
    BY DEF MerkleInv
<1> QED BY <1>1, MerkleInvAlways, PTL

\* In every reachable tree a path verifies for its entry and for no other, and the host fails
\* only for a tree with more leaves than 2^max_proof: merkle_verify_proof of merkle.c, and the
\* assertion of handle_write_access of stream_device.py.
THEOREM ProofsAreExact ==
    MerkleSpec => []ExactProofs
<1>1. ASSUME MerkleInv PROVE ExactProofs
    <2>1. CASE hostFailed
        BY <1>1, <2>1 DEF MerkleInv, ExactProofs
    <2>2. CASE ~hostFailed
        <3>1. root_hash = mth(entries) /\ Len(entries) \in Nat
              /\ DOMAIN entries = 1 .. Len(entries)
            BY <1>1, <2>2, InOrder DEF MerkleInv, TreesOfHostAndDevice
        <3>2. ASSUME NEW i \in DOMAIN entries, NEW x
              PROVE  merkle_verify_proof(x, path(i, entries)) <=> x = entries[i]
            <4> DEFINE proof == path(i, entries)
            <4>1. IsProof(proof) /\ fold_proof(hash_entry(entries[i]), proof) = mth(entries)
                BY <3>1, PathOf
            <4>2. merkle_verify_proof(x, proof)
                    <=> fold_proof(hash_entry(x), proof) = fold_proof(hash_entry(entries[i]), proof)
                BY <3>1, <4>1, Zenon DEF merkle_verify_proof, proof_hash
            <4> HIDE DEF proof
            <4>3. ASSUME fold_proof(hash_entry(x), proof)
                            = fold_proof(hash_entry(entries[i]), proof)
                  PROVE  x = entries[i]
                <5>1. hash_entry(x) = hash_entry(entries[i])
                    BY <4>1, <4>3, FoldIsInjective
                <5> QED BY <5>1, EntryHashIsInjective
            <4> QED BY <4>2, <4>3, Zenon DEF proof
        <3> QED BY <2>2, <3>2, Zenon DEF ExactProofs
    <2> QED BY <2>1, <2>2
<1>2. MerkleInv => ExactProofs
    BY <1>1
<1> QED BY <1>2, MerkleInvAlways, PTL
=============================================================================
