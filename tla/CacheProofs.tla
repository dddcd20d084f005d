----------------------------- MODULE CacheProofs -----------------------------
(***************************************************************************)
(* Proofs about the sorted array of one page cache, for every number of     *)
(* slots and every set of page addresses, as long as a failed refill stops  *)
(* the app (DrawFailureIgnored is FALSE: ECALL_BAGL_DRAW apart).            *)
(***************************************************************************)
EXTENDS PageCache, FiniteSetTheorems, WellFoundedInduction, TLAPS

Arrays == [Slots -> [addr : Nat, of : Int]]

\* The order that binary_search needs.
Sorted(p) == \A i, j \in Slots : i < j => p[i].addr =< p[j].addr

\* The array once slot n was refilled.
SortedBut(p, n) == \A i, j \in Slots \ {n} : i < j => p[i].addr =< p[j].addr

CacheTypeOK ==
    /\ pages \in Arrays
    /\ app_running \in BOOLEAN

CacheInv == CacheTypeOK /\ PagesSorted
-----------------------------------------------------------------------------
(* reorder_pages *)

\* A set of numbers that is not empty has a least element: the loops of reorder_pages stop
\* at the first slot they look for.
LEMMA LeastElement ==
    ASSUME NEW S \in SUBSET Nat, S # {}
    PROVE  \E x \in S : \A y \in S : x =< y
<1> DEFINE R == OpToRel(<, Nat)
<1>1. IsWellFoundedOn(R, Nat)
    BY NatLessThanWellFounded, Zenon
<1>2. \A x, y \in Nat : y < x => <<y, x>> \in R
    BY DEF OpToRel
<1> HIDE DEF R
<1>3. PICK x \in S : \A y \in S : ~ (<<y, x>> \in R)
    BY <1>1, WFMin
<1>4. ASSUME NEW y \in S PROVE x =< y
    <2>1. x \in Nat /\ y \in Nat
        OBVIOUS
    <2>2. ~(y < x)
        BY <1>2, <1>3, <2>1
    <2> QED BY <2>1, <2>2
<1> QED BY <1>4

\* The same, from the other end of the array.
LEMMA GreatestSlot ==
    ASSUME NEW S \in SUBSET Slots, S # {}
    PROVE  \E x \in S : \A y \in S : y =< x
<1> DEFINE T == {NPAGE - x : x \in S}
<1> USE PageCacheAssumption DEF Slots
<1>1. T \in SUBSET Nat /\ T # {}
    <2>1. \A x \in S : NPAGE - x \in Nat
        OBVIOUS
    <2> QED BY <2>1
<1>2. PICK t \in T : \A u \in T : t =< u
    BY <1>1, LeastElement
<1>3. PICK x \in S : t = NPAGE - x
    OBVIOUS
<1>4. \A y \in S : NPAGE - x =< NPAGE - y
    BY <1>2, <1>3
<1> QED BY <1>4

\* Where the refilled page goes: behind the pages with smaller addresses, before the
\* others (reorder_pages).
LEMMA PositionFits ==
    ASSUME NEW p \in Arrays, NEW n \in Slots, SortedBut(p, n)
    PROVE  /\ Position(p, n) \in Slots
           /\ \A j \in Slots \ {n} :
                /\ j < Position(p, n) => p[j].addr =< p[n].addr
                /\ j > Position(p, n) => p[n].addr =< p[j].addr
           /\ LET i == Position(p, n)
              IN  /\ i < n => p[n].addr =< p[i].addr
                  /\ n < i => p[i].addr =< p[n].addr
<1> DEFINE addr == p[n].addr
           Down == {i \in 0 .. (n - 1) : addr < p[i].addr}
           Up == {i \in (n + 1) .. (NPAGE - 1) : addr > p[i].addr}
<1> USE PageCacheAssumption DEF Slots
<1>1. \A j \in Slots : p[j].addr \in Nat
    BY DEF Arrays
<1>2. CASE n > 0 /\ addr < p[n - 1].addr
    <2>1. PICK i \in Down : \A j \in Down : i =< j
        <3>1. n - 1 \in Down /\ Down \in SUBSET Nat
            BY <1>2
        <3> QED BY <3>1, LeastElement
    <2>2. \E x \in 0 .. (n - 1) :
            /\ addr < p[x].addr
            /\ \A j \in 0 .. (x - 1) : ~(addr < p[j].addr)
        BY <2>1
    <2>3. /\ Position(p, n) \in 0 .. (n - 1)
          /\ addr < p[Position(p, n)].addr
          /\ \A j \in 0 .. (Position(p, n) - 1) : ~(addr < p[j].addr)
        BY <1>2, <2>2 DEF Position
    <2> HIDE DEF Down, Up
    <2> QED BY <1>1, <2>3 DEF SortedBut
<1>3. CASE ~(n > 0 /\ addr < p[n - 1].addr) /\ n < NPAGE - 1 /\ addr > p[n + 1].addr
    <2>1. PICK i \in Up : \A j \in Up : j =< i
        <3>1. n + 1 \in Up /\ Up \in SUBSET Slots
            BY <1>3
        <3> QED BY <3>1, GreatestSlot
    <2>2. \E x \in (n + 1) .. (NPAGE - 1) :
            /\ addr > p[x].addr
            /\ \A j \in (x + 1) .. (NPAGE - 1) : ~(addr > p[j].addr)
        BY <2>1
    <2>3. /\ Position(p, n) \in (n + 1) .. (NPAGE - 1)
          /\ addr > p[Position(p, n)].addr
          /\ \A j \in (Position(p, n) + 1) .. (NPAGE - 1) : ~(addr > p[j].addr)
        BY <1>3, <2>2 DEF Position
    <2> HIDE DEF Down, Up
    <2> QED BY <1>1, <2>3 DEF SortedBut
<1>4. CASE ~(n > 0 /\ addr < p[n - 1].addr) /\ ~(n < NPAGE - 1 /\ addr > p[n + 1].addr)
    <2>1. Position(p, n) = n
        BY <1>4 DEF Position
    <2>2. ASSUME NEW j \in Slots, j < n PROVE p[j].addr =< addr
        <3>1. n > 0 /\ n - 1 \in Slots \ {n} /\ p[n - 1].addr =< addr
            BY <1>1, <1>4, <2>2
        <3>2. p[j].addr =< p[n - 1].addr
            BY <1>1, <2>2, <3>1 DEF SortedBut
        <3> QED BY <1>1, <3>1, <3>2
    <2>3. ASSUME NEW j \in Slots, j > n PROVE addr =< p[j].addr
        <3>1. n < NPAGE - 1 /\ n + 1 \in Slots \ {n} /\ addr =< p[n + 1].addr
            BY <1>1, <1>4, <2>3
        <3>2. p[n + 1].addr =< p[j].addr
            BY <1>1, <2>3, <3>1 DEF SortedBut
        <3> QED BY <1>1, <3>1, <3>2
    <2> QED BY <2>1, <2>2, <2>3
<1> QED BY <1>2, <1>3, <1>4

\* The whole array is sorted again once the refilled slot was moved (reorder_pages).
LEMMA ReorderSorts ==
    ASSUME NEW p \in Arrays, NEW n \in Slots, SortedBut(p, n)
    PROVE  reorder_pages(p, n) \in Arrays /\ Sorted(reorder_pages(p, n))
<1> DEFINE i == Position(p, n)
           q == reorder_pages(p, n)
<1> USE PageCacheAssumption DEF Slots
<1>1. /\ i \in Slots
      /\ \A j \in Slots \ {n} : /\ j < i => p[j].addr =< p[n].addr
                                /\ j > i => p[n].addr =< p[j].addr
      /\ i < n => p[n].addr =< p[i].addr
      /\ n < i => p[i].addr =< p[n].addr
    BY PositionFits
<1>2. \A j \in Slots : q[j] = IF j = i THEN p[n]
                              ELSE IF i < j /\ j =< n THEN p[j - 1]
                              ELSE IF n =< j /\ j < i THEN p[j + 1]
                              ELSE p[j]
    BY DEF reorder_pages, Moved
<1>3. q \in Arrays
    <2>1. q = [j \in Slots |-> q[j]]
        BY DEF reorder_pages, Moved
    <2> HIDE DEF i, q
    <2>2. ASSUME NEW j \in Slots PROVE q[j] \in [addr : Nat, of : Int]
        <3>1. \E k \in Slots : q[j] = p[k]
            <4>1. CASE j = i
                BY <1>2, <4>1
            <4>2. CASE j # i /\ i < j /\ j =< n
                <5>1. j - 1 \in Slots
                    BY <1>1, <4>2
                <5> QED BY <1>2, <4>2, <5>1
            <4>3. CASE j # i /\ n =< j /\ j < i
                <5>1. j + 1 \in Slots /\ ~(i < j)
                    BY <1>1, <4>3
                <5> QED BY <1>2, <4>3, <5>1
            <4>4. CASE j # i /\ ~(i < j /\ j =< n) /\ ~(n =< j /\ j < i)
                BY <1>2, <4>4
            <4> QED BY <4>1, <4>2, <4>3, <4>4
        <3> QED BY <3>1 DEF Arrays
    <2> HIDE DEF Slots
    <2> QED BY <2>1, <2>2 DEF Arrays
<1>4. \A j \in Slots : p[j].addr \in Nat
    BY DEF Arrays
<1> HIDE DEF i, q
<1>5. ASSUME NEW a \in Slots, NEW b \in Slots, a < b PROVE q[a].addr =< q[b].addr
    <2>1. CASE a = i
        BY <1>1, <1>2, <1>4, <1>5, <2>1 DEF SortedBut
    <2>2. CASE b = i
        BY <1>1, <1>2, <1>4, <1>5, <2>2 DEF SortedBut
    <2>3. CASE a # i /\ b # i
        BY <1>1, <1>2, <1>4, <1>5, <2>3 DEF SortedBut
    <2> QED BY <2>1, <2>2, <2>3
<1> QED BY <1>3, <1>5 DEF Sorted, q

\* No other page is lost by the move (memmove in reorder_pages).
LEMMA ReorderKeeps ==
    ASSUME NEW p \in Arrays, NEW n \in Slots, SortedBut(p, n), NEW k \in Slots, k # n
    PROVE  \E j \in Slots : reorder_pages(p, n)[j] = p[k]
<1> DEFINE i == Position(p, n)
<1> USE PageCacheAssumption DEF Slots
<1>1. i \in Slots
    BY PositionFits
<1>2. \A j \in Slots : reorder_pages(p, n)[j] =
            IF j = i THEN p[n]
            ELSE IF i < j /\ j =< n THEN p[j - 1]
            ELSE IF n =< j /\ j < i THEN p[j + 1]
            ELSE p[j]
    BY DEF reorder_pages, Moved
<1> HIDE DEF i
<1>3. CASE i =< k /\ k < n
    <2>1. k + 1 \in Slots /\ reorder_pages(p, n)[k + 1] = p[(k + 1) - 1]
        BY <1>1, <1>2, <1>3
    <2> QED BY <2>1
<1>4. CASE n < k /\ k =< i
    <2>1. k - 1 \in Slots /\ reorder_pages(p, n)[k - 1] = p[(k - 1) + 1]
        BY <1>1, <1>2, <1>4
    <2> QED BY <2>1
<1>5. CASE ~(i =< k /\ k < n) /\ ~(n < k /\ k =< i)
    BY <1>1, <1>2, <1>5
<1> QED BY <1>3, <1>4, <1>5

\* The move is a permutation of the slots, and takes slot n to its position.
LEMMA ReorderPermutes ==
    ASSUME NEW p \in Arrays, NEW n \in Slots, SortedBut(p, n)
    PROVE  /\ Position(p, n) \in Slots /\ reorder_pages(p, n)[Position(p, n)] = p[n]
           /\ \A j, k \in Slots : j # k =>
                \E a, b \in Slots : /\ a # b
                                    /\ reorder_pages(p, n)[j] = p[a]
                                    /\ reorder_pages(p, n)[k] = p[b]
<1> DEFINE i == Position(p, n)
           q == reorder_pages(p, n)
           Source(j) == IF j = i THEN n
                        ELSE IF i < j /\ j =< n THEN j - 1
                        ELSE IF n =< j /\ j < i THEN j + 1
                        ELSE j
<1> USE PageCacheAssumption DEF Slots
<1>1. i \in Slots
    BY PositionFits
<1>2. \A j \in Slots : q[j] = IF j = i THEN p[n]
                              ELSE IF i < j /\ j =< n THEN p[j - 1]
                              ELSE IF n =< j /\ j < i THEN p[j + 1]
                              ELSE p[j]
    BY DEF reorder_pages, Moved
<1> HIDE DEF i, q
<1>3. \A j \in Slots : q[j] = p[Source(j)] /\ Source(j) \in Slots
    BY <1>1, <1>2
<1>4. \A j, k \in Slots : j # k => Source(j) # Source(k)
    BY <1>1
<1>5. q[i] = p[n]
    BY <1>1, <1>2
<1> HIDE DEF Source
<1> QED BY <1>1, <1>3, <1>4, <1>5, Zenon DEF i, q
-----------------------------------------------------------------------------
(* binary_search *)

\* One turn of the loop: the result, or the search in one half.
Turn(s, p, addr, b) ==
    LET l == b[1]
        r == b[2]
        m == l + (r - l) \div 2
    IN  IF l > r THEN NULL
        ELSE IF p[m].addr = addr THEN m
        ELSE IF p[m].addr < addr THEN s[<<m + 1, r>>]
        ELSE s[<<l, m - 1>>]

Table(p, addr) == CHOOSE s : s = [b \in Bounds |-> Turn(s, p, addr, b)]

Width(b) == b[2] - b[1]

\* The table is right for the parts of the array with at most k slots.
RightUpTo(s, p, addr, k) ==
    \A b \in Bounds : Width(b) < k => s[b] = Turn(s, p, addr, b)

LEMMA SearchIsTable ==
    ASSUME NEW p, NEW addr, NEW last
    PROVE  SearchFrom(p, addr, last) = Table(p, addr)[<<0, last>>]
BY Zenon DEF SearchFrom, Table, Turn

LEMMA Widths ==
    ASSUME NEW b \in Bounds
    PROVE  /\ b[1] \in 0 .. NPAGE /\ b[2] \in -1 .. (NPAGE - 1)
           /\ b = <<b[1], b[2]>>
           /\ Width(b) \in Int /\ Width(b) < NPAGE
<1> USE PageCacheAssumption
<1>1. b[1] \in 0 .. NPAGE /\ b[2] \in -1 .. (NPAGE - 1) /\ b = <<b[1], b[2]>>
    BY DEF Bounds
<1>2. b[1] \in Int /\ b[2] \in Int /\ b[1] >= 0 /\ b[2] =< NPAGE - 1
    BY <1>1
<1> QED BY <1>1, <1>2 DEF Width

\* The middle lies in the part that is searched, and both halves are smaller.
LEMMA Middle ==
    ASSUME NEW b \in Bounds, b[1] =< b[2], NEW m, m = b[1] + (b[2] - b[1]) \div 2
    PROVE  /\ m \in b[1] .. b[2] /\ m \in Slots
           /\ <<m + 1, b[2]>> \in Bounds /\ <<b[1], m - 1>> \in Bounds
           /\ Width(<<m + 1, b[2]>>) < Width(b) /\ Width(<<b[1], m - 1>>) < Width(b)
<1> USE PageCacheAssumption DEF Slots
<1> DEFINE l == b[1]
           r == b[2]
           h == (r - l) \div 2
<1>1. l \in Nat /\ r \in Nat /\ r =< NPAGE - 1 /\ l =< r
    BY Widths
<1> HIDE DEF l, r
<1>2. h \in Nat /\ h =< r - l
    BY <1>1
<1>3. m = l + h
    BY DEF l, r
<1> HIDE DEF h
<1>4. /\ m \in l .. r /\ m \in Slots
      /\ m + 1 \in 0 .. NPAGE /\ m - 1 \in -1 .. (NPAGE - 1)
      /\ l \in 0 .. NPAGE /\ r \in -1 .. (NPAGE - 1)
      /\ r - (m + 1) < r - l /\ (m - 1) - l < r - l
    BY <1>1, <1>2, <1>3
<1>5. <<m + 1, r>> \in Bounds /\ <<l, m - 1>> \in Bounds
    BY <1>4 DEF Bounds
<1>6. Width(<<m + 1, r>>) < Width(b) /\ Width(<<l, m - 1>>) < Width(b)
    BY <1>4 DEF Width, l, r
<1> QED BY <1>4, <1>5, <1>6 DEF l, r

\* A turn only depends on smaller parts.
LEMMA TurnDepends ==
    ASSUME NEW s, NEW t, NEW p, NEW addr, NEW b \in Bounds,
           \A c \in Bounds : Width(c) < Width(b) => s[c] = t[c]
    PROVE  Turn(s, p, addr, b) = Turn(t, p, addr, b)
<1> DEFINE m == b[1] + (b[2] - b[1]) \div 2
<1>1. CASE b[1] > b[2]
    BY <1>1 DEF Turn
<1>2. CASE ~(b[1] > b[2])
    <2>1. b[1] =< b[2]
        BY PageCacheAssumption, <1>2, Widths
    <2>2. /\ <<m + 1, b[2]>> \in Bounds /\ <<b[1], m - 1>> \in Bounds
          /\ Width(<<m + 1, b[2]>>) < Width(b) /\ Width(<<b[1], m - 1>>) < Width(b)
        BY <2>1, Middle
    <2>3. s[<<m + 1, b[2]>>] = t[<<m + 1, b[2]>>] /\ s[<<b[1], m - 1>>] = t[<<b[1], m - 1>>]
        BY <2>2
    <2>4. \A u : Turn(u, p, addr, b) =
                    IF p[m].addr = addr THEN m
                    ELSE IF p[m].addr < addr THEN u[<<m + 1, b[2]>>] ELSE u[<<b[1], m - 1>>]
        BY <1>2 DEF Turn
    <2> HIDE DEF m
    <2> QED BY <2>3, <2>4
<1> QED BY <1>1, <1>2

\* There is such a table for every number of slots.
LEMMA TableUpTo ==
    ASSUME NEW p, NEW addr, NEW n \in Nat
    PROVE  \E s : RightUpTo(s, p, addr, n)
<1> DEFINE Bad == {k \in Nat : ~ \E s : RightUpTo(s, p, addr, k)}
<1> SUFFICES ASSUME Bad # {} PROVE FALSE
    BY Zenon
<1>1. PICK k \in Bad : \A j \in Bad : k =< j
    <2>1. Bad \in SUBSET Nat
        BY Zenon
    <2> HIDE DEF Bad
    <2> QED BY <2>1, LeastElement
<1>2. CASE k = 0
    <2> DEFINE s == [b \in Bounds |-> NULL]
    <2>1. RightUpTo(s, p, addr, 0)
        <3> SUFFICES ASSUME NEW b \in Bounds, Width(b) < 0
                     PROVE  s[b] = Turn(s, p, addr, b)
            BY Zenon DEF RightUpTo
        <3>1. b[1] > b[2]
            BY PageCacheAssumption, Widths DEF Width
        <3>2. s[b] = NULL
            BY Zenon
        <3> HIDE DEF s
        <3> QED BY <3>1, <3>2 DEF Turn
    <2> HIDE DEF s
    <2> QED BY <1>1, <1>2, <2>1, Zenon
<1>3. CASE k # 0
    <2>1. k - 1 \in Nat /\ k \in Nat /\ k - 1 \notin Bad
        <3>1. k \in Nat
            BY <1>1, Zenon
        <3> HIDE DEF Bad
        <3> QED BY <1>1, <1>3, <3>1
    <2>2. PICK s : RightUpTo(s, p, addr, k - 1)
        BY <2>1, Zenon
    <2> DEFINE t == [b \in Bounds |->
                        IF Width(b) < k - 1 THEN s[b] ELSE Turn(s, p, addr, b)]
    <2>3. \A b \in Bounds :
            t[b] = IF Width(b) < k - 1 THEN s[b] ELSE Turn(s, p, addr, b)
        BY Zenon
    <2> HIDE DEF t, Bad
    <2>4. ASSUME NEW b \in Bounds, Width(b) < k
          PROVE  t[b] = Turn(t, p, addr, b)
        <3>1. t[b] = Turn(s, p, addr, b)
            BY <2>2, <2>3, Zenon DEF RightUpTo
        <3>2. ASSUME NEW c \in Bounds, Width(c) < Width(b)
              PROVE  s[c] = t[c]
            <4>1. Width(c) < k - 1
                BY <2>1, <2>4, <3>2, Widths
            <4> QED BY <2>3, <4>1, Zenon
        <3>3. \A c \in Bounds : Width(c) < Width(b) => s[c] = t[c]
            BY <3>2, Zenon
        <3> QED BY <3>1, <3>3, TurnDepends
    <2>5. RightUpTo(t, p, addr, k)
        BY <2>4, Zenon DEF RightUpTo
    <2> QED BY <1>1, <2>5, Zenon DEF Bad
<1> QED BY <1>2, <1>3

\* The loop ends for every array, and every turn of it is Turn.
LEMMA TableTurns ==
    ASSUME NEW p, NEW addr, NEW b \in Bounds
    PROVE  Table(p, addr)[b] = Turn(Table(p, addr), p, addr, b)
<1>1. PICK s : RightUpTo(s, p, addr, NPAGE)
    <2>1. NPAGE \in Nat
        BY PageCacheAssumption
    <2> QED BY <2>1, TableUpTo, Zenon
<1>2. \A c \in Bounds : s[c] = Turn(s, p, addr, c)
    BY <1>1, Widths, Zenon DEF RightUpTo
<1> DEFINE t == [c \in Bounds |-> s[c]]
<1>3. \A c \in Bounds : t[c] = s[c]
    BY Zenon
<1>4. ASSUME NEW c \in Bounds
      PROVE  t[c] = Turn(t, p, addr, c)
    <2> HIDE DEF t
    <2>1. Turn(s, p, addr, c) = Turn(t, p, addr, c)
        BY <1>3, TurnDepends
    <2> QED BY <1>2, <1>3, <2>1, Zenon
<1>5. t = [c \in Bounds |-> Turn(t, p, addr, c)]
    <2>1. t = [c \in Bounds |-> t[c]]
        BY Zenon
    <2> HIDE DEF t
    <2> QED BY <1>4, <2>1, Zenon
<1> HIDE DEF t
<1>6. Table(p, addr) = [c \in Bounds |-> Turn(Table(p, addr), p, addr, c)]
    BY <1>5, Zenon DEF Table
<1> HIDE DEF Table
<1> QED BY <1>6, Zenon

\* The search returns a slot with the page, or NULL when none of its part has it.
Searched(T, p, addr, b) ==
    /\ T[b] = NULL \/ (T[b] \in Slots /\ p[T[b]].addr = addr)
    /\ T[b] = NULL => \A n \in b[1] .. b[2] : p[n].addr # addr

\* In a sorted array the half that is left out does not have the page.
LEMMA TurnSearches ==
    ASSUME NEW p \in Arrays, Sorted(p), NEW addr \in Nat, NEW T, NEW b \in Bounds,
           T[b] = Turn(T, p, addr, b),
           \A c \in Bounds : Width(c) < Width(b) => Searched(T, p, addr, c)
    PROVE  Searched(T, p, addr, b)
<1> USE PageCacheAssumption
<1>1. b[1] \in 0 .. NPAGE /\ b[2] \in -1 .. (NPAGE - 1)
    BY Widths
<1>2. CASE b[1] > b[2]
    <2>1. T[b] = NULL
        BY <1>2 DEF Turn
    <2> QED BY <1>1, <1>2, <2>1 DEF Searched
<1>3. CASE b[1] =< b[2]
    <2> DEFINE m == b[1] + (b[2] - b[1]) \div 2
               lower == <<b[1], m - 1>>
               upper == <<m + 1, b[2]>>
    <2>1. /\ m \in b[1] .. b[2] /\ m \in Slots
          /\ upper \in Bounds /\ lower \in Bounds
          /\ Width(upper) < Width(b) /\ Width(lower) < Width(b)
        BY <1>3, Middle, Zenon
    <2>2. T[b] = IF p[m].addr = addr THEN m
                 ELSE IF p[m].addr < addr THEN T[upper] ELSE T[lower]
        <3>1. ~(b[1] > b[2])
            BY <1>1, <1>3
        <3> QED BY <3>1, Zenon DEF Turn
    <2>3. upper[1] = m + 1 /\ upper[2] = b[2] /\ lower[1] = b[1] /\ lower[2] = m - 1
        OBVIOUS
    <2> HIDE DEF m, upper, lower
    <2>4. Searched(T, p, addr, upper) /\ Searched(T, p, addr, lower)
        BY <2>1, Zenon
    <2>5. \A n \in Slots : p[n].addr \in Nat
        BY DEF Arrays
    <2>6. \A n \in b[1] .. b[2] : n \in Slots /\ n \in Int
        BY <1>1 DEF Slots
    <2>7. m \in Int /\ p[m].addr \in Nat
        BY <2>1, <2>5, <2>6
    <2>8. CASE p[m].addr = addr
        <3>1. T[b] = m /\ m # NULL
            BY <2>1, <2>2, <2>8 DEF NULL, Slots
        <3> QED BY <2>1, <2>8, <3>1, Zenon DEF Searched
    <2>9. CASE p[m].addr < addr
        <3>1. T[b] = T[upper]
            BY <2>2, <2>7, <2>9
        <3>2. ASSUME NEW n \in b[1] .. b[2], n =< m PROVE p[n].addr # addr
            <4>1. n \in Slots /\ n \in Int /\ p[n].addr \in Nat
                BY <2>5, <2>6
            <4>2. n = m \/ p[n].addr =< p[m].addr
                BY <2>1, <2>7, <3>2, <4>1 DEF Sorted
            <4> QED BY <2>7, <2>9, <4>1, <4>2
        <3>3. ASSUME NEW n \in b[1] .. b[2], ~(n =< m), T[b] = NULL PROVE p[n].addr # addr
            <4>1. n \in upper[1] .. upper[2]
                BY <1>1, <2>3, <2>7, <3>3
            <4> QED BY <2>4, <3>1, <3>3, <4>1, Zenon DEF Searched
        <3> QED BY <2>4, <3>1, <3>2, <3>3, Zenon DEF Searched
    <2>10. CASE ~(p[m].addr = addr) /\ ~(p[m].addr < addr)
        <3>1. T[b] = T[lower]
            BY <2>2, <2>10, Zenon
        <3>2. ASSUME NEW n \in b[1] .. b[2], n >= m PROVE p[n].addr # addr
            <4>1. n \in Slots /\ n \in Int /\ p[n].addr \in Nat
                BY <2>5, <2>6
            <4>2. n = m \/ p[m].addr =< p[n].addr
                BY <2>1, <2>7, <3>2, <4>1 DEF Sorted
            <4> QED BY <2>7, <2>10, <4>1, <4>2
        <3>3. ASSUME NEW n \in b[1] .. b[2], ~(n >= m), T[b] = NULL PROVE p[n].addr # addr
            <4>1. n \in lower[1] .. lower[2]
                BY <1>1, <2>3, <2>7, <3>3
            <4> QED BY <2>4, <3>1, <3>3, <4>1, Zenon DEF Searched
        <3> QED BY <2>4, <3>1, <3>2, <3>3, Zenon DEF Searched
    <2> QED BY <2>8, <2>9, <2>10
<1> QED BY <1>1, <1>2, <1>3

LEMMA TableSearches ==
    ASSUME NEW p \in Arrays, Sorted(p), NEW addr \in Nat, NEW b \in Bounds
    PROVE  Searched(Table(p, addr), p, addr, b)
<1> DEFINE T == Table(p, addr)
           Bad == {k \in Nat : \E c \in Bounds : Width(c) < k /\ ~Searched(T, p, addr, c)}
<1> SUFFICES ASSUME ~Searched(T, p, addr, b) PROVE FALSE
    BY Zenon
<1>1. NPAGE \in Bad
    <2>1. NPAGE \in Nat /\ Width(b) < NPAGE
        BY PageCacheAssumption, Widths
    <2> QED BY <2>1, Zenon
<1>2. PICK k \in Bad : \A j \in Bad : k =< j
    <2>1. Bad \in SUBSET Nat
        BY Zenon
    <2> HIDE DEF Bad
    <2> QED BY <1>1, <2>1, LeastElement
<1>3. PICK c \in Bounds : Width(c) < k /\ ~Searched(T, p, addr, c)
    BY <1>2, Zenon
<1>4. k \in Nat
    BY <1>2, Zenon
<1>5. ASSUME NEW d \in Bounds, Width(d) < Width(c) PROVE Searched(T, p, addr, d)
    <2>1. CASE Width(c) \in Nat
        <3>1. Width(c) \notin Bad
            <4> HIDE DEF Bad
            <4> QED BY <1>2, <1>3, <1>4, <2>1
        <3> QED BY <1>5, <2>1, <3>1, Zenon
    <2>2. CASE Width(c) \notin Nat
        <3>1. d[1] > d[2] /\ d[1] \in Int /\ d[2] \in Int
            BY <1>5, <2>2, Widths, PageCacheAssumption DEF Width
        <3>2. T[d] = NULL
            <4>1. T[d] = Turn(T, p, addr, d)
                BY TableTurns, Zenon
            <4> HIDE DEF T
            <4> QED BY <3>1, <4>1, Zenon DEF Turn
        <3> HIDE DEF T
        <3> QED BY <3>1, <3>2 DEF Searched
    <2> QED BY <2>1, <2>2
<1>6. T[c] = Turn(T, p, addr, c)
    BY TableTurns, Zenon
<1> HIDE DEF T, Bad
<1>7. \A d \in Bounds : Width(d) < Width(c) => Searched(T, p, addr, d)
    BY <1>5, Zenon
<1> QED BY <1>3, <1>6, <1>7, TurnSearches

\* binary_search finds an address in a sorted array exactly when a slot has it, and returns
\* such a slot.
LEMMA BinarySearch ==
    ASSUME NEW p \in Arrays, Sorted(p), NEW addr \in Nat
    PROVE  \/ /\ binary_search(p, addr) = NULL
              /\ \A n \in Slots : p[n].addr # addr
           \/ /\ binary_search(p, addr) \in Slots
              /\ p[binary_search(p, addr)].addr = addr
<1> DEFINE b == <<0, NPAGE - 1>>
<1>1. b \in Bounds /\ b[1] = 0 /\ b[2] = NPAGE - 1
    BY PageCacheAssumption DEF Bounds
<1>2. binary_search(p, addr) = Table(p, addr)[b]
    BY SearchIsTable, Zenon DEF binary_search
<1> HIDE DEF b
<1>3. Searched(Table(p, addr), p, addr, b)
    BY <1>1, TableSearches, Zenon
<1> HIDE DEF Table
<1> QED BY <1>1, <1>2, <1>3 DEF Searched, Slots
-----------------------------------------------------------------------------
(* The steps *)

\* A slot that is refilled leaves the array sorted (get_page, get_code_page).
LEMMA RefillSorts ==
    ASSUME CacheInv, app_running, NEW a \in Addrs, NEW n \in Slots, Refill(n, a)
    PROVE  pages' \in Arrays /\ Sorted(pages')
<1> DEFINE p == [pages EXCEPT ![n] = [addr |-> a, of |-> a]]
<1>1. p \in Arrays
    BY PageCacheAssumption DEF CacheInv, CacheTypeOK, Arrays
<1>2. SortedBut(p, n)
    BY DEF CacheInv, CacheTypeOK, PagesSorted, SortedBut, Arrays
<1>3. pages' = reorder_pages(p, n)
    BY DEF Refill
<1> QED BY <1>1, <1>2, <1>3, ReorderSorts

\* A slot that is refilled costs the cache at most the page it held (evict_page).
LEMMA RefillCosts ==
    ASSUME CacheInv, app_running, NEW a \in Addrs, NEW n \in Slots, Refill(n, a)
    PROVE  {pages[k].addr : k \in Slots} \ {pages'[k].addr : k \in Slots}
                \subseteq {pages[n].addr}
<1> DEFINE p == [pages EXCEPT ![n] = [addr |-> a, of |-> a]]
<1>1. p \in Arrays
    BY PageCacheAssumption DEF CacheInv, CacheTypeOK, Arrays
<1>2. SortedBut(p, n)
    BY DEF CacheInv, CacheTypeOK, PagesSorted, SortedBut, Arrays
<1>3. pages' = reorder_pages(p, n)
    BY DEF Refill
<1>4. ASSUME NEW k \in Slots, k # n PROVE \E j \in Slots : pages'[j].addr = pages[k].addr
    <2>1. PICK j \in Slots : pages'[j] = p[k]
        BY <1>1, <1>2, <1>3, <1>4, ReorderKeeps, Zenon
    <2>2. p[k] = pages[k]
        BY <1>4 DEF CacheInv, CacheTypeOK, Arrays
    <2> QED BY <2>1, <2>2
<1> QED BY <1>4

\* Every lookup keeps the array typed and sorted as long as the app runs.
LEMMA CacheStep ==
    ASSUME DrawFailureIgnored = FALSE, CacheInv, [CacheNext]_cacheVars
    PROVE  CacheInv'
<1> USE PageCacheAssumption
<1>1. ASSUME NEW a \in Addrs, NEW n \in Slots, app_running, Refill(n, a), UNCHANGED app_running
      PROVE  CacheInv'
    BY <1>1, RefillSorts DEF CacheInv, CacheTypeOK, PagesSorted, Sorted
<1>2. ASSUME NEW a \in Addrs, NEW n \in Slots, RefillFails(n, a), app_running' = FALSE
      PROVE  CacheInv'
    <2>1. PICK p \in {pages[n], [addr |-> a, of |-> Unverified]} :
                pages' = [pages EXCEPT ![n] = p]
        BY <1>2 DEF RefillFails
    <2>2. pages \in Arrays
        BY DEF CacheInv, CacheTypeOK
    <2>3. p \in [addr : Nat, of : Int]
        BY <2>1, <2>2 DEF Arrays, Unverified
    <2>4. pages' \in Arrays
        BY <2>1, <2>2, <2>3 DEF Arrays
    <2> QED BY <1>2, <2>4 DEF CacheInv, CacheTypeOK, PagesSorted
<1>3. CASE UNCHANGED <<pages, app_running>>
    BY <1>3 DEF CacheInv, CacheTypeOK, PagesSorted
<1>4. evict_page \in SUBSET Slots
    BY DEF evict_page, Slots
<1>5. ASSUME NEW a \in Addrs, GetPage(a) PROVE CacheInv'
    BY <1>1, <1>2, <1>3, <1>4, <1>5 DEF GetPage
<1>6. ASSUME NEW a \in Addrs, GetCodePage(a) PROVE CacheInv'
    BY <1>1, <1>2, <1>3, <1>4, <1>6 DEF GetCodePage
<1>7. CASE UNCHANGED cacheVars
    BY <1>3, <1>7 DEF cacheVars
<1> QED BY <1>5, <1>6, <1>7 DEF CacheNext, Stopped

\* The array starts with free slots only (init_caches).
LEMMA CacheStart == CacheInit => CacheInv
BY DEF CacheInit, CacheInv, CacheTypeOK, PagesSorted, Arrays, Free

\* What a lookup may rely on: the data of a slot is that of its address, and no page is
\* in two slots.
LookupInv ==
    /\ current_page \in Slots \cup {NULL}
    /\ app_running =>
        /\ \A n \in Slots : pages[n].addr # 0 => pages[n].of = pages[n].addr
        /\ \A j, k \in Slots : pages[j].addr = pages[k].addr /\ pages[j].addr # 0 => j = k

\* A page that is not found is in no slot, one that is found is where the search says.
LEMMA Lookup ==
    ASSUME CacheInv, LookupInv, app_running, NEW a \in Addrs
    PROVE  \/ find_page(a) = NULL /\ \A n \in Slots : pages[n].addr # a
           \/ /\ find_page(a) \in Slots
              /\ pages[find_page(a)].addr = a /\ pages[find_page(a)].of = a
<1>1. pages \in Arrays /\ Sorted(pages) /\ a \in Nat /\ a # 0
    BY PageCacheAssumption DEF CacheInv, CacheTypeOK, PagesSorted, Sorted
<1>2. \/ binary_search(pages, a) = NULL /\ \A n \in Slots : pages[n].addr # a
      \/ binary_search(pages, a) \in Slots /\ pages[binary_search(pages, a)].addr = a
    BY <1>1, BinarySearch, Zenon
<1> QED BY <1>1, <1>2 DEF LookupInv, find_page

\* A page that is loaded is in one slot, which is the one that is returned.
LEMMA RefillLooksUp ==
    ASSUME CacheInv, LookupInv, app_running, NEW a \in Addrs, NEW n \in Slots,
           \A k \in Slots : pages[k].addr # a, Refill(n, a)
    PROVE  /\ ret' \in Slots /\ pages'[ret'].addr = a /\ pages'[ret'].of = a
           /\ \A k \in Slots : pages'[k].addr # 0 => pages'[k].of = pages'[k].addr
           /\ \A j, k \in Slots :
                pages'[j].addr = pages'[k].addr /\ pages'[j].addr # 0 => j = k
<1> DEFINE p == [pages EXCEPT ![n] = [addr |-> a, of |-> a]]
<1>1. p \in Arrays
    BY PageCacheAssumption DEF CacheInv, CacheTypeOK, Arrays
<1>2. SortedBut(p, n)
    BY DEF CacheInv, CacheTypeOK, PagesSorted, SortedBut, Arrays
<1>3. pages' = reorder_pages(p, n) /\ ret' = Position(p, n)
    BY DEF Refill
<1>4. \A k \in Slots : p[k] = IF k = n THEN [addr |-> a, of |-> a] ELSE pages[k]
    BY DEF CacheInv, CacheTypeOK, Arrays
<1> HIDE DEF p
<1>5. /\ ret' \in Slots /\ pages'[ret'] = p[n]
      /\ \A j, k \in Slots : j # k =>
            \E c, d \in Slots : c # d /\ pages'[j] = p[c] /\ pages'[k] = p[d]
    <2>1. /\ Position(p, n) \in Slots /\ reorder_pages(p, n)[Position(p, n)] = p[n]
          /\ \A j, k \in Slots : j # k =>
                \E c, d \in Slots : /\ c # d
                                    /\ reorder_pages(p, n)[j] = p[c]
                                    /\ reorder_pages(p, n)[k] = p[d]
        BY <1>1, <1>2, ReorderPermutes, Zenon
    <2> QED BY <1>3, <2>1
<1>6. \A k \in Slots : p[k].addr # 0 => p[k].of = p[k].addr
    BY <1>4 DEF LookupInv
<1>7. \A j, k \in Slots : p[j].addr = p[k].addr /\ p[j].addr # 0 => j = k
    BY <1>4 DEF LookupInv
<1>8. ret' \in Slots /\ pages'[ret'].addr = a /\ pages'[ret'].of = a
    BY <1>4, <1>5
<1>9. ASSUME NEW k \in Slots, pages'[k].addr # 0 PROVE pages'[k].of = pages'[k].addr
    <2>1. PICK c \in Slots : pages'[k] = p[c]
        <3>1. CASE k = ret'
            BY <1>5, <3>1
        <3>2. CASE k # ret'
            BY <1>5, <3>2
        <3> QED BY <3>1, <3>2
    <2> QED BY <1>6, <1>9, <2>1
<1>10. ASSUME NEW j \in Slots, NEW k \in Slots, j # k, pages'[j].addr = pages'[k].addr
       PROVE  pages'[j].addr = 0
    <2>1. PICK c, d \in Slots : c # d /\ pages'[j] = p[c] /\ pages'[k] = p[d]
        BY <1>5, <1>10
    <2> QED BY <1>7, <1>10, <2>1
<1> QED BY <1>8, <1>9, <1>10

LEMMA LookupStep ==
    ASSUME DrawFailureIgnored = FALSE, CacheInv, LookupInv, [CacheNext]_cacheVars
    PROVE  LookupInv'
<1>1. evict_page \in SUBSET Slots
    BY PageCacheAssumption DEF evict_page, Slots
<1>2. CASE UNCHANGED <<pages, current_page>> /\ (app_running' => app_running)
    BY <1>2 DEF LookupInv
<1>3. CASE UNCHANGED current_page /\ app_running' = FALSE
    BY <1>3 DEF LookupInv
<1>4. ASSUME NEW a \in Addrs, NEW n \in Slots, app_running, find_page(a) = NULL, Refill(n, a),
             current_page' \in {current_page, ret'}
      PROVE  LookupInv'
    <2>1. \A k \in Slots : pages[k].addr # a
        BY <1>4, Lookup DEF NULL, Slots
    <2> QED BY <1>4, <2>1, RefillLooksUp DEF LookupInv
<1>5. ASSUME NEW a \in Addrs, GetPage(a) PROVE LookupInv'
    BY <1>1, <1>2, <1>3, <1>4, <1>5 DEF GetPage, RefillFails
<1>6. ASSUME NEW a \in Addrs, GetCodePage(a) PROVE LookupInv'
    BY <1>1, <1>2, <1>3, <1>4, <1>6 DEF GetCodePage, RefillFails
<1>7. CASE UNCHANGED cacheVars
    BY <1>2, <1>7 DEF cacheVars
<1> QED BY <1>5, <1>6, <1>7 DEF CacheNext, Stopped
-----------------------------------------------------------------------------
(* The theorems *)

\* The array that binary_search searches is sorted, free slots first, for every number of
\* slots and every order of lookups and failures (evict_page, reorder_pages).
THEOREM CacheSorted ==
    ASSUME DrawFailureIgnored = FALSE
    PROVE  CacheSpec => []PagesSorted
<1>1. CacheInv => PagesSorted
    BY DEF CacheInv
<1>2. CacheInv /\ [CacheNext]_cacheVars => CacheInv'
    BY CacheStep, Zenon
<1> QED BY <1>1, <1>2, CacheStart, PTL DEF CacheSpec

\* A lookup that evicts a page costs the cache that page only, and none while a slot is
\* free, for every number of slots (evict_page, reorder_pages).
THEOREM CacheEvictsOne ==
    ASSUME DrawFailureIgnored = FALSE
    PROVE  CacheSpec => EvictsOnlyTheVictim
<1> DEFINE Lost == ({pages[n].addr : n \in Slots} \ {0}) \ {pages'[n].addr : n \in Slots}
           HasFree == 0 \in {pages[n].addr : n \in Slots}
           Evicts == app_running' => Cardinality(Lost) =< IF HasFree THEN 0 ELSE 1
<1>1. CacheInv /\ [CacheNext]_cacheVars => CacheInv'
    BY CacheStep, Zenon
<1>2. ASSUME CacheInv, [CacheNext]_cacheVars PROVE [Evicts]_cacheVars
    <2> HIDE DEF Evicts
    <2>1. ASSUME Lost = {} PROVE Evicts
        BY <2>1, FS_EmptySet DEF Evicts
    <2>2. ASSUME UNCHANGED pages PROVE Evicts
        BY <2>1, <2>2
    <2>3. ASSUME NEW a \in Addrs, NEW n \in evict_page, app_running, Refill(n, a)
          PROVE  Evicts
        <3>1. n \in Slots
            BY PageCacheAssumption DEF evict_page, Slots
        <3>2. Lost \subseteq {pages[n].addr}
            BY <1>2, <2>3, <3>1, RefillCosts
        <3>3. CASE ~HasFree
            <4>1. IsFiniteSet({pages[n].addr}) /\ Cardinality({pages[n].addr}) = 1
                BY FS_Singleton
            <4>2. Cardinality(Lost) =< 1
                <5> HIDE DEF Lost
                <5> QED BY <3>2, <4>1, FS_Subset
            <4> QED BY <3>3, <4>2 DEF Evicts
        <3>4. CASE HasFree
            <4>1. PICK k \in Slots : pages[k].addr = 0
                BY <3>4
            <4>2. 0 \in Slots /\ pages[0].addr \in Nat /\ pages[0].addr =< pages[k].addr
                BY <1>2, <2>3, PageCacheAssumption
                   DEF CacheInv, CacheTypeOK, PagesSorted, Arrays, Slots
            <4>3. pages[0].addr = 0
                BY <4>1, <4>2
            <4>4. n = 0
                BY <2>3, <4>3 DEF evict_page
            <4>5. Lost = {}
                BY <3>2, <4>3, <4>4
            <4> QED BY <2>1, <4>5
        <3> QED BY <3>3, <3>4
    <2>4. ASSUME app_running' = FALSE PROVE Evicts
        BY <2>4 DEF Evicts
    <2>5. ASSUME NEW a \in Addrs, GetPage(a) PROVE Evicts
        <3>1. /\ app_running
              /\ \/ UNCHANGED pages
                 \/ \E n \in evict_page : Refill(n, a)
                 \/ app_running' = FALSE
            BY <2>5 DEF GetPage
        <3> QED BY <2>2, <2>3, <2>4, <3>1
    <2>6. ASSUME NEW a \in Addrs, GetCodePage(a) PROVE Evicts
        <3>1. /\ app_running
              /\ \/ UNCHANGED pages
                 \/ \E n \in evict_page : Refill(n, a)
                 \/ app_running' = FALSE
            BY <2>6 DEF GetCodePage
        <3> QED BY <2>2, <2>3, <2>4, <3>1
    <2> QED BY <1>2, <2>5, <2>6 DEF CacheNext, Stopped
<1> QED BY <1>1, <1>2, CacheStart, PTL DEF CacheSpec, EvictsOnlyTheVictim

LEMMA CacheLookups ==
    ASSUME DrawFailureIgnored = FALSE
    PROVE  CacheSpec => [](CacheInv /\ LookupInv)
<1>1. CacheInit => LookupInv
    BY DEF CacheInit, LookupInv, Free
<1>2. CacheInv /\ [CacheNext]_cacheVars => CacheInv'
    BY CacheStep, Zenon
<1>3. CacheInv /\ LookupInv /\ [CacheNext]_cacheVars => LookupInv'
    BY LookupStep, Zenon
<1> QED BY <1>1, <1>2, <1>3, CacheStart, PTL DEF CacheSpec

\* binary_search misses no page that is in a slot and finds none that is not, no page is in
\* two slots, and no slot has another page's data (binary_search, reorder_pages).
THEOREM CacheFindsEveryPage ==
    ASSUME DrawFailureIgnored = FALSE
    PROVE  CacheSpec => []FindsEveryPage
<1>1. ASSUME CacheInv, LookupInv PROVE FindsEveryPage
    <2> SUFFICES ASSUME app_running, NEW a \in Addrs
                 PROVE  /\ find_page(a) = NULL <=> Holds(a) = {}
                        /\ Cardinality(Holds(a)) =< 1
                        /\ \A n \in Holds(a) : pages[n].of = a
        BY DEF FindsEveryPage
    <2>1. a # 0
        BY PageCacheAssumption
    <2>2. find_page(a) = NULL <=> Holds(a) = {}
        BY <1>1, Lookup DEF Holds, NULL, Slots
    <2>3. \A j, k \in Holds(a) : j = k
        BY <1>1, <2>1 DEF LookupInv, Holds
    <2>4. \A n \in Holds(a) : pages[n].of = a
        BY <1>1, <2>1 DEF LookupInv, Holds
    <2>5. Cardinality(Holds(a)) =< 1
        <3>1. CASE Holds(a) = {}
            BY <3>1, FS_EmptySet
        <3>2. CASE Holds(a) # {}
            <4>1. PICK n \in Holds(a) : Holds(a) = {n}
                BY <2>3, <3>2
            <4> HIDE DEF Holds
            <4>2. Cardinality({n}) = 1
                BY FS_Singleton
            <4> QED BY <4>1, <4>2
        <3> QED BY <3>1, <3>2
    <2> QED BY <2>2, <2>4, <2>5
<1> QED BY <1>1, CacheLookups, PTL

\* What get_page and get_code_page return points to the page asked for, after the array was
\* reordered.
THEOREM CacheReturnsThePage ==
    ASSUME DrawFailureIgnored = FALSE
    PROVE  CacheSpec => ReturnsThePage
<1> DEFINE Returns(a) == ret' = NULL \/ (pages'[ret'].addr = a /\ pages'[ret'].of = a)
<1>1. ASSUME CacheInv, LookupInv, NEW a \in Addrs, GetPage(a) \/ GetCodePage(a)
      PROVE  Returns(a)
    <2>1. app_running
        BY <1>1 DEF GetPage, GetCodePage
    <2>2. CASE find_page(a) # NULL /\ ret' = find_page(a) /\ UNCHANGED pages
        BY <1>1, <2>1, <2>2, Lookup
    <2>3. CASE current_page # NULL /\ pages[current_page].addr = a
               /\ ret' = current_page /\ UNCHANGED pages
        BY <1>1, <2>1, <2>3, PageCacheAssumption DEF LookupInv
    <2>4. ASSUME NEW n \in evict_page, find_page(a) = NULL, Refill(n, a)
          PROVE  Returns(a)
        <3>1. n \in Slots
            BY PageCacheAssumption DEF evict_page, Slots
        <3>2. \A k \in Slots : pages[k].addr # a
            BY <1>1, <2>1, <2>4, Lookup DEF NULL, Slots
        <3> QED BY <1>1, <2>1, <2>4, <3>1, <3>2, RefillLooksUp
    <2>5. ASSUME NEW n \in evict_page, RefillFails(n, a)
          PROVE  Returns(a)
        BY <2>5 DEF RefillFails
    <2> HIDE DEF Returns
    <2> QED BY <1>1, <2>2, <2>3, <2>4, <2>5 DEF GetPage, GetCodePage
<1>2. CacheInv /\ LookupInv =>
        [\A a \in Addrs : GetPage(a) \/ GetCodePage(a) => Returns(a)]_cacheVars
    BY <1>1
<1> QED BY <1>2, CacheLookups, PTL DEF ReturnsThePage
=============================================================================
